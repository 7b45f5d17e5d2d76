-------------------------- MODULE MembershipProofs --------------------------
(***************************************************************************)
(* What membership keeps for every set of nodes and connections, any       *)
(* number of administrative calls and faults: the types, that activation   *)
(* is local, and that only a merge with a stale reading undoes a           *)
(* retirement.                                                             *)
(***************************************************************************)
EXTENDS Membership, WellFoundedInduction, TLAPS

\* A non-empty set of naturals has a least element.
LEMMA LeastExists ==
    ASSUME NEW S, S \subseteq Nat, S # {}
    PROVE  \E x \in S : \A y \in S : x <= y
<1> DEFINE Less == {p \in Nat \X Nat : p[1] < p[2]}
<1>1. OpToRel(<, Nat) = Less
    BY DEF OpToRel
<1>2. IsWellFoundedOn(Less, Nat)
    BY <1>1, NatLessThanWellFounded
<1>3. \E x \in S : \A y \in S : ~(<<y, x>> \in Less)
    <2> HIDE DEF Less
    <2> QED
        BY <1>2, WFMin
<1>4. PICK x \in S : \A y \in S : ~(<<y, x>> \in Less)
    BY <1>3
<1>5. ASSUME NEW y \in S
      PROVE  x <= y
    <2>1. x \in Nat /\ y \in Nat
        OBVIOUS
    <2>2. ~(y < x)
        BY <1>4, <2>1
    <2> QED
        BY <2>1, <2>2
<1> QED
    BY <1>5

\* HandleHeartbeat always finds a next record while there is one.
LEMMA NextInfoPicks ==
    ASSUME TypeOK, NEW c \in Conn, beat[c].todo # {}
    PROVE  NextInfo(c) \in beat[c].todo
<1> DEFINE T == beat[c].todo
           S == {e.node : e \in T}
<1>1. T \subseteq Info
    BY DEF TypeOK, BeatState
<1>2. S \subseteq Nat /\ S # {}
    <2>1. \A e \in Info : e.node \in Nat
        BY MemberAssumption DEF Info
    <2> QED
        BY <1>1, <2>1
<1>3. PICK k \in S : \A y \in S : k <= y
    BY <1>2, LeastExists
<1>4. PICK low \in T : low.node = k
    BY <1>3
<1>5. \E e \in T : \A x \in T : e.node = From(c) \/ (x.node # From(c) /\ e.node <= x.node)
    <2>1. CASE \E e \in T : e.node = From(c)
        BY <2>1
    <2>2. CASE \A e \in T : e.node # From(c)
        <3>1. \A x \in T : low.node <= x.node
            BY <1>3, <1>4
        <3> QED
            BY <2>2, <3>1, <1>4
    <2> QED
        BY <2>1, <2>2
<1> QED
    BY <1>5 DEF NextInfo

\* The constants of the module are what they are used as.
LEMMA ConnFacts ==
    ASSUME NEW c \in Conn
    PROVE  From(c) \in Node /\ To(c) \in Node /\ From(c) # To(c)
BY MemberAssumption DEF From, To

\* What the two statements on a row leave, and mergeMember with them: a row
\* stays a row, and ACTIVE is never new.
LEMMA RowStatements ==
    ASSUME NEW cur \in Member \cup {NoMember}, NEW s \in Status, NEW i \in Incs,
           NEW k \in Epoch, ops \in Nat
    PROVE  /\ UpsertNode(cur, s, i, k) \in Member
           /\ UpsertNode(cur, s, i, k).status = IF cur = NoMember THEN s ELSE cur.status
           /\ SetNodeStatus(cur, s, k) \in Member \cup {NoMember}
           /\ cur # NoMember => /\ SetNodeStatus(cur, s, k) \in Member
                                /\ SetNodeStatus(cur, s, k).status = s
BY DEF UpsertNode, SetNodeStatus, Member, NoMember, Larger, Epoch

LEMMA MergedRow ==
    ASSUME ops \in Nat, NEW cur \in Member \cup {NoMember},
           NEW stored \in Member \cup {NoMember}, NEW e \in Info,
           NEW r \in Merged(cur, stored, e)
    PROVE  /\ r \in Member \cup {NoMember}
           /\ cur # NoMember => r # NoMember
           /\ r.status = "ACTIVE" => cur.status = "ACTIVE" \/ stored.status = "ACTIVE"
           /\ stored.status = "RETIRED" => r = cur
<1>1. e.status \in Status /\ e.inc \in Incs /\ e.epoch \in Epoch
    BY DEF Info
<1>2. Discovered(e.status) \in Status /\ Discovered(e.status) # "ACTIVE"
    BY DEF Discovered, Status
<1>3. NoMember \notin Member /\ NoMember.status # "ACTIVE"
    BY DEF Member, NoMember, Status
<1>4. CASE stored = NoMember
    <2>1. r = UpsertNode(cur, Discovered(e.status), e.inc, e.epoch)
        BY <1>4 DEF Merged
    <2>2. stored.status # "RETIRED"
        BY <1>4 DEF NoMember
    <2> QED
        BY <1>1, <1>2, <1>3, <2>1, <2>2, RowStatements
<1>5. CASE stored # NoMember /\ Ignored(e, stored)
    BY <1>5, <1>3 DEF Merged
<1>6. CASE stored # NoMember /\ ~Ignored(e, stored)
    <2>1. stored \in Member /\ stored.status # "RETIRED"
        BY <1>6 DEF Ignored
    <2>2. stored.status \in Status /\ stored.inc \in Incs /\ stored.epoch \in Epoch
        BY <2>1 DEF Member
    <2>3. \/ r = UpsertNode(cur, stored.status, e.inc, e.epoch)
          \/ r = SetNodeStatus(cur, e.status, e.epoch) /\ e.status # "ACTIVE"
          \/ r = cur
          \/ r = UpsertNode(cur, stored.status, stored.inc, stored.epoch)
        BY <1>6 DEF Merged
    <2>4. r = SetNodeStatus(cur, e.status, e.epoch) /\ cur = NoMember => r = NoMember
        BY DEF SetNodeStatus
    <2>5. CASE r = SetNodeStatus(cur, e.status, e.epoch) /\ e.status # "ACTIVE"
        BY <1>1, <1>3, <2>1, <2>4, <2>5, RowStatements
    <2>6. CASE r = cur
        BY <2>6
    <2>7. ASSUME NEW i \in Incs, NEW k \in Epoch,
                 r = UpsertNode(cur, stored.status, i, k)
          PROVE  /\ r \in Member
                 /\ r.status = "ACTIVE" => cur.status = "ACTIVE" \/ stored.status = "ACTIVE"
        BY <2>2, <2>7, RowStatements
    <2> QED
        BY <1>1, <1>3, <2>1, <2>2, <2>3, <2>5, <2>6, <2>7
<1> QED
    BY <1>4, <1>5, <1>6

-----------------------------------------------------------------------------
(* The inductive invariant.                                                *)

\* The types grow with the count of administrative calls, and depend on
\* nothing else that changes.
LEMMA TypesKept ==
    ASSUME ops' = ops
    PROVE  /\ Epoch' = Epoch /\ Member' = Member /\ Info' = Info
           /\ BeatState' = BeatState /\ AdminState' = AdminState
BY DEF Epoch, Member, Info, BeatState, AdminState

LEMMA TypesGrow ==
    ASSUME ops \in Nat, ops' = ops + 1
    PROVE  /\ Epoch \subseteq Epoch' /\ Member \subseteq Member'
           /\ BeatState \subseteq BeatState' /\ AdminState \subseteq AdminState'
<1>1. Epoch \subseteq Epoch'
    BY DEF Epoch
<1>2. Member \subseteq Member'
    BY <1>1 DEF Member
<1>3. Info \subseteq Info'
    BY <1>1 DEF Info
<1>4. BeatState \subseteq BeatState'
    BY <1>1, <1>2, <1>3 DEF BeatState
<1>5. AdminState \subseteq AdminState'
    <2>1. 0 .. ops - 1 \subseteq (0 .. ops - 1)'
        OBVIOUS
    <2> QED
        BY <1>2, <2>1 DEF AdminState
<1> QED
    BY <1>1, <1>2, <1>4, <1>5

LEMMA MemberInit ==
    ASSUME Init
    PROVE  MemberInv
<1>1. ops = 0 /\ faults = 0 /\ Epoch = {0} /\ 0 \in 0 .. MaxOps /\ 0 \in 0 .. MaxFaults
    BY MemberAssumption DEF Init, Epoch
<1>2. \A m \in Node : Newcomer(m) \in Member /\ Newcomer(m).status = "JOINING"
    BY <1>1, MemberAssumption DEF Newcomer, Member, Status, Incs
<1>3. NoMember \notin Member /\ NoMember.status = "none"
    BY DEF NoMember, Member, Status
<1>4. row \in [Node -> [Node -> Member \cup {NoMember}]]
    BY <1>2 DEF Init
<1>5. beat \in [Conn -> BeatState]
    BY <1>1 DEF Init, NoBeat, BeatState
<1>6. TypeOK
    BY <1>1, <1>4, <1>5 DEF Init, TypeOK, AdminState
<1>7. ActivationLocal
    BY <1>2, <1>3 DEF Init, ActivationLocal
<1>8. BeatInv
    BY <1>3 DEF Init, BeatInv, NoBeat
<1>9. AdminInv
    BY <1>2, <1>3 DEF Init, AdminInv, NoOp
<1> QED
    BY <1>6, <1>7, <1>8, <1>9 DEF MemberInv

LEMMA BeginKeeps ==
    ASSUME MemberInv, NEW n \in Node, NEW m \in Node, NEW i \in Incs,
           NEW op \in {"add", "retire", "activate"}, Begin(n, op, m, i),
           op = "activate" => m = n /\ row[n][n].status = "JOINING"
    PROVE  MemberInv'
<1> DEFINE a == [pc |-> "begun", op |-> op, node |-> m, inc |-> i,
                 stored |-> row[n][m], epoch |-> dbEpoch[n]]
<1>1. /\ TypeOK /\ ActivationLocal /\ BeatInv /\ AdminInv
      /\ ops \in Nat /\ ops' = ops + 1 /\ ops' \in 0 .. MaxOps
      /\ admin' = [admin EXCEPT ![n] = a]
      /\ UNCHANGED <<row, dbEpoch, memEpoch, beat, faults>>
    BY MemberAssumption DEF MemberInv, TypeOK, Begin
<1>2. a \in AdminState'
    <2>1. row[n][m] \in Member' \cup {NoMember}
        BY <1>1, TypesGrow DEF TypeOK
    <2>2. dbEpoch[n] \in 0 .. ops' - 1
        BY <1>1 DEF TypeOK, Epoch
    <2> QED
        BY <2>1, <2>2 DEF AdminState
<1>3. TypeOK'
    <2>1. row' \in [Node -> [Node -> Member' \cup {NoMember}]]
        BY <1>1, TypesGrow DEF TypeOK
    <2>2. dbEpoch' \in [Node -> Epoch'] /\ memEpoch' \in [Node -> Epoch']
        BY <1>1, TypesGrow DEF TypeOK
    <2>3. beat' \in [Conn -> BeatState']
        BY <1>1, TypesGrow DEF TypeOK
    <2>4. admin' \in [Node -> AdminState']
        <3> HIDE DEF a
        <3> QED
            BY <1>1, <1>2, TypesGrow DEF TypeOK
    <2> QED
        BY <1>1, <2>1, <2>2, <2>3, <2>4 DEF TypeOK
<1>4. ActivationLocal' /\ BeatInv'
    BY <1>1 DEF ActivationLocal, BeatInv
<1>5. AdminInv'
    BY <1>1 DEF AdminInv, TypeOK
<1> QED
    BY <1>3, <1>4, <1>5 DEF MemberInv

\* What a transaction writes, as far as activation goes.
LEMMA ChangedRow ==
    ASSUME MemberInv, NEW n \in Node, admin[n].pc = "bumped"
    PROVE  LET a == admin[n]
               cur == row[n][a.node]
               r == Changed(a, cur)
           IN  /\ a.node \in Node /\ a.epoch + 1 \in Epoch
               /\ r \in Member \cup {NoMember}
               /\ cur # NoMember => r # NoMember
               /\ r.status = "ACTIVE" => cur.status = "ACTIVE" \/ a.node = n
               /\ cur.status = "RETIRED" => r.status = "RETIRED"
<1> DEFINE a == admin[n]
           cur == row[n][a.node]
           r == Changed(a, cur)
<1>1. /\ a.node \in Node /\ a.inc \in Incs /\ a.epoch \in 0 .. ops - 1
      /\ a.op \in {"add", "retire", "activate"} /\ ops \in Nat
    BY MemberAssumption DEF MemberInv, TypeOK, AdminState, NoOp
<1>2. a.epoch + 1 \in Epoch /\ cur \in Member \cup {NoMember}
    BY <1>1 DEF Epoch, MemberInv, TypeOK
<1>3. NoMember \notin Member /\ NoMember.status = "none"
    BY DEF NoMember, Member, Status
<1>4. a.op = "activate" => a.node = n /\ cur.status = "JOINING"
    BY DEF MemberInv, AdminInv
<1> HIDE DEF a, cur, r
<1> DEFINE Kept == /\ r \in Member \cup {NoMember}
                   /\ cur # NoMember => r # NoMember
                   /\ r.status = "ACTIVE" => cur.status = "ACTIVE" \/ a.node = n
                   /\ cur.status = "RETIRED" => r.status = "RETIRED"
<1>5. ASSUME a.op = "add"
      PROVE  Kept
    <2>1. r = UpsertNode(cur, "JOINING", a.inc, a.epoch + 1)
        BY <1>5 DEF Changed, r
    <2> QED
        BY <1>1, <1>2, <1>3, <2>1, RowStatements DEF Status
<1>6. ASSUME a.op = "retire"
      PROVE  Kept
    <2>1. r = SetNodeStatus(cur, "RETIRED", a.epoch + 1)
        BY <1>6 DEF Changed, r
    <2>2. CASE cur = NoMember
        BY <1>3, <2>1, <2>2 DEF SetNodeStatus
    <2>3. CASE cur # NoMember
        BY <1>1, <1>2, <1>3, <2>1, <2>3, RowStatements DEF Status
    <2> QED
        BY <2>2, <2>3
<1>7. ASSUME a.op = "activate"
      PROVE  Kept
    <2>1. r = SetNodeStatus(cur, "ACTIVE", a.epoch + 1)
        BY <1>7 DEF Changed, r
    <2>2. cur # NoMember
        BY <1>3, <1>4, <1>7
    <2> QED
        BY <1>1, <1>2, <1>3, <1>4, <1>7, <2>1, <2>2, RowStatements DEF Status
<1>8. Kept
    BY <1>1, <1>5, <1>6, <1>7
<1> QED
    BY <1>1, <1>2, <1>8 DEF a, cur, r

LEMMA AdminKeeps ==
    ASSUME MemberInv, NEW n \in Node, AdminStep(n)
    PROVE  MemberInv'
<1>1. TypeOK /\ ActivationLocal /\ BeatInv /\ AdminInv
    BY DEF MemberInv
<1>2. ops' = ops /\ ops \in Nat /\ faults' = faults /\ beat' = beat
    BY <1>1 DEF AdminStep, bumpEpoch, Commit, Rollback, TypeOK
<1>3. BeatInv'
    BY <1>1, <1>2 DEF BeatInv
<1>4. CASE bumpEpoch(n)
    <2>1. admin[n].pc # "none" /\ admin[n] \in AdminState
        BY <1>1, <1>4 DEF bumpEpoch, TypeOK
    <2>2. [admin[n] EXCEPT !.pc = "bumped"] \in AdminState /\ admin[n].epoch + 1 \in Epoch
        BY <1>2, <2>1 DEF AdminState, NoOp, Epoch
    <2>3. admin' = [admin EXCEPT ![n] = [admin[n] EXCEPT !.pc = "bumped"]]
        BY <1>1, <1>4 DEF bumpEpoch, TypeOK
    <2>4. admin' \in [Node -> AdminState] /\ memEpoch' \in [Node -> Epoch]
        BY <1>1, <1>4, <2>2, <2>3 DEF bumpEpoch, TypeOK
    <2>5. TypeOK'
        BY <1>1, <1>2, <1>4, <2>4, TypesKept DEF bumpEpoch, TypeOK
    <2>6. \A k \in Node : admin'[k].op = admin[k].op /\ admin'[k].node = admin[k].node
        BY <1>1, <2>1, <2>3 DEF TypeOK, AdminState, NoOp
    <2>7. ActivationLocal' /\ AdminInv'
        BY <1>1, <1>4, <2>6 DEF bumpEpoch, ActivationLocal, AdminInv
    <2> QED
        BY <1>3, <2>5, <2>7 DEF MemberInv
<1>5. CASE Commit(n)
    <2> DEFINE a == admin[n]
               cur == row[n][a.node]
               r == Changed(a, cur)
    <2>1. /\ a.node \in Node /\ a.epoch + 1 \in Epoch
          /\ r \in Member \cup {NoMember}
          /\ cur # NoMember => r # NoMember
          /\ r.status = "ACTIVE" => cur.status = "ACTIVE" \/ a.node = n
        BY <1>5, ChangedRow DEF Commit
    <2>2. /\ row' = [row EXCEPT ![n][a.node] = r]
          /\ dbEpoch' = [dbEpoch EXCEPT ![n] = a.epoch + 1]
          /\ admin' = [admin EXCEPT ![n] = NoOp] /\ memEpoch' = memEpoch
        BY <1>1, <1>5, <2>1 DEF Commit, TypeOK
    <2> HIDE DEF r, a
    <2>3. /\ row' \in [Node -> [Node -> Member \cup {NoMember}]]
          /\ \A i, j \in Node : row'[i][j] = IF i = n /\ j = a.node THEN r ELSE row[i][j]
        BY <1>1, <2>1, <2>2 DEF TypeOK
    <2>4. admin' \in [Node -> AdminState] /\ dbEpoch' \in [Node -> Epoch]
        BY <1>1, <2>1, <2>2 DEF TypeOK, AdminState
    <2>5. TypeOK'
        BY <1>1, <1>2, <2>2, <2>3, <2>4, TypesKept DEF TypeOK
    <2>6. ActivationLocal'
        BY <1>1, <2>1, <2>3 DEF ActivationLocal
    <2>7. AdminInv'
        <3>1. \A k \in Node : row'[k][k] # NoMember
            BY <1>1, <2>1, <2>3 DEF AdminInv
        <3>2. ASSUME NEW k \in Node, admin'[k].op = "activate"
              PROVE  admin'[k].node = k /\ row'[k][k].status = "JOINING"
            <4>1. k # n /\ admin'[k] = admin[k]
                BY <1>1, <2>2, <3>2 DEF TypeOK, NoOp
            <4> QED
                BY <1>1, <2>3, <3>2, <4>1 DEF AdminInv
        <3> QED
            BY <3>1, <3>2 DEF AdminInv
    <2> QED
        BY <1>3, <2>5, <2>6, <2>7 DEF MemberInv
<1>6. CASE Rollback(n)
    <2>1. admin' = [admin EXCEPT ![n] = NoOp] /\ UNCHANGED <<row, dbEpoch, memEpoch>>
        BY <1>6 DEF Rollback
    <2>2. admin' \in [Node -> AdminState]
        BY <1>1, <2>1 DEF TypeOK, AdminState
    <2>3. TypeOK'
        BY <1>1, <1>2, <2>1, <2>2, TypesKept DEF TypeOK
    <2>4. AdminInv' /\ ActivationLocal'
        BY <1>1, <2>1 DEF TypeOK, AdminInv, ActivationLocal, NoOp
    <2> QED
        BY <1>3, <2>3, <2>4 DEF MemberInv
<1> QED
    BY <1>4, <1>5, <1>6 DEF AdminStep

\* A step that only replaces the heartbeat of a connection.
LEMMA BeatOnly ==
    ASSUME MemberInv, NEW c \in Conn, NEW b \in BeatState,
           beat' = [beat EXCEPT ![c] = b],
           UNCHANGED <<row, admin, ops, faults>>,
           dbEpoch' \in [Node -> Epoch], memEpoch' \in [Node -> Epoch],
           b.stored.status # "ACTIVE",
           b.pc \in {"sent", "save", "read", "write"} =>
              b.todo # {} /\ \A e \in b.todo : e.node # To(c),
           b.pc = "built" => \E e \in b.todo : e.node # To(c)
    PROVE  MemberInv'
<1>1. TypeOK /\ ActivationLocal /\ BeatInv /\ AdminInv
    BY DEF MemberInv
<1>2. TypeOK'
    BY <1>1, TypesKept DEF TypeOK
<1>3. ActivationLocal' /\ AdminInv'
    BY <1>1 DEF ActivationLocal, AdminInv
<1>4. \A d \in Conn : beat'[d] = IF d = c THEN b ELSE beat[d]
    BY <1>1 DEF TypeOK
<1>5. BeatInv'
    BY <1>1, <1>4 DEF BeatInv
<1> QED
    BY <1>2, <1>3, <1>5 DEF MemberInv

LEMMA BuildKeeps ==
    ASSUME MemberInv, NEW c \in Conn, Heartbeat(c)
    PROVE  MemberInv'
<1> DEFINE p == From(c)
           T == {InfoOf(p, m) : m \in {p} \cup Members(p)}
           b == [NoBeat EXCEPT !.pc = "built", !.todo = T]
<1>1. TypeOK /\ AdminInv /\ p \in Node /\ p # To(c)
    BY ConnFacts DEF MemberInv
<1>2. \A m \in {p} \cup Members(p) : m \in Node /\ row[p][m] \in Member
    BY <1>1 DEF TypeOK, AdminInv, Members
<1>3. T \subseteq Info
    <2>1. ASSUME NEW m \in {p} \cup Members(p)
          PROVE  InfoOf(p, m) \in Info
        <3>1. m \in Node /\ row[p][m] \in Member /\ Running[p] \in Incs
            BY <1>1, <1>2, MemberAssumption DEF Incs
        <3> QED
            BY <3>1 DEF InfoOf, Info, Member
    <2> QED
        BY <2>1
<1>4. \E e \in T : e.node # To(c)
    <2>1. InfoOf(p, p) \in T /\ InfoOf(p, p).node = p
        BY DEF InfoOf
    <2> QED
        BY <1>1, <2>1
<1> HIDE DEF T
<1>5. b \in BeatState /\ b.pc = "built" /\ b.todo = T /\ b.stored.status = "none"
    <2>1. 0 \in Epoch
        BY <1>1 DEF Epoch, TypeOK
    <2>2. NoBeat \in BeatState /\ NoBeat.stored.status = "none"
        BY <2>1 DEF BeatState, NoBeat, NoMember
    <2> QED
        BY <1>3, <2>2 DEF BeatState
<1>6. beat' = [beat EXCEPT ![c] = b]
    BY DEF Heartbeat, T
<1> HIDE DEF b
<1> QED
    BY <1>1, <1>4, <1>5, <1>6, BeatOnly DEF Heartbeat, TypeOK

LEMMA SendKeeps ==
    ASSUME MemberInv, NEW c \in Conn, SendBeat(c)
    PROVE  MemberInv'
<1> DEFINE now == memEpoch[From(c)]
           old == beat[c].todo
           T == {IF e.node = From(c) THEN [e EXCEPT !.epoch = now] ELSE e :
                    e \in {x \in old : x.node # To(c)}}
           b == [beat[c] EXCEPT !.pc = "sent", !.epoch = now, !.todo = T]
<1>1. /\ TypeOK /\ BeatInv /\ beat[c] \in BeatState /\ now \in Epoch
      /\ old \subseteq Info /\ beat[c].pc = "built"
    BY ConnFacts DEF MemberInv, TypeOK, BeatState, SendBeat
<1>2. T \subseteq Info /\ \A e \in T : e.node # To(c)
    BY <1>1 DEF Info
<1>3. PICK x \in old : x.node # To(c)
    BY <1>1 DEF BeatInv
<1>4. T # {}
    BY <1>3
<1>5. beat' = [beat EXCEPT ![c] = b]
    BY <1>1 DEF SendBeat, TypeOK, BeatState
<1> HIDE DEF T
<1>6. b \in BeatState /\ b.pc = "sent" /\ b.todo = T /\ b.stored = beat[c].stored
    BY <1>1, <1>2 DEF BeatState
<1>7. b.stored.status # "ACTIVE" /\ b.pc # "built"
    BY <1>1, <1>6 DEF BeatInv
<1>8. /\ UNCHANGED <<row, admin, ops, faults>>
      /\ dbEpoch' \in [Node -> Epoch] /\ memEpoch' \in [Node -> Epoch]
    BY <1>1 DEF SendBeat, TypeOK
<1> HIDE DEF b
<1> QED
    BY <1>2, <1>4, <1>5, <1>6, <1>7, <1>8, BeatOnly

LEMMA EpochKeeps ==
    ASSUME MemberInv, NEW c \in Conn, HandleHeartbeat(c) \/ setEpoch(c)
    PROVE  MemberInv'
<1>1. /\ TypeOK /\ BeatInv /\ beat[c] \in BeatState /\ To(c) \in Node
      /\ beat[c].epoch \in Epoch
    BY ConnFacts DEF MemberInv, TypeOK, BeatState
<1>2. PICK pc \in {"save", "read"} : beat' = [beat EXCEPT ![c].pc = pc]
    BY DEF HandleHeartbeat, setEpoch
<1> DEFINE b == [beat[c] EXCEPT !.pc = pc]
<1>3. beat' = [beat EXCEPT ![c] = b]
    BY <1>1, <1>2 DEF TypeOK
<1>4. b \in BeatState /\ b.pc = pc /\ b.todo = beat[c].todo /\ b.stored = beat[c].stored
    BY <1>1 DEF BeatState
<1>5. dbEpoch' \in [Node -> Epoch] /\ memEpoch' \in [Node -> Epoch]
    <2>1. Adopted(memEpoch[To(c)], beat[c].epoch) \in Epoch
        BY <1>1 DEF Adopted, Larger, TypeOK
    <2>2. CASE HandleHeartbeat(c)
        BY <1>1, <2>1, <2>2 DEF HandleHeartbeat, TypeOK
    <2>3. CASE setEpoch(c)
        BY <1>1, <2>3 DEF setEpoch, TypeOK
    <2> QED
        BY <2>2, <2>3
<1>6. b.todo # {} /\ \A e \in b.todo : e.node # To(c)
    BY <1>1, <1>4 DEF HandleHeartbeat, setEpoch, BeatInv
<1>7. b.stored.status # "ACTIVE"
    BY <1>1, <1>4 DEF BeatInv
<1>8. UNCHANGED <<row, admin, ops, faults>>
    BY DEF HandleHeartbeat, setEpoch
<1>9. b.pc # "built"
    BY <1>4
<1> HIDE DEF b
<1> QED
    BY <1>3, <1>4, <1>5, <1>6, <1>7, <1>8, <1>9, BeatOnly

LEMMA ReadKeeps ==
    ASSUME MemberInv, NEW c \in Conn, ReadMember(c)
    PROVE  MemberInv'
<1> DEFINE e == NextInfo(c)
           b == [beat[c] EXCEPT !.pc = "write", !.stored = row[To(c)][e.node]]
<1>1. /\ TypeOK /\ BeatInv /\ ActivationLocal /\ beat[c] \in BeatState /\ To(c) \in Node
      /\ beat[c].pc = "read" /\ beat[c].todo \subseteq Info
    BY ConnFacts DEF MemberInv, TypeOK, BeatState, ReadMember
<1>2. beat[c].todo # {} /\ \A x \in beat[c].todo : x.node # To(c)
    BY <1>1 DEF BeatInv
<1>3. e.node \in Node /\ e.node # To(c)
    BY <1>1, <1>2, NextInfoPicks DEF Info
<1>4. row[To(c)][e.node] \in Member \cup {NoMember} /\ row[To(c)][e.node].status # "ACTIVE"
    BY <1>1, <1>3 DEF TypeOK, ActivationLocal
<1>5. beat' = [beat EXCEPT ![c] = b]
    BY <1>1 DEF ReadMember, TypeOK, BeatState
<1> HIDE DEF e
<1>6. /\ b \in BeatState /\ b.pc = "write" /\ b.todo = beat[c].todo
      /\ b.stored = row[To(c)][e.node]
    BY <1>1, <1>4 DEF BeatState
<1>7. /\ UNCHANGED <<row, admin, ops, faults>>
      /\ dbEpoch' \in [Node -> Epoch] /\ memEpoch' \in [Node -> Epoch]
    BY <1>1 DEF ReadMember, TypeOK
<1>8. b.pc # "built"
    BY <1>6
<1> HIDE DEF b
<1> QED
    BY <1>2, <1>4, <1>5, <1>6, <1>7, <1>8, BeatOnly

\* What the write of a merge leaves in the table.
LEMMA MergeWrites ==
    ASSUME MemberInv, NEW c \in Conn, WriteMember(c)
    PROVE  LET n == To(c)
               m == NextInfo(c).node
           IN  /\ n \in Node /\ m \in Node /\ m # n
               /\ row' \in [Node -> [Node -> Member \cup {NoMember}]]
               /\ \A i, j \in Node : i # n \/ j # m => row'[i][j] = row[i][j]
               /\ row'[n][m].status # "ACTIVE"
               /\ beat[c].stored.status = "RETIRED" => row'[n][m] = row[n][m]
<1> DEFINE n == To(c)
           e == NextInfo(c)
<1>1. /\ TypeOK /\ BeatInv /\ ActivationLocal /\ beat[c] \in BeatState /\ n \in Node
      /\ beat[c].pc = "write" /\ beat[c].todo \subseteq Info /\ ops \in Nat
      /\ beat[c].stored \in Member \cup {NoMember}
    BY ConnFacts DEF MemberInv, TypeOK, BeatState, WriteMember
<1>2. e \in Info /\ e.node \in Node /\ e.node # n
    BY <1>1, NextInfoPicks DEF Info, BeatInv
<1>3. PICK r \in Merged(row[n][e.node], beat[c].stored, e) :
              row' = [row EXCEPT ![n][e.node] = r]
    BY DEF WriteMember
<1>4. row[n][e.node] \in Member \cup {NoMember} /\ row[n][e.node].status # "ACTIVE"
    BY <1>1, <1>2 DEF TypeOK, ActivationLocal
<1>5. beat[c].stored.status # "ACTIVE"
    BY <1>1 DEF BeatInv
<1> HIDE DEF n, e
<1>6. /\ r \in Member \cup {NoMember} /\ r.status # "ACTIVE"
      /\ beat[c].stored.status = "RETIRED" => r = row[n][e.node]
    BY <1>1, <1>2, <1>4, <1>5, MergedRow
<1>7. /\ row' \in [Node -> [Node -> Member \cup {NoMember}]]
      /\ \A i, j \in Node : row'[i][j] = IF i = n /\ j = e.node THEN r ELSE row[i][j]
    <2> DEFINE m == e.node
    <2>1. TypeOK /\ n \in Node /\ m \in Node /\ r \in Member \cup {NoMember}
        BY <1>1, <1>2, <1>6
    <2>2. row' = [row EXCEPT ![n][m] = r]
        BY <1>3
    <2> HIDE DEF m
    <2>3. /\ row' \in [Node -> [Node -> Member \cup {NoMember}]]
          /\ \A i, j \in Node : row'[i][j] = IF i = n /\ j = m THEN r ELSE row[i][j]
        BY <2>1, <2>2 DEF TypeOK
    <2> QED
        BY <2>3 DEF m
<1> QED
    BY <1>1, <1>2, <1>6, <1>7 DEF n, e

LEMMA WriteKeeps ==
    ASSUME MemberInv, NEW c \in Conn, WriteMember(c)
    PROVE  MemberInv'
<1> DEFINE n == To(c)
           m == NextInfo(c).node
           rest == beat[c].todo \ {NextInfo(c)}
           b == IF rest = {} THEN NoBeat
                ELSE [beat[c] EXCEPT !.pc = "read", !.todo = rest, !.stored = NoMember]
<1>1. /\ TypeOK /\ BeatInv /\ ActivationLocal /\ AdminInv /\ beat[c] \in BeatState
      /\ beat[c].pc = "write"
    BY DEF MemberInv, TypeOK, WriteMember
<1>2. /\ n \in Node /\ m \in Node /\ m # n
      /\ row' \in [Node -> [Node -> Member \cup {NoMember}]]
      /\ \A i, j \in Node : i # n \/ j # m => row'[i][j] = row[i][j]
      /\ row'[n][m].status # "ACTIVE"
    BY MergeWrites
<1>3. UNCHANGED <<dbEpoch, memEpoch, admin, ops, faults>>
    BY DEF WriteMember
<1>4. beat' = [beat EXCEPT ![c] = b]
    BY <1>1 DEF WriteMember, TypeOK
<1> HIDE DEF n, m, rest
<1>5. rest \subseteq beat[c].todo
    BY DEF rest
<1>6. /\ b \in BeatState /\ b.stored.status = "none"
      /\ b.pc = "none" \/ (b.pc = "read" /\ b.todo = rest /\ rest # {})
    <2>1. CASE rest = {}
        BY <1>1, <2>1 DEF NoBeat, NoMember, BeatState, Epoch, TypeOK
    <2>2. CASE rest # {}
        BY <1>1, <1>5, <2>2 DEF NoMember, BeatState
    <2> QED
        BY <2>1, <2>2
<1> HIDE DEF b
<1>7. beat' \in [Conn -> BeatState] /\ \A d \in Conn : beat'[d] = IF d = c THEN b ELSE beat[d]
    BY <1>1, <1>4, <1>6 DEF TypeOK
<1>8. TypeOK'
    BY <1>1, <1>2, <1>3, <1>7, TypesKept DEF TypeOK
<1>9. ActivationLocal'
    BY <1>1, <1>2 DEF ActivationLocal
<1>10. BeatInv'
    <2>1. \A e \in beat[c].todo : e.node # To(c)
        BY <1>1 DEF BeatInv
    <2> QED
        BY <1>1, <1>5, <1>6, <1>7, <2>1 DEF BeatInv
<1>11. AdminInv'
    BY <1>1, <1>2, <1>3 DEF AdminInv
<1> QED
    BY <1>8, <1>9, <1>10, <1>11 DEF MemberInv

LEMMA FaultKeeps ==
    ASSUME MemberInv, FaultStep
    PROVE  MemberInv'
<1>1. TypeOK /\ ActivationLocal /\ BeatInv /\ AdminInv
    BY DEF MemberInv
<1>2. NoBeat \in BeatState /\ NoBeat.pc = "none" /\ NoBeat.stored.status = "none"
    BY <1>1 DEF NoBeat, NoMember, BeatState, Epoch, TypeOK
<1>3. faults' \in 0 .. MaxFaults /\ UNCHANGED <<row, dbEpoch, ops>>
    BY <1>1, MemberAssumption DEF FaultStep, LoseBeat, FailAdmin, Crash, Fault, TypeOK
<1>4. memEpoch' \in [Node -> Epoch]
    BY <1>1 DEF FaultStep, LoseBeat, FailAdmin, Crash, TypeOK
<1>5. /\ beat' \in [Conn -> BeatState]
      /\ \A c \in Conn : beat'[c] \in {beat[c], NoBeat}
    BY <1>1, <1>2 DEF FaultStep, LoseBeat, FailAdmin, Crash, Interrupted, TypeOK
<1>6. /\ admin' \in [Node -> AdminState]
      /\ \A n \in Node : admin'[n] \in {admin[n], NoOp}
    BY <1>1 DEF FaultStep, LoseBeat, FailAdmin, Crash, AdminState, TypeOK
<1>7. TypeOK'
    BY <1>1, <1>3, <1>4, <1>5, <1>6, TypesKept DEF TypeOK
<1>8. ActivationLocal'
    BY <1>1, <1>3 DEF ActivationLocal
<1>9. BeatInv'
    BY <1>1, <1>2, <1>5 DEF BeatInv
<1>10. AdminInv'
    BY <1>1, <1>3, <1>6 DEF AdminInv, NoOp
<1> QED
    BY <1>7, <1>8, <1>9, <1>10 DEF MemberInv

LEMMA MemberStep ==
    ASSUME MemberInv, [Next]_vars
    PROVE  MemberInv'
<1>1. ASSUME NEW n \in Node, AdminCall(n)
      PROVE  MemberInv'
    <2>1. ASSUME NEW m \in Subjects, NEW i \in Incs, AddNode(n, m, i)
          PROVE  MemberInv'
        BY <2>1, BeginKeeps, MemberAssumption DEF AddNode
    <2>2. ASSUME NEW m \in Subjects, RetireNode(n, m)
          PROVE  MemberInv'
        <3>1. m \in Node /\ row[n][m] \in Member
            BY <2>2, MemberAssumption DEF RetireNode, MemberInv, TypeOK
        <3>2. row[n][m].inc \in Incs
            BY <3>1 DEF Member
        <3> QED
            BY <2>2, <3>1, <3>2, BeginKeeps DEF RetireNode
    <2>3. CASE Activate(n)
        <3>1. Running[n] \in Incs
            BY MemberAssumption DEF Incs
        <3> QED
            BY <2>3, <3>1, BeginKeeps DEF Activate
    <2> QED
        BY <1>1, <2>1, <2>2, <2>3 DEF AdminCall
<1>2. ASSUME NEW c \in Conn, BeatStep(c)
      PROVE  MemberInv'
    BY <1>2, BuildKeeps, SendKeeps, EpochKeeps, ReadKeeps, WriteKeeps DEF BeatStep
<1>3. CASE UNCHANGED vars
    <2>1. TypeOK'
        BY <1>3, TypesKept DEF vars, MemberInv, TypeOK
    <2>2. ActivationLocal' /\ BeatInv' /\ AdminInv'
        BY <1>3 DEF vars, MemberInv, ActivationLocal, BeatInv, AdminInv
    <2> QED
        BY <2>1, <2>2 DEF MemberInv
<1> QED
    BY <1>1, <1>2, <1>3, AdminKeeps, FaultKeeps DEF Next

\* Whatever interleaving of administration, gossip, lost datagrams, failed
\* statements and crashes: the inductive invariant of Membership.
THEOREM MemberInvariant == Spec => []MemberInv
<1>1. Init => MemberInv
    BY MemberInit
<1>2. MemberInv /\ [Next]_vars => MemberInv'
    BY MemberStep
<1> QED
    BY <1>1, <1>2, PTL DEF Spec

\* Every table, message and field keeps its shape, and no epoch runs ahead of
\* the administrative calls (bumpEpoch, setEpoch).
THEOREM MembersTyped == Spec => []TypeOK
<1>1. MemberInv => TypeOK
    BY DEF MemberInv
<1> QED
    BY <1>1, MemberInvariant, PTL

\* A node lists nobody but itself as ACTIVE, however merges overlap
\* (mergeMember).
THEOREM ActivationStaysLocal == Spec => []ActivationLocal
<1>1. MemberInv => ActivationLocal
    BY DEF MemberInv
<1> QED
    BY <1>1, MemberInvariant, PTL

\* Only a merge that had read the row before takes back a retirement
\* (mergeMember, AddNode, Activate).
THEOREM RetirementPersists == Spec => RetirementSticks
<1> DEFINE Sticks == \A n, m \in Node : Retired(n, m) /\ ~StaleReader(n, m)
                        => Retired(n, m)'
<1>1. ASSUME MemberInv, [Next]_vars, NEW n \in Node, NEW m \in Node,
             Retired(n, m), ~StaleReader(n, m)
      PROVE  Retired(n, m)'
    <2>1. CASE row' = row
        BY <1>1, <2>1 DEF Retired
    <2>2. ASSUME NEW k \in Node, Commit(k)
          PROVE  Retired(n, m)'
        <3>1. /\ admin[k].node \in Node
              /\ row[k][admin[k].node].status = "RETIRED" =>
                    Changed(admin[k], row[k][admin[k].node]).status = "RETIRED"
            BY <1>1, <2>2, ChangedRow DEF Commit
        <3>2. row'[n][m] = IF k = n /\ admin[k].node = m
                           THEN Changed(admin[k], row[k][m]) ELSE row[n][m]
            BY <1>1, <2>2, <3>1 DEF Commit, MemberInv, TypeOK
        <3> QED
            BY <1>1, <3>1, <3>2 DEF Retired
    <2>3. ASSUME NEW c \in Conn, WriteMember(c)
          PROVE  Retired(n, m)'
        <3>1. CASE To(c) # n \/ NextInfo(c).node # m
            BY <1>1, <2>3, <3>1, MergeWrites DEF Retired
        <3>2. CASE To(c) = n /\ NextInfo(c).node = m
            <4>1. beat[c].stored.status = "RETIRED"
                BY <1>1, <2>3, <3>2 DEF StaleReader, WriteMember
            <4> QED
                BY <1>1, <2>3, <3>2, <4>1, MergeWrites DEF Retired
        <3> QED
            BY <3>1, <3>2
    <2>4. \/ row' = row
          \/ \E k \in Node : Commit(k)
          \/ \E c \in Conn : WriteMember(c)
        BY <1>1 DEF Next, vars, AdminCall, AddNode, RetireNode, Activate, Begin,
                    AdminStep, bumpEpoch, Rollback, BeatStep, Heartbeat, SendBeat,
                    HandleHeartbeat, setEpoch, ReadMember, FaultStep, LoseBeat,
                    FailAdmin, Crash
    <2> QED
        BY <2>1, <2>2, <2>3, <2>4
<1>2. MemberInv /\ [Next]_vars => [Sticks]_vars
    BY <1>1
<1> QED
    BY <1>2, MemberInvariant, PTL DEF Spec, RetirementSticks
=============================================================================
