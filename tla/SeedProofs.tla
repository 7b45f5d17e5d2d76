----------------------------- MODULE SeedProofs -----------------------------
(***************************************************************************)
(* Seeding, for any number of origins, tables, rows, events, calls and     *)
(* broken streams.                                                         *)
(***************************************************************************)
EXTENDS Seed, FiniteSetTheorems, WellFoundedInduction, TLAPS

USE SeedAssumption

-----------------------------------------------------------------------------
(* Numbers.                                                                *)

\* A non-empty set of naturals has a least element, which Min denotes.
LEMMA LeastNatural ==
    ASSUME NEW S, S \subseteq Nat, S # {}
    PROVE  Min(S) \in S /\ \A y \in S : Min(S) <= y
<1> DEFINE Less == {p \in Nat \X Nat : p[1] < p[2]}
<1>1. OpToRel(<, Nat) = Less
    BY DEF OpToRel
<1>2. IsWellFoundedOn(Less, Nat)
    BY <1>1, NatLessThanWellFounded
<1> HIDE DEF Less
<1>3. PICK x \in S : \A y \in S : ~(<<y, x>> \in Less)
    BY <1>2, WFMin
<1>4. ASSUME NEW y \in S PROVE x <= y
    <2>1. x \in Nat /\ y \in Nat
        OBVIOUS
    <2>2. y < x => <<y, x>> \in Less
        BY <2>1 DEF Less
    <2> QED
        BY <1>3, <2>1, <2>2
<1> QED
    BY <1>4 DEF Min

\* With an upper bound it has a greatest one, which Max denotes.
LEMMA GreatestNatural ==
    ASSUME NEW K \in Nat, NEW S, S \subseteq 0 .. K, S # {}
    PROVE  Max(S) \in S /\ \A y \in S : y <= Max(S)
<1> DEFINE T == {d \in 0 .. K : K - d \in S}
<1>1. \A y \in S : K - y \in T /\ y \in 0 .. K
    OBVIOUS
<1>2. Min(T) \in T /\ \A y \in T : Min(T) <= y
    <2>1. T # {}
        BY <1>1
    <2>2. T \subseteq Nat
        OBVIOUS
    <2> HIDE DEF T
    <2> QED
        BY <2>1, <2>2, LeastNatural
<1>3. Min(T) \in 0 .. K /\ K - Min(T) \in S
    BY <1>2
<1> DEFINE x == K - Min(T)
<1>4. x \in S /\ \A y \in S : x >= y
    <2> HIDE DEF T
    <2> QED
        BY <1>1, <1>2, <1>3
<1>5. \A y \in S : Max(S) \in S /\ Max(S) >= y
    <2> HIDE DEF x
    <2> QED
        BY <1>4 DEF Max
<1> QED
    BY <1>5

LEMMA LargerOfTwo ==
    ASSUME NEW a \in Nat, NEW b \in Nat
    PROVE  Max({a, b}) \in Nat /\ Max({a, b}) \in {a, b} /\ a <= Max({a, b}) /\ b <= Max({a, b})
<1>1. \E x \in {a, b} : \A y \in {a, b} : x >= y
    <2>1. a >= b \/ b >= a
        OBVIOUS
    <2> QED
        BY <2>1
<1>2. Max({a, b}) \in {a, b} /\ \A y \in {a, b} : Max({a, b}) >= y
    BY <1>1 DEF Max
<1> QED
    BY <1>2

-----------------------------------------------------------------------------
(* Events and cursors.                                                     *)

LEMMA OfFinite ==
    ASSUME TypeOK, NEW o
    PROVE  IsFiniteSet(Of(o)) /\ Cardinality(Of(o)) \in Nat /\ Of(o) \subseteq DOMAIN events
<1>1. DOMAIN events = 1 .. Len(events) /\ Len(events) \in Nat
    BY DEF TypeOK
<1>2. IsFiniteSet(1 .. Len(events))
    BY <1>1, FS_Interval
<1>3. Of(o) \subseteq 1 .. Len(events)
    BY <1>1 DEF Of
<1> QED
    BY <1>1, <1>2, <1>3, FS_Subset, FS_CardinalityType

\* A trigger adds one event, the last of its origin.
LEMMA OneMore ==
    ASSUME TypeOK, NEW n \in Writers, NEW r \in Row, NEW del \in BOOLEAN, Write(n, r, del)
    PROVE  LET i == Len(events) + 1 IN
           /\ i \in Stamps /\ i \notin DOMAIN events /\ n \in Origin
           /\ events' \in Seq([origin : Origin, row : Row, del : BOOLEAN, seq : Nat])
           /\ Len(events') = i /\ DOMAIN events' = DOMAIN events \cup {i}
           /\ \A j \in DOMAIN events : events'[j] = events[j]
           /\ events'[i].origin = n /\ events'[i].seq = Cardinality(Of(n)) + 1
           /\ events'[i].row = r
           /\ \A o : o # n => Of(o)' = Of(o)
           /\ Of(n)' = Of(n) \cup {i}
           /\ Cardinality(Of(n)') = Cardinality(Of(n)) + 1
<1> DEFINE i == Len(events) + 1
           e == [origin |-> n, row |-> r, del |-> del, seq |-> Cardinality(Of(n)) + 1]
           Ev == [origin : Origin, row : Row, del : BOOLEAN, seq : Nat]
<1>1. Len(events) \in Nat /\ DOMAIN events = 1 .. Len(events) /\ events \in Seq(Ev)
    BY DEF TypeOK
<1>2. n \in Origin /\ Cardinality(Of(n)) \in Nat
    BY OfFinite
<1>3. e \in Ev
    BY <1>2
<1>4. events' = Append(events, e) /\ i \in Stamps
    BY <1>1 DEF Write, Stamps
<1>5. e.origin = n /\ e.seq = Cardinality(Of(n)) + 1 /\ e.row = r
    OBVIOUS
<1>6. i \notin DOMAIN events
    BY <1>1
<1> HIDE DEF e, Ev
<1>7. /\ events' \in Seq(Ev) /\ Len(events') = i
      /\ DOMAIN events' = 1 .. i
      /\ events'[i] = e /\ \A j \in 1 .. Len(events) : events'[j] = events[j]
    BY <1>1, <1>3, <1>4
<1>8. DOMAIN events' = DOMAIN events \cup {i}
    BY <1>1, <1>7
<1> HIDE DEF i
<1>9. \A o : o # n => Of(o)' = Of(o)
    BY <1>1, <1>5, <1>7, <1>8 DEF Of
<1>10. Of(n)' = Of(n) \cup {i}
    BY <1>1, <1>5, <1>7, <1>8 DEF Of
<1>11. Cardinality(Of(n)') = Cardinality(Of(n)) + 1
    <2>1. i \notin Of(n)
        BY <1>6, OfFinite
    <2> QED
        BY <1>10, <2>1, OfFinite, FS_AddElement
<1> QED
    BY <1>1, <1>2, <1>4, <1>5, <1>6, <1>7, <1>8, <1>9, <1>10, <1>11 DEF i, Ev

\* The cursor moves up to the first gap of the log.
LEMMA AdvanceSound ==
    ASSUME TypeOK, NEW log, NEW o, NEW cursor \in Nat, cursor <= Cardinality(Of(o))
    PROVE  /\ Advance(log, o, cursor) \in Nat
           /\ cursor <= Advance(log, o, cursor) /\ Advance(log, o, cursor) <= Cardinality(Of(o))
           /\ \A s \in cursor + 1 .. Advance(log, o, cursor) :
                 \E i \in log \cap Of(o) : OriginSeq(i) = s
<1> DEFINE n == Cardinality(Of(o))
           S == {k \in cursor .. n :
                    \A s \in cursor + 1 .. k : \E i \in log \cap Of(o) : OriginSeq(i) = s}
<1>1. n \in Nat
    BY OfFinite
<1>2. cursor \in S
    BY <1>1
<1>3. S \subseteq 0 .. n
    BY <1>1
<1>4. Advance(log, o, cursor) = Max(S)
    BY DEF Advance
<1>5. Max(S) \in S
    <2> HIDE DEF S, n
    <2> QED
        BY <1>1, <1>2, <1>3, GreatestNatural
<1> QED
    BY <1>1, <1>4, <1>5

-----------------------------------------------------------------------------
(* Tables.                                                                 *)

LEMMA EmptyTables ==
    /\ Empty \in Tabled /\ Empty.log = {} /\ \A o \in Origin : Empty.cursor[o] = 0
    /\ \A r \in Row : Empty.val[r] = None /\ Empty.fv[r] = None /\ Empty.tomb[r] = None
BY DEF Empty, Tabled, None, Stamps

LEMMA EventTypes ==
    ASSUME TypeOK, NEW i \in DOMAIN events
    PROVE  /\ i \in Stamps /\ i \in 0 .. MaxEvents /\ i # None
           /\ events[i].row \in Row /\ events[i].origin \in Origin /\ events[i].del \in BOOLEAN
           /\ OriginSeq(i) \in Nat
<1>1. DOMAIN events = 1 .. Len(events) /\ Len(events) \in Nat /\ Len(events) <= MaxEvents
    BY DEF TypeOK
<1> DEFINE Ev == [origin : Origin, row : Row, del : BOOLEAN, seq : Nat]
<1>2. events[i] \in Ev
    <2>1. events \in Seq(Ev)
        BY DEF TypeOK
    <2> HIDE DEF Ev
    <2> QED
        BY <1>1, <2>1
<1>3. i \in Stamps /\ i \in 0 .. MaxEvents /\ i # None
    BY <1>1 DEF Stamps, None
<1> QED
    BY <1>2, <1>3 DEF OriginSeq

LEMMA PrimedOrigin ==
    ASSUME TypeOK', NEW j \in DOMAIN events'
    PROVE  events'[j].origin \in Origin
<1> DEFINE Ev == [origin : Origin, row : Row, del : BOOLEAN, seq : Nat]
<1>1. events' \in Seq(Ev)
    BY DEF TypeOK
<1>2. events'[j] \in Ev
    <2> HIDE DEF Ev
    <2> QED
        BY <1>1
<1> QED
    BY <1>2

\* What applyRow makes of the tables.
LEMMA ResolveFields ==
    ASSUME TypeOK, NEW d \in Tabled, NEW i \in DOMAIN events
    PROVE  LET r == events[i].row
               e == Resolve(d, i) IN
           /\ e \in Tabled /\ e.log = d.log /\ e.cursor = d.cursor
           /\ \A q \in Row : q # r => e.val[q] = d.val[q] /\ e.fv[q] = d.fv[q] /\ e.tomb[q] = d.tomb[q]
           /\ \/ /\ i <= d.tomb[r] \/ (~events[i].del /\ i <= d.fv[r])
                 /\ e = d
              \/ /\ d.tomb[r] < i /\ events[i].del
                 /\ e.val[r] = None /\ e.fv[r] = d.fv[r] /\ e.tomb[r] = i
              \/ /\ d.tomb[r] < i /\ d.fv[r] < i /\ ~events[i].del
                 /\ e.val[r] = i /\ e.fv[r] = i /\ e.tomb[r] = None
<1> DEFINE r == events[i].row
           gone == [d EXCEPT !.val[r] = None, !.tomb[r] = i]
           there == [d EXCEPT !.val[r] = i, !.fv[r] = i, !.tomb[r] = None]
<1>1. r \in Row /\ i \in 0 .. MaxEvents /\ None \in 0 .. MaxEvents
    BY EventTypes DEF None
<1>2. /\ gone \in Tabled /\ gone.log = d.log /\ gone.cursor = d.cursor
      /\ gone.val = [d.val EXCEPT ![r] = None] /\ gone.fv = d.fv
      /\ gone.tomb = [d.tomb EXCEPT ![r] = i]
    <2> HIDE DEF r
    <2> QED
        BY <1>1 DEF Tabled
<1>3. /\ there \in Tabled /\ there.log = d.log /\ there.cursor = d.cursor
      /\ there.val = [d.val EXCEPT ![r] = i] /\ there.fv = [d.fv EXCEPT ![r] = i]
      /\ there.tomb = [d.tomb EXCEPT ![r] = None]
    <2> HIDE DEF r
    <2> QED
        BY <1>1 DEF Tabled
<1>4. /\ d.val \in [Row -> 0 .. MaxEvents] /\ d.fv \in [Row -> 0 .. MaxEvents]
      /\ d.tomb \in [Row -> 0 .. MaxEvents]
    BY DEF Tabled
<1>5. d.tomb[r] \in Nat /\ d.fv[r] \in Nat /\ i \in Nat
    BY <1>1, <1>4
<1> HIDE DEF r, gone, there
<1>6. CASE i <= d.tomb[r] \/ (~events[i].del /\ i <= d.fv[r])
    <2>1. Resolve(d, i) = d
        BY <1>6 DEF Resolve, r
    <2> QED
        BY <1>6, <2>1 DEF r
<1>7. CASE ~(i <= d.tomb[r]) /\ events[i].del
    <2>1. Resolve(d, i) = gone
        BY <1>7 DEF Resolve, r, gone
    <2>2. gone.val[r] = None /\ gone.fv[r] = d.fv[r] /\ gone.tomb[r] = i
        BY <1>1, <1>2, <1>4
    <2>3. \A q \in Row : q # r => gone.val[q] = d.val[q] /\ gone.fv[q] = d.fv[q] /\ gone.tomb[q] = d.tomb[q]
        BY <1>1, <1>2, <1>4
    <2>4. d.tomb[r] < i
        BY <1>5, <1>7
    <2> QED
        BY <1>2, <1>7, <2>1, <2>2, <2>3, <2>4 DEF r
<1>8. CASE ~(i <= d.tomb[r]) /\ ~events[i].del /\ ~(i <= d.fv[r])
    <2>1. Resolve(d, i) = there
        BY <1>8 DEF Resolve, r, there
    <2>2. there.val[r] = i /\ there.fv[r] = i /\ there.tomb[r] = None
        BY <1>1, <1>3, <1>4
    <2>3. \A q \in Row : q # r => there.val[q] = d.val[q] /\ there.fv[q] = d.fv[q] /\ there.tomb[q] = d.tomb[q]
        BY <1>1, <1>3, <1>4
    <2>4. d.tomb[r] < i /\ d.fv[r] < i
        BY <1>5, <1>8
    <2> QED
        BY <1>3, <1>8, <2>1, <2>2, <2>3, <2>4 DEF r
<1> QED
    BY <1>6, <1>7, <1>8

\* And ApplyBatch of the tables, the log and the cursor.
LEMMA ApplyFields ==
    ASSUME TypeOK, NEW d \in Tabled, NEW i \in DOMAIN events,
           \A o \in Origin : d.cursor[o] <= Cardinality(Of(o))
    PROVE  LET o == events[i].origin
               a == ApplyEvent(d, i) IN
           /\ a \in Tabled /\ a.log = d.log \cup {i}
           /\ a.val = Resolve(d, i).val /\ a.fv = Resolve(d, i).fv /\ a.tomb = Resolve(d, i).tomb
           /\ a.cursor[o] = Advance(d.log \cup {i}, o, d.cursor[o])
           /\ \A q \in Origin : q # o => a.cursor[q] = d.cursor[q]
<1> DEFINE o == events[i].origin
           e == Resolve(d, i)
           k == Advance(d.log \cup {i}, o, d.cursor[o])
           a == [e EXCEPT !.log = @ \cup {i}, !.cursor[o] = k]
<1>1. o \in Origin /\ i \in Stamps
    BY EventTypes
<1>2. e \in Tabled /\ e.log = d.log /\ e.cursor = d.cursor
    BY ResolveFields
<1>3. d.cursor \in [Origin -> Nat]
    BY DEF Tabled
<1>4. k \in Nat
    <2>1. d.cursor[o] \in Nat /\ d.cursor[o] <= Cardinality(Of(o))
        BY <1>1, <1>3
    <2> HIDE DEF o
    <2> QED
        BY <2>1, AdvanceSound
<1>5. ApplyEvent(d, i) = a
    BY <1>1, <1>2 DEF ApplyEvent, Tabled
<1> HIDE DEF o, k, e
<1>6. /\ a \in Tabled /\ a.log = e.log \cup {i} /\ a.val = e.val /\ a.fv = e.fv /\ a.tomb = e.tomb
      /\ a.cursor = [e.cursor EXCEPT ![o] = k]
    BY <1>1, <1>2, <1>4 DEF Tabled
<1>7. a.cursor[o] = k /\ \A q \in Origin : q # o => a.cursor[q] = d.cursor[q]
    BY <1>1, <1>2, <1>3, <1>6
<1> HIDE DEF a
<1> QED
    BY <1>2, <1>5, <1>6, <1>7 DEF o, k, e

\* One item is written into one column.
LEMMA LoadedFields ==
    ASSUME NEW d \in Tabled, NEW snap \in Tabled, NEW p \in UNION Range(Places)
    PROVE  LET r == RowAt(p)
               e == Loaded(d, snap, p) IN
           /\ r \in Row /\ e \in Tabled /\ e.log = d.log /\ e.cursor = d.cursor
           /\ p[2] \in {RowSection, VersionSection, TombstoneSection}
           /\ p[2] = RowSection => /\ e.val = [d.val EXCEPT ![r] = snap.val[r]]
                                   /\ e.fv = d.fv /\ e.tomb = d.tomb
           /\ p[2] = VersionSection => /\ e.fv = [d.fv EXCEPT ![r] = snap.fv[r]]
                                       /\ e.val = d.val /\ e.tomb = d.tomb
           /\ p[2] = TombstoneSection => /\ e.tomb = [d.tomb EXCEPT ![r] = snap.tomb[r]]
                                         /\ e.val = d.val /\ e.fv = d.fv
<1> DEFINE r == RowAt(p)
<1>1. PICK t \in DOMAIN Tables : p \in {t} \X (1 .. 3) \X DOMAIN Tables[t]
    BY DEF Places, Range
<1>2. p[1] = t /\ p[2] \in 1 .. 3 /\ p[3] \in DOMAIN Tables[t]
    BY <1>1
<1>3. r \in Row
    BY <1>2 DEF RowAt, Row, Range
<1>4. p[2] \in {RowSection, VersionSection, TombstoneSection}
    BY <1>2 DEF RowSection, VersionSection, TombstoneSection
<1>5. /\ p[2] = RowSection => Loaded(d, snap, p) = [d EXCEPT !.val[r] = snap.val[r]]
      /\ p[2] = VersionSection => Loaded(d, snap, p) = [d EXCEPT !.fv[r] = snap.fv[r]]
      /\ p[2] = TombstoneSection => Loaded(d, snap, p) = [d EXCEPT !.tomb[r] = snap.tomb[r]]
    BY DEF Loaded, RowSection, VersionSection, TombstoneSection
<1> HIDE DEF r
<1>6. CASE p[2] = RowSection
    BY <1>3, <1>4, <1>5, <1>6 DEF Tabled, r, RowSection, VersionSection, TombstoneSection
<1>7. CASE p[2] = VersionSection
    BY <1>3, <1>4, <1>5, <1>7 DEF Tabled, r, RowSection, VersionSection, TombstoneSection
<1>8. CASE p[2] = TombstoneSection
    BY <1>3, <1>4, <1>5, <1>8 DEF Tabled, r, RowSection, VersionSection, TombstoneSection
<1> QED
    BY <1>4, <1>6, <1>7, <1>8

-----------------------------------------------------------------------------
(* The vector.                                                             *)

\* The cursors do not claim an event that is only being written.
LEMMA WriteCovers ==
    ASSUME TypeOK, NEW n \in Writers, NEW r \in Row, NEW del \in BOOLEAN, Write(n, r, del),
           NEW d \in Tabled, NEW S, Covers(d, S)
    PROVE  /\ S \subseteq DOMAIN events'
           /\ \A o \in Origin : d.cursor[o] <= Cardinality(Of(o)')
           /\ \A j \in DOMAIN events' : events'[j].seq <= d.cursor[events'[j].origin] => j \in S
<1> DEFINE i == Len(events) + 1
<1>1. /\ DOMAIN events' = DOMAIN events \cup {i} /\ n \in Origin
      /\ \A j \in DOMAIN events : events'[j] = events[j]
      /\ events'[i].origin = n /\ events'[i].seq = Cardinality(Of(n)) + 1
      /\ \A o : o # n => Of(o)' = Of(o)
      /\ Cardinality(Of(n)') = Cardinality(Of(n)) + 1
    BY OneMore
<1>2. \A o \in Origin : d.cursor[o] \in Nat /\ Cardinality(Of(o)) \in Nat
    BY OfFinite DEF Tabled
<1>3. \A o \in Origin : d.cursor[o] <= Cardinality(Of(o))
    BY DEF Covers
<1>4. \A o \in Origin : d.cursor[o] <= Cardinality(Of(o)')
    <2> TAKE o \in Origin
    <2>1. CASE o = n
        BY <1>1, <1>2, <1>3, <2>1
    <2>2. CASE o # n
        <3>1. Of(o)' = Of(o)
            BY <1>1, <2>2
        <3> QED
            BY <1>3, <3>1
    <2> QED
        BY <2>1, <2>2
<1>5. ASSUME NEW j \in DOMAIN events', events'[j].seq <= d.cursor[events'[j].origin]
      PROVE  j \in S
    <2>1. CASE j \in DOMAIN events
        BY <1>1, <1>5, <2>1 DEF Covers, OriginSeq
    <2>2. CASE j = i
        BY <1>1, <1>2, <1>3, <1>5, <2>2
    <2> QED
        BY <1>1, <2>1, <2>2
<1> QED
    BY <1>1, <1>4, <1>5 DEF Covers

\* ApplyBatch claims what it has applied, with everything before it.
LEMMA ApplyCovers ==
    ASSUME TypeOK, Numbered, NEW d \in Tabled, NEW S, Covers(d, S), d.log \subseteq S,
           NEW i \in DOMAIN events
    PROVE  Covers(ApplyEvent(d, i), S \cup {i})
<1> DEFINE a == ApplyEvent(d, i)
           o == events[i].origin
           k == Advance(d.log \cup {i}, o, d.cursor[o])
<1>1. \A q \in Origin : d.cursor[q] \in Nat /\ d.cursor[q] <= Cardinality(Of(q))
    BY DEF Covers, Tabled
<1>2. /\ a.cursor[o] = k /\ \A q \in Origin : q # o => a.cursor[q] = d.cursor[q]
    BY <1>1, ApplyFields
<1>3. o \in Origin
    BY EventTypes
<1>4. /\ k \in Nat /\ k <= Cardinality(Of(o))
      /\ \A s \in d.cursor[o] + 1 .. k : \E j \in (d.log \cup {i}) \cap Of(o) : OriginSeq(j) = s
    <2> HIDE DEF o
    <2> QED
        BY <1>1, <1>3, AdvanceSound
<1>5. ASSUME NEW q \in Origin PROVE a.cursor[q] <= Cardinality(Of(q))
    BY <1>1, <1>2, <1>4
<1>6. ASSUME NEW j \in DOMAIN events, OriginSeq(j) <= a.cursor[events[j].origin]
      PROVE  j \in S \cup {i}
    <2>1. events[j].origin \in Origin /\ OriginSeq(j) \in Nat
        BY EventTypes
    <2>2. CASE OriginSeq(j) <= d.cursor[events[j].origin]
        BY <2>2 DEF Covers
    <2>3. CASE ~(OriginSeq(j) <= d.cursor[events[j].origin])
        <3>1. events[j].origin = o
            BY <1>2, <1>6, <2>1, <2>3
        <3>2. OriginSeq(j) \in d.cursor[o] + 1 .. k
            BY <1>1, <1>2, <1>3, <1>4, <1>6, <2>1, <2>3, <3>1
        <3>3. PICK m \in (d.log \cup {i}) \cap Of(o) : OriginSeq(m) = OriginSeq(j)
            BY <1>4, <3>2
        <3>4. m \in DOMAIN events /\ events[m].origin = o
            BY <3>3 DEF Of
        <3>5. m = j
            BY <3>1, <3>3, <3>4 DEF Numbered
        <3> QED
            BY <3>3, <3>5
    <2> QED
        BY <2>2, <2>3
<1> QED
    BY <1>5, <1>6 DEF Covers

LEMMA WriteStep ==
    ASSUME CursorInv, NEW n \in Writers, NEW r \in Row, NEW del \in BOOLEAN, Write(n, r, del)
    PROVE  CursorInv'
<1>0. PICK i : i = Len(events) + 1
    OBVIOUS
<1> DEFINE w == [src EXCEPT !.val[r] = IF del THEN None ELSE i,
                            !.log = @ \cup {i}, !.cursor[n] = @ + 1]
<1>1. TypeOK /\ Numbered
    BY DEF CursorInv
<1>2. /\ i \in Stamps /\ i \notin DOMAIN events /\ n \in Origin
      /\ events' \in Seq([origin : Origin, row : Row, del : BOOLEAN, seq : Nat])
      /\ Len(events') = i /\ DOMAIN events' = DOMAIN events \cup {i}
      /\ \A j \in DOMAIN events : events'[j] = events[j]
      /\ events'[i].origin = n /\ events'[i].seq = Cardinality(Of(n)) + 1
      /\ \A o : o # n => Of(o)' = Of(o)
      /\ Of(n)' = Of(n) \cup {i}
      /\ Cardinality(Of(n)') = Cardinality(Of(n)) + 1
    BY <1>0, <1>1, OneMore
<1>3. UNCHANGED <<dst, load, base>> /\ src' = IF n # Source THEN src ELSE w
    BY <1>0 DEF Write
<1>4. src \in Tabled /\ src' \in Tabled /\ (n # Source => src' = src)
      /\ (n = Source => /\ src'.log = src.log \cup {i}
                        /\ src'.cursor = [src.cursor EXCEPT ![n] = @ + 1])
    <2>1. src \in Tabled
        BY <1>1 DEF TypeOK
    <2>2. i \in 0 .. MaxEvents /\ None \in 0 .. MaxEvents
        BY <1>2 DEF Stamps, None
    <2>3. w \in Tabled /\ w.log = src.log \cup {i} /\ w.cursor = [src.cursor EXCEPT ![n] = @ + 1]
        <3> DEFINE v == IF del THEN None ELSE i
                   k == src.cursor[n] + 1
                   x == [src EXCEPT !.val[r] = v, !.log = @ \cup {i}, !.cursor[n] = k]
        <3>1. w = x
            BY <2>1 DEF Tabled
        <3>2. v \in 0 .. MaxEvents
            BY <2>2
        <3>3. src.cursor[n] \in Nat /\ k \in Nat
            BY <1>2, <2>1 DEF Tabled
        <3>4. [src.cursor EXCEPT ![n] = k] = [src.cursor EXCEPT ![n] = @ + 1]
            BY <1>2, <2>1 DEF Tabled
        <3> HIDE DEF v, w, k
        <3>5. x \in Tabled /\ x.log = src.log \cup {i} /\ x.cursor = [src.cursor EXCEPT ![n] = k]
            BY <1>2, <2>1, <3>2, <3>3 DEF Tabled
        <3> QED
            BY <3>1, <3>4, <3>5
    <2> HIDE DEF w
    <2> QED
        BY <1>3, <2>1, <2>3
<1>5. TypeOK'
    <2>1. i <= MaxEvents
        BY <1>2 DEF Stamps
    <2> QED
        BY <1>1, <1>2, <1>3, <1>4, <2>1 DEF TypeOK
<1>6. Numbered'
    <2>1. \A j \in DOMAIN events : /\ OriginSeq(j) \in 1 .. Cardinality(Of(events[j].origin))
                                   /\ OriginSeq(j) = events[j].seq
                                   /\ OriginSeq(j)' = events[j].seq
        BY <1>1, <1>2 DEF Numbered, OriginSeq
    <2>2. OriginSeq(i)' = Cardinality(Of(n)) + 1 /\ Cardinality(Of(n)) \in Nat
        BY <1>1, <1>2, OfFinite DEF OriginSeq
    <2>3. ASSUME NEW j \in DOMAIN events'
          PROVE  OriginSeq(j)' \in 1 .. Cardinality(Of(events[j].origin)')
        <3>1. CASE j = i
            <4>1. events'[j].origin = n
                BY <1>2, <3>1
            <4>2. Cardinality(Of(events[j].origin)') = Cardinality(Of(n)) + 1
                BY <1>2, <4>1 DEF Of
            <4> QED
                BY <2>2, <3>1, <4>2
        <3>2. CASE j \in DOMAIN events
            <4>1. events'[j] = events[j]
                BY <1>2, <3>2
            <4>2. CASE events[j].origin = n
                <5>1. Cardinality(Of(events[j].origin)') = Cardinality(Of(n)) + 1
                    BY <1>2, <4>1, <4>2
                <5> QED
                    BY <2>1, <2>2, <3>2, <4>2, <5>1
            <4>3. CASE events[j].origin # n
                <5>1. Of(events[j].origin)' = Of(events[j].origin)
                    BY <1>2, <4>1, <4>3
                <5> QED
                    BY <2>1, <3>2, <5>1
            <4> QED
                BY <4>2, <4>3
        <3> QED
            BY <1>2, <3>1, <3>2
    <2>4. ASSUME NEW j \in DOMAIN events', NEW m \in DOMAIN events',
                 events'[j].origin = events'[m].origin, OriginSeq(j)' = OriginSeq(m)'
          PROVE  j = m
        <3>1. \A q \in DOMAIN events : events[q].origin = n => events[q].seq <= Cardinality(Of(n))
            BY <2>1, <2>2
        <3>2. CASE j \in DOMAIN events /\ m \in DOMAIN events
            BY <1>1, <1>2, <2>1, <2>4, <3>2 DEF Numbered
        <3>3. CASE j = i /\ m \in DOMAIN events
            BY <1>2, <2>1, <2>2, <2>4, <3>1, <3>3
        <3>4. CASE m = i /\ j \in DOMAIN events
            BY <1>2, <2>1, <2>2, <2>4, <3>1, <3>4
        <3> QED
            BY <1>2, <3>2, <3>3, <3>4
    <2>5. Of(Source)' \subseteq src'.log
        BY <1>1, <1>2, <1>4 DEF Numbered
    <2> QED
        BY <2>3, <2>4, <2>5 DEF Numbered
<1>7. ASSUME NEW d \in Tabled, NEW S, Covers(d, S)
      PROVE  /\ S \subseteq DOMAIN events'
             /\ \A o \in Origin : d.cursor[o] <= Cardinality(Of(o)')
             /\ \A j \in DOMAIN events' : OriginSeq(j)' <= d.cursor[events'[j].origin] => j \in S
    BY <1>1, <1>7, WriteCovers DEF OriginSeq
<1>8. Covers(dst, Reflected)' /\ Covers(load.snap, load.snap.log)'
    <2>1. dst \in Tabled /\ load.snap \in Tabled
        BY <1>1 DEF TypeOK
    <2>2. Reflected' = Reflected /\ load.snap' = load.snap /\ dst' = dst
        BY <1>3 DEF Reflected
    <2>3. Covers(dst, Reflected) /\ Covers(load.snap, load.snap.log)
        BY DEF CursorInv
    <2> QED
        BY <1>7, <2>1, <2>2, <2>3 DEF Covers
<1>9. Covers(src, src.log)'
    <2>1. Covers(src, src.log)
        BY DEF CursorInv
    <2>2. /\ src.log \subseteq DOMAIN events'
          /\ \A o \in Origin : src.cursor[o] <= Cardinality(Of(o)')
          /\ \A j \in DOMAIN events' : OriginSeq(j)' <= src.cursor[events'[j].origin] => j \in src.log
        BY <1>4, <1>7, <2>1
    <2>3. CASE n # Source
        BY <1>4, <2>2, <2>3 DEF Covers
    <2>4. CASE n = Source
        <3>1. src'.log \subseteq DOMAIN events'
            BY <1>2, <1>4, <2>2, <2>4
        <3>2. src.cursor \in [Origin -> Nat] /\ src.cursor[n] <= Cardinality(Of(n))
              /\ Cardinality(Of(n)) \in Nat
            BY <1>1, <1>2, <1>4, <2>1, OfFinite DEF Tabled, Covers
        <3>3. ASSUME NEW o \in Origin PROVE src'.cursor[o] <= Cardinality(Of(o)')
            <4>1. CASE o = n
                <5>1. src'.cursor[o] = src.cursor[n] + 1
                    BY <1>2, <1>4, <2>4, <3>2, <4>1
                <5>2. Cardinality(Of(o)') = Cardinality(Of(n)) + 1
                    BY <1>2, <4>1 DEF Of
                <5>3. src.cursor[n] \in Nat
                    BY <1>2, <3>2
                <5> QED
                    BY <3>2, <5>1, <5>2, <5>3
            <4>2. CASE o # n
                <5>1. src'.cursor[o] = src.cursor[o]
                    BY <1>2, <1>4, <2>4, <3>2, <4>2
                <5> QED
                    BY <2>2, <5>1
            <4> QED
                BY <4>1, <4>2
        <3>4. ASSUME NEW j \in DOMAIN events', OriginSeq(j)' <= src'.cursor[events'[j].origin]
              PROVE  j \in src'.log
            <4>1. CASE events'[j].origin = n
                <5>1. j \in Of(n)'
                    BY <4>1 DEF Of
                <5> QED
                    BY <1>6, <2>4, <5>1 DEF Numbered
            <4>2. CASE events'[j].origin # n
                <5>1. events'[j].origin \in Origin
                    BY <1>5, PrimedOrigin
                <5>2. src'.cursor[events'[j].origin] = src.cursor[events'[j].origin]
                    BY <1>2, <1>4, <2>4, <3>2, <4>2, <5>1
                <5> QED
                    BY <1>4, <2>2, <2>4, <3>4, <5>2
            <4> QED
                BY <4>1, <4>2
        <3> QED
            BY <3>1, <3>3, <3>4 DEF Covers
    <2> QED
        BY <2>3, <2>4
<1> QED
    BY <1>5, <1>6, <1>8, <1>9 DEF CursorInv

\* The steps that leave the events and the source's tables alone.
LEMMA QuietSource ==
    ASSUME CursorInv, events' = events, src' = src
    PROVE  Numbered' /\ Covers(src, src.log)' /\ events' \in Seq([origin : Origin, row : Row, del : BOOLEAN, seq : Nat])
           /\ Len(events') <= MaxEvents /\ src' \in Tabled
<1>1. Numbered /\ Covers(src, src.log) /\ TypeOK
    BY DEF CursorInv
<1>2. Numbered'
    BY <1>1 DEF Numbered, Of, OriginSeq
<1>3. Covers(src, src.log)'
    BY <1>1 DEF Covers, Of, OriginSeq
<1> QED
    BY <1>1, <1>2, <1>3 DEF TypeOK

LEMMA SourceStep ==
    ASSUME CursorInv, NEW i \in DOMAIN events, SourceApply(i)
    PROVE  CursorInv'
<1>1. TypeOK /\ Numbered /\ Covers(src, src.log) /\ src \in Tabled
    BY DEF CursorInv, TypeOK
<1>2. src' = ApplyEvent(src, i) /\ UNCHANGED <<events, dst, load, base>>
    BY DEF SourceApply
<1>3. ApplyEvent(src, i) \in Tabled /\ ApplyEvent(src, i).log = src.log \cup {i}
    BY <1>1, ApplyFields DEF Covers
<1>4. Covers(ApplyEvent(src, i), src.log \cup {i})
    BY <1>1, ApplyCovers
<1>5. src' \in Tabled /\ src'.log = src.log \cup {i} /\ Covers(src', src.log \cup {i})
    BY <1>2, <1>3, <1>4
<1>6. Covers(src, src.log)'
    BY <1>2, <1>5 DEF Covers, Of, OriginSeq
<1>7. TypeOK'
    BY <1>1, <1>2, <1>5 DEF TypeOK
<1>8. Numbered'
    BY <1>1, <1>2, <1>5 DEF Numbered, Of, OriginSeq
<1>9. Covers(dst, Reflected)' /\ Covers(load.snap, load.snap.log)'
    BY <1>2 DEF CursorInv, Covers, Of, OriginSeq, Reflected
<1> QED
    BY <1>6, <1>7, <1>8, <1>9 DEF CursorInv

LEMMA JoinerStep ==
    ASSUME CursorInv, NEW i \in DOMAIN events, JoinerApply(i)
    PROVE  CursorInv'
<1>1. TypeOK /\ Numbered /\ Covers(dst, Reflected) /\ dst \in Tabled /\ dst.log \subseteq Reflected
    BY DEF CursorInv, TypeOK, Reflected
<1>2. dst' = ApplyEvent(dst, i) /\ UNCHANGED <<events, src, load, base>>
    BY DEF JoinerApply
<1>3. ApplyEvent(dst, i) \in Tabled /\ ApplyEvent(dst, i).log = dst.log \cup {i}
    BY <1>1, ApplyFields DEF Covers
<1>4. Covers(ApplyEvent(dst, i), Reflected \cup {i})
    BY <1>1, ApplyCovers
<1>5. dst' \in Tabled /\ Reflected' = Reflected \cup {i} /\ Covers(dst', Reflected \cup {i})
    BY <1>2, <1>3, <1>4 DEF Reflected
<1>6. Covers(dst, Reflected)'
    BY <1>2, <1>5 DEF Covers, Of, OriginSeq
<1>8. TypeOK'
    BY <1>1, <1>2, <1>5 DEF TypeOK
<1>9. Covers(load.snap, load.snap.log)'
    BY <1>2 DEF CursorInv, Covers, Of, OriginSeq
<1> QED
    BY <1>2, <1>6, <1>8, <1>9, QuietSource DEF CursorInv

\* No load: the snapshot is empty and claims nothing.
LEMMA NothingClaimed ==
    ASSUME TypeOK, Numbered
    PROVE  Covers(Empty, Empty.log)
<1>1. \A o \in Origin : Empty.cursor[o] = 0 /\ 0 <= Cardinality(Of(o))
    BY EmptyTables, OfFinite
<1>2. \A i \in DOMAIN events : events[i].origin \in Origin /\ OriginSeq(i) \in Nat /\ OriginSeq(i) >= 1
    <2> TAKE i \in DOMAIN events
    <2>1. Cardinality(Of(events[i].origin)) \in Nat
        BY OfFinite
    <2> QED
        BY <2>1, EventTypes DEF Numbered
<1> QED
    BY <1>1, <1>2, EmptyTables DEF Covers

LEMMA NoLoadFields ==
    /\ NoLoad.snap = Empty /\ NoLoad.todo = {} /\ NoLoad.pc = "idle"
    /\ [NoLoad EXCEPT !.pc = "request"].snap = Empty
    /\ [NoLoad EXCEPT !.pc = "request"].todo = {}
    /\ [NoLoad EXCEPT !.pc = "request"].pc = "request"
    /\ \A pc \in {"idle", "request", "load", "ack"} :
          [NoLoad EXCEPT !.pc = pc] \in [pc : {"idle", "request", "load", "ack"}, snap : Tabled,
                                         todo : SUBSET UNION Range(Places)]
    /\ NoLoad \in [pc : {"idle", "request", "load", "ack"}, snap : Tabled,
                   todo : SUBSET UNION Range(Places)]
<1>1. Empty \in Tabled
    BY EmptyTables
<1> QED
    BY <1>1 DEF NoLoad

\* BeginSeed starts, is given up or is over.
LEMMA ResetStep ==
    ASSUME CursorInv, UNCHANGED <<events, src, dst, base>>,
           load' = NoLoad \/ load' = [NoLoad EXCEPT !.pc = "request"]
    PROVE  CursorInv'
<1>1. TypeOK /\ Numbered
    BY DEF CursorInv
<1>2. load'.snap = Empty /\ load' \in [pc : {"idle", "request", "load", "ack"}, snap : Tabled,
                                       todo : SUBSET UNION Range(Places)]
    BY NoLoadFields
<1>3. TypeOK'
    BY <1>1, <1>2 DEF TypeOK
<1>4. Covers(load.snap, load.snap.log)'
    <2>1. Covers(Empty, Empty.log)
        BY <1>1, NothingClaimed
    <2> QED
        BY <1>2, <2>1 DEF Covers, Of, OriginSeq
<1>5. Covers(dst, Reflected)'
    BY DEF CursorInv, Covers, Of, OriginSeq, Reflected
<1> QED
    BY <1>3, <1>4, <1>5, QuietSource DEF CursorInv

LEMMA StreamPlaces ==
    ASSUME NEW snap
    PROVE  Stream(snap) \subseteq UNION Range(Places)
BY DEF Stream, TableItems, Places, Range

LEMMA PrepareStep ==
    ASSUME CursorInv, Prepare
    PROVE  CursorInv'
<1>1. TypeOK /\ Numbered /\ Covers(src, src.log)
    BY DEF CursorInv
<1>2. UNCHANGED <<events, src, dst, base>>
      /\ load' = [pc |-> "load", snap |-> src, todo |-> Stream(src)]
    BY DEF Prepare, StartLoad
<1>3. load'.snap = src /\ src \in Tabled
    BY <1>1, <1>2 DEF TypeOK
<1>4. load' \in [pc : {"idle", "request", "load", "ack"}, snap : Tabled, todo : SUBSET UNION Range(Places)]
    BY <1>2, <1>3, StreamPlaces
<1>5. TypeOK'
    BY <1>1, <1>2, <1>4 DEF TypeOK
<1>6. Covers(load.snap, load.snap.log)'
    BY <1>1, <1>2, <1>3 DEF Covers, Of, OriginSeq
<1>7. Covers(dst, Reflected)'
    BY <1>2 DEF CursorInv, Covers, Of, OriginSeq, Reflected
<1> QED
    BY <1>2, <1>5, <1>6, <1>7, QuietSource DEF CursorInv

LEMMA ChunkStep ==
    ASSUME CursorInv, LoadChunk
    PROVE  CursorInv'
<1>1. TypeOK /\ Numbered /\ dst \in Tabled /\ load.snap \in Tabled
      /\ load \in [pc : {"idle", "request", "load", "ack"}, snap : Tabled, todo : SUBSET UNION Range(Places)]
    BY DEF CursorInv, TypeOK
<1>2. PICK p \in load.todo : /\ dst' = Loaded(dst, load.snap, p)
                             /\ load' = [load EXCEPT !.todo = @ \ {p}]
    BY DEF LoadChunk
<1>3. UNCHANGED <<events, src, base>>
    BY DEF LoadChunk
<1>4. dst' \in Tabled /\ dst'.log = dst.log /\ dst'.cursor = dst.cursor
    <2>1. p \in UNION Range(Places)
        BY <1>1, <1>2
    <2>2. /\ Loaded(dst, load.snap, p) \in Tabled
          /\ Loaded(dst, load.snap, p).log = dst.log
          /\ Loaded(dst, load.snap, p).cursor = dst.cursor
        <3>1. \A d, s \in Tabled : \A q \in UNION Range(Places) :
                 Loaded(d, s, q) \in Tabled /\ Loaded(d, s, q).log = d.log /\ Loaded(d, s, q).cursor = d.cursor
            <4> TAKE d, s \in Tabled
            <4> TAKE q \in UNION Range(Places)
            <4> QED
                BY LoadedFields
        <3> QED
            BY <1>1, <2>1, <3>1
    <2> QED
        BY <1>2, <2>2
<1>5. load'.snap = load.snap
      /\ load' \in [pc : {"idle", "request", "load", "ack"}, snap : Tabled, todo : SUBSET UNION Range(Places)]
    BY <1>1, <1>2
<1>6. TypeOK'
    BY <1>1, <1>3, <1>4, <1>5 DEF TypeOK
<1>7. Covers(load.snap, load.snap.log)'
    BY <1>3, <1>5 DEF CursorInv, Covers, Of, OriginSeq
<1>8. Covers(dst, Reflected)'
    <2>1. Covers(dst, Reflected) /\ Reflected' = Reflected
        BY <1>3, <1>4 DEF CursorInv, Reflected
    <2> QED
        BY <1>3, <1>4, <2>1 DEF Covers, Of, OriginSeq
<1> QED
    BY <1>3, <1>6, <1>7, <1>8, QuietSource DEF CursorInv

LEMMA FinishFields ==
    ASSUME TypeOK, Finish
    PROVE  /\ UNCHANGED <<events, src, active>> /\ base' = base \cup load.snap.log
           /\ whole' = (dst.log = {})
           /\ load.pc = "load" /\ load.todo = {}
           /\ load'.pc = "ack" /\ load'.snap = load.snap
           /\ load' \in [pc : {"idle", "request", "load", "ack"}, snap : Tabled,
                         todo : SUBSET UNION Range(Places)]
           /\ dst' \in Tabled /\ dst'.log = dst.log /\ dst'.val = dst.val
           /\ dst'.fv = dst.fv /\ dst'.tomb = dst.tomb
           /\ \A o \in Origin : /\ dst'.cursor[o] \in Nat
                                /\ dst'.cursor[o] \in {dst.cursor[o], load.snap.cursor[o]}
<1> DEFINE c == [o \in Origin |-> Max({dst.cursor[o], load.snap.cursor[o]})]
<1>1. dst \in Tabled /\ load.snap \in Tabled
      /\ load \in [pc : {"idle", "request", "load", "ack"}, snap : Tabled, todo : SUBSET UNION Range(Places)]
    BY DEF TypeOK
<1>2. \A o \in Origin : dst.cursor[o] \in Nat /\ load.snap.cursor[o] \in Nat
    BY <1>1 DEF Tabled
<1>3. \A o \in Origin : c[o] \in Nat /\ c[o] \in {dst.cursor[o], load.snap.cursor[o]}
    BY <1>2, LargerOfTwo
<1>4. c \in [Origin -> Nat]
    BY <1>3
<1>5. dst' = [dst EXCEPT !.cursor = c]
    BY DEF Finish
<1> HIDE DEF c
<1>6. /\ dst' \in Tabled /\ dst'.log = dst.log /\ dst'.val = dst.val
      /\ dst'.fv = dst.fv /\ dst'.tomb = dst.tomb /\ dst'.cursor = c
    BY <1>1, <1>4, <1>5 DEF Tabled
<1>8. load' = [load EXCEPT !.pc = "ack"] /\ load.pc = "load" /\ load.todo = {}
    BY DEF Finish, AtEnd
<1>9. load'.pc = "ack" /\ load'.snap = load.snap
      /\ load' \in [pc : {"idle", "request", "load", "ack"}, snap : Tabled, todo : SUBSET UNION Range(Places)]
    BY <1>1, <1>8
<1>10. /\ UNCHANGED <<events, src, active>> /\ base' = base \cup load.snap.log
       /\ whole' = (dst.log = {})
    BY DEF Finish
<1> QED
    BY <1>3, <1>6, <1>8, <1>9, <1>10

\* The vector of the snapshot is taken over with the events that it covers.
LEMMA FinishStep ==
    ASSUME CursorInv, Finish
    PROVE  CursorInv'
<1>1. TypeOK /\ Numbered /\ Covers(dst, Reflected) /\ Covers(load.snap, load.snap.log)
    BY DEF CursorInv
<1>2. /\ UNCHANGED <<events, src>> /\ base' = base \cup load.snap.log /\ load'.snap = load.snap
      /\ load' \in [pc : {"idle", "request", "load", "ack"}, snap : Tabled, todo : SUBSET UNION Range(Places)]
      /\ dst' \in Tabled /\ dst'.log = dst.log
      /\ \A o \in Origin : dst'.cursor[o] \in {dst.cursor[o], load.snap.cursor[o]}
    BY <1>1, FinishFields
<1>3. TypeOK'
    <2>1. load.snap.log \subseteq Stamps
        BY <1>1 DEF TypeOK, Tabled
    <2> QED
        BY <1>1, <1>2, <2>1 DEF TypeOK
<1>4. Covers(load.snap, load.snap.log)'
    BY <1>1, <1>2 DEF Covers, Of, OriginSeq
<1>5. Covers(dst, Reflected)'
    <2>1. Reflected' = Reflected \cup load.snap.log
        BY <1>2 DEF Reflected
    <2>2. Reflected' \subseteq DOMAIN events'
        BY <1>1, <1>2, <2>1 DEF Covers
    <2>3. \A o \in Origin : dst'.cursor[o] <= Cardinality(Of(o)')
        BY <1>1, <1>2 DEF Covers, Of
    <2>4. ASSUME NEW j \in DOMAIN events', OriginSeq(j)' <= dst'.cursor[events'[j].origin]
          PROVE  j \in Reflected'
        <3>1. j \in DOMAIN events /\ events[j].origin \in Origin
            BY <1>1, <1>2, EventTypes
        <3>2. OriginSeq(j) <= dst.cursor[events[j].origin] \/ OriginSeq(j) <= load.snap.cursor[events[j].origin]
            BY <1>2, <2>4, <3>1 DEF OriginSeq
        <3> QED
            BY <1>1, <2>1, <3>1, <3>2 DEF Covers
    <2> QED
        BY <2>2, <2>3, <2>4 DEF Covers
<1> QED
    BY <1>2, <1>3, <1>4, <1>5, QuietSource DEF CursorInv

LEMMA CursorInit == Init => CursorInv
<1> SUFFICES ASSUME Init PROVE CursorInv
    OBVIOUS
<1>1. events = <<>> /\ DOMAIN events = {} /\ Len(events) = 0
      /\ src = Empty /\ dst = Empty /\ load = NoLoad /\ base = {}
    BY DEF Init
<1>2. TypeOK
    BY <1>1, EmptyTables, NoLoadFields DEF TypeOK
<1>3. Numbered
    BY <1>1 DEF Numbered, Of
<1>4. Covers(Empty, Empty.log)
    BY <1>2, <1>3, NothingClaimed
<1>5. Reflected = Empty.log
    BY <1>1, EmptyTables DEF Reflected
<1>6. load.snap = Empty
    BY <1>1, NoLoadFields
<1> QED
    BY <1>1, <1>2, <1>3, <1>4, <1>5, <1>6 DEF CursorInv

LEMMA CursorStep == CursorInv /\ [Next]_vars => CursorInv'
<1> SUFFICES ASSUME CursorInv, [Next]_vars PROVE CursorInv'
    OBVIOUS
<1>1. ASSUME NEW n \in Writers, NEW r \in Row, NEW del \in BOOLEAN, Write(n, r, del)
      PROVE  CursorInv'
    BY <1>1, WriteStep
<1>2. ASSUME NEW i \in DOMAIN events, SourceApply(i) \/ JoinerApply(i)
      PROVE  CursorInv'
    BY <1>2, SourceStep, JoinerStep
<1>3. CASE BeginSeed
    BY <1>3, ResetStep DEF BeginSeed
<1>4. CASE Prepare
    BY <1>4, PrepareStep
<1>5. CASE LoadChunk
    BY <1>5, ChunkStep
<1>6. CASE Finish
    BY <1>6, FinishStep
<1>7. CASE Activate
    BY <1>7, ResetStep DEF Activate
<1>8. CASE Mismatch \/ Break
    BY <1>8, ResetStep DEF Mismatch, Break, Return
<1>9. CASE UNCHANGED vars
    <2>1. UNCHANGED <<events, src, dst, load, base>>
        BY <1>9 DEF vars
    <2> QED
        <3>1. TypeOK'
            BY <2>1 DEF CursorInv, TypeOK
        <3>2. Covers(dst, Reflected)' /\ Covers(load.snap, load.snap.log)'
            BY <2>1 DEF CursorInv, Covers, Of, OriginSeq, Reflected
        <3> QED
            BY <2>1, <3>1, <3>2, QuietSource DEF CursorInv
<1> QED
    BY <1>1, <1>2, <1>3, <1>4, <1>5, <1>6, <1>7, <1>8, <1>9 DEF Next, Fetch

\* The vector the joiner advertises covers only what it has applied or loaded to
\* the end (LocalVectorTx, finish, AdvanceContiguous), whoever writes.
THEOREM VectorHonest == Spec => []CursorTrue
<1>1. CursorInv => CursorTrue
    BY DEF CursorInv, CursorTrue, Covers
<1> QED
    BY <1>1, CursorInit, CursorStep, PTL DEF Spec

-----------------------------------------------------------------------------
(* What the tables tell.                                                   *)

LEMMA EmptyTells == Tells(Empty, Empty.log, Empty.log)
BY EmptyTables DEF Tells, TellsOf

\* applyRow keeps the newest version and the newest tombstone of a row.
LEMMA ApplyTellsOf ==
    ASSUME TypeOK, NEW d \in Tabled, NEW S \in SUBSET DOMAIN events,
           NEW i \in DOMAIN events, \A o \in Origin : d.cursor[o] <= Cardinality(Of(o)),
           NEW q \in Row, TellsOf(q, d, S)
    PROVE  TellsOf(q, ApplyEvent(d, i), S \cup {i})
<1> DEFINE r == events[i].row
           e == Resolve(d, i)
           a == ApplyEvent(d, i)
           T == S \cup {i}
<1>1. a.val = e.val /\ a.fv = e.fv /\ a.tomb = e.tomb
    BY ApplyFields
<1>2. r \in Row /\ i \in Nat /\ i # None /\ events[i].del \in BOOLEAN
    BY EventTypes
<1>3. \A j \in S : j \in Nat
    BY EventTypes
<1>4. d.fv[q] \in Nat /\ d.tomb[q] \in Nat
    BY DEF Tabled
<1>5. q # r => e.val[q] = d.val[q] /\ e.fv[q] = d.fv[q] /\ e.tomb[q] = d.tomb[q]
    BY ResolveFields
<1>6. \/ /\ i <= d.tomb[r] \/ (~events[i].del /\ i <= d.fv[r])
         /\ e = d
      \/ /\ d.tomb[r] < i /\ events[i].del
         /\ e.val[r] = None /\ e.fv[r] = d.fv[r] /\ e.tomb[r] = i
      \/ /\ d.tomb[r] < i /\ d.fv[r] < i /\ ~events[i].del
         /\ e.val[r] = i /\ e.fv[r] = i /\ e.tomb[r] = None
    BY ResolveFields
<1> HIDE DEF e, a
<1>7. ASSUME q # r PROVE TellsOf(q, e, T)
    BY <1>5, <1>7 DEF TellsOf, Wrote
<1>8. ASSUME q = r PROVE TellsOf(q, e, T)
    <2>1. /\ \A j \in S : events[j].row = r => j <= d.fv[r] \/ j <= d.tomb[r]
          /\ d.fv[r] = None \/ Wrote(T, r, d.fv[r], FALSE)
          /\ d.tomb[r] = None \/ Wrote(T, r, d.tomb[r], TRUE)
          /\ d.val[r] = IF d.tomb[r] = None THEN d.fv[r] ELSE None
          /\ d.fv[r] \in Nat /\ d.tomb[r] \in Nat
        BY <1>4, <1>8 DEF TellsOf, Wrote
    <2> HIDE DEF r
    <2> SUFFICES
            /\ \A j \in T : events[j].row = r => j <= e.fv[r] \/ j <= e.tomb[r]
            /\ e.fv[r] = None \/ Wrote(T, r, e.fv[r], FALSE)
            /\ e.tomb[r] = None \/ Wrote(T, r, e.tomb[r], TRUE)
            /\ e.val[r] = IF e.tomb[r] = None THEN e.fv[r] ELSE None
        BY <1>8 DEF TellsOf
    <2>2. CASE (i <= d.tomb[r] \/ (~events[i].del /\ i <= d.fv[r])) /\ e = d
        BY <2>1, <2>2
    <2>3. CASE /\ d.tomb[r] < i /\ events[i].del
               /\ e.val[r] = None /\ e.fv[r] = d.fv[r] /\ e.tomb[r] = i
        <3>1. Wrote(T, r, i, TRUE)
            BY <2>3 DEF Wrote, r
        <3>2. \A j \in T : events[j].row = r => j <= e.fv[r] \/ j <= e.tomb[r]
            BY <1>2, <1>3, <2>1, <2>3
        <3> QED
            BY <1>2, <2>1, <2>3, <3>1, <3>2
    <2>4. CASE /\ d.tomb[r] < i /\ d.fv[r] < i /\ ~events[i].del
               /\ e.val[r] = i /\ e.fv[r] = i /\ e.tomb[r] = None
        <3>1. Wrote(T, r, i, FALSE)
            BY <1>2, <2>4 DEF Wrote, r
        <3>2. \A j \in T : events[j].row = r => j <= e.fv[r] \/ j <= e.tomb[r]
            BY <1>2, <1>3, <2>1, <2>4
        <3> QED
            BY <1>2, <2>1, <2>4, <3>1, <3>2
    <2> QED
        BY <1>6, <2>2, <2>3, <2>4
<1> QED
    BY <1>1, <1>7, <1>8 DEF TellsOf, a

\* The rows that the source has not written are the fewer, the more it has.
LEMMA ApplyTells ==
    ASSUME TypeOK, NEW d \in Tabled, NEW S \in SUBSET DOMAIN events, NEW i \in DOMAIN events,
           \A o \in Origin : d.cursor[o] <= Cardinality(Of(o)),
           NEW B, NEW C, B \subseteq C, Tells(d, S, B)
    PROVE  Tells(ApplyEvent(d, i), S \cup {i}, C)
<1> SUFFICES ASSUME NEW q \in Row, Foreign(q, C) PROVE TellsOf(q, ApplyEvent(d, i), S \cup {i})
    BY DEF Tells
<1>1. TellsOf(q, d, S)
    BY DEF Tells, Foreign
<1> QED
    BY <1>1, ApplyTellsOf

\* A row without a delete shows its newest write.
LEMMA TellsNewest ==
    ASSUME TypeOK, Reflected \subseteq DOMAIN events, NEW r \in Row, TellsOf(r, dst, Reflected),
           \A i \in OfRow(r) : ~events[i].del
    PROVE  dst.val[r] = Max({None} \cup OfRow(r))
<1> DEFINE S == {None} \cup OfRow(r)
           m == Max(S)
<1>1. S \subseteq 0 .. MaxEvents /\ S # {}
    BY EventTypes DEF OfRow, None
<1>2. m \in S /\ \A y \in S : y <= m
    <2> HIDE DEF S
    <2> QED
        BY <1>1, GreatestNatural
<1>3. dst.tomb[r] = None
    BY DEF TellsOf, Wrote, OfRow
<1>4. dst.val[r] = dst.fv[r] /\ dst.fv[r] \in S /\ dst.fv[r] \in Nat /\ m \in Nat
    <2>1. dst.val[r] = dst.fv[r]
        BY <1>3 DEF TellsOf
    <2>2. dst.fv[r] \in S
        BY DEF TellsOf, Wrote, OfRow
    <2>3. \A y \in S : y \in Nat
        BY <1>1
    <2> QED
        BY <1>2, <2>1, <2>2, <2>3, Zenon
<1>5. m <= dst.fv[r]
    <2>1. CASE m = None
        BY <1>4, <2>1 DEF None
    <2>2. CASE m \in OfRow(r)
        <3>1. m <= dst.fv[r] \/ m <= dst.tomb[r]
            BY <2>2 DEF TellsOf, OfRow
        <3>2. m # None
            BY <2>2, EventTypes DEF OfRow
        <3> QED
            BY <1>3, <1>4, <3>1, <3>2 DEF None
    <2> QED
        BY <1>2, <2>1, <2>2
<1> HIDE DEF S, m
<1>6. dst.fv[r] <= m
    BY <1>2, <1>4
<1>7. dst.val[r] = m
    BY <1>4, <1>5, <1>6
<1> QED
    BY <1>7 DEF S, m

\* A row whose newest event is a delete is not there.
LEMMA TellsGone ==
    ASSUME TypeOK, Reflected \subseteq DOMAIN events, NEW r \in Row, TellsOf(r, dst, Reflected),
           OfRow(r) # {}, events[Max(OfRow(r))].del
    PROVE  dst.val[r] = None
<1> DEFINE m == Max(OfRow(r))
<1>1. OfRow(r) \subseteq 0 .. MaxEvents
    BY EventTypes DEF OfRow
<1>2. m \in OfRow(r) /\ (\A y \in OfRow(r) : y <= m)
    BY <1>1, GreatestNatural
<1> HIDE DEF m
<1>3. m \in Nat /\ m # None /\ m \in Reflected /\ events[m].row = r /\ events[m].del
    BY <1>1, <1>2, EventTypes DEF OfRow, m
<1>4. m <= dst.fv[r] \/ m <= dst.tomb[r]
    BY <1>3 DEF TellsOf
<1>5. dst.fv[r] \in Nat /\ dst.tomb[r] \in Nat
    BY DEF TypeOK, Tabled
<1>6. ~(m <= dst.fv[r])
    <2> SUFFICES ASSUME m <= dst.fv[r] PROVE FALSE
        OBVIOUS
    <2>1. dst.fv[r] # None
        BY <1>3, <1>5 DEF None
    <2>2. Wrote(Reflected, r, dst.fv[r], FALSE)
        BY <2>1 DEF TellsOf
    <2>3. dst.fv[r] \in OfRow(r) /\ ~events[dst.fv[r]].del
        BY <2>2 DEF Wrote, OfRow
    <2>4. dst.fv[r] = m
        BY <1>2, <1>3, <1>5, <2>3
    <2> QED
        BY <1>3, <2>3, <2>4
<1>7. dst.tomb[r] # None
    BY <1>3, <1>4, <1>5, <1>6 DEF None
<1> QED
    BY <1>7 DEF TellsOf

-----------------------------------------------------------------------------
(* The seeded state.                                                       *)

LEMMA SeedParts ==
    ASSUME SeedInv
    PROVE  /\ CursorInv /\ TypeOK /\ Numbered
           /\ src \in Tabled /\ dst \in Tabled /\ load.snap \in Tabled
           /\ Tells(src, src.log, src.log) /\ Tells(load.snap, load.snap.log, load.snap.log)
           /\ src.log \subseteq DOMAIN events /\ load.snap.log \subseteq DOMAIN events
           /\ base \subseteq src.log /\ load.snap.log \subseteq src.log
           /\ Reflected \subseteq DOMAIN events
           /\ \A o \in Origin : src.cursor[o] <= Cardinality(Of(o))
           /\ \A o \in Origin : dst.cursor[o] <= Cardinality(Of(o))
BY DEF SeedInv, CursorInv, TypeOK, Covers, Growing

\* What a column has yet to get is in the stream.
LEMMA StreamBrings ==
    ASSUME NEW snap \in Tabled, NEW r \in Row,
           NEW section \in {RowSection, VersionSection, TombstoneSection},
           Column(snap, section)[r] # None
    PROVE  \E p \in Stream(snap) : p[2] = section /\ RowAt(p) = r
<1>0. PICK t \in DOMAIN Tables : r \in Range(Tables[t])
    BY DEF Row
<1>1. PICK k \in DOMAIN Tables[t] : r = Tables[t][k]
    BY <1>0 DEF Range
<1> DEFINE p == <<t, section, k>>
<1>2. p[1] = t /\ p[2] = section /\ p[3] = k
    OBVIOUS
<1>3. RowAt(p) = r
    BY <1>1, <1>2 DEF RowAt
<1>4. section \in 1 .. 3
    BY DEF RowSection, VersionSection, TombstoneSection
<1>5. p \in Places[t]
    BY <1>1, <1>4 DEF Places
<1>6. p \in TableItems(snap, t)
    <2> HIDE DEF p
    <2> QED
        BY <1>2, <1>3, <1>5 DEF TableItems
<1>7. p \in Stream(snap)
    <2> HIDE DEF p
    <2> QED
        BY <1>6 DEF Stream
<1> HIDE DEF p
<1> QED
    BY <1>2, <1>3, <1>7

\* A write of the source changes the row, the log and the cursor.
LEMMA SourceWrite ==
    ASSUME src \in Tabled, NEW r \in Row, NEW del, Write(Source, r, del)
    PROVE  /\ src'.fv = src.fv /\ src'.tomb = src.tomb
           /\ src'.log = src.log \cup {Len(events) + 1}
           /\ \A q \in Row : q # r => src'.val[q] = src.val[q]
BY DEF Write, Tabled

LEMMA WriteSeed ==
    ASSUME SeedInv, NEW n \in Writers, NEW r \in Row, NEW del \in BOOLEAN, Write(n, r, del)
    PROVE  SeedInv'
<1> DEFINE i == Len(events) + 1
<1>1. UNCHANGED <<dst, load, base, whole>> /\ (n # Source => src' = src)
    BY DEF Write
<1>2. CursorInv'
    BY WriteStep DEF SeedInv
<1>3. /\ \A j \in DOMAIN events : events'[j] = events[j]
      /\ events'[i].origin = n /\ events'[i].row = r
    BY SeedParts, OneMore
<1> HIDE DEF i
<1>4. Tells(src, src.log, src.log)'
    <2>1. \A j \in src.log : events'[j] = events[j]
        BY <1>3, SeedParts
    <2>2. CASE n # Source
        <3>1. Tells(src, src.log, src.log) /\ src' = src
            BY <1>1, <2>2, SeedParts
        <3> SUFFICES ASSUME NEW q \in Row, Foreign(q, src.log)' PROVE TellsOf(q, src, src.log)'
            BY DEF Tells
        <3>2. TellsOf(q, src, src.log)
            BY <2>1, <3>1 DEF Tells, Foreign
        <3> QED
            BY <2>1, <3>1, <3>2 DEF TellsOf, Wrote
    <2>3. CASE n = Source
        <3>1. /\ src'.fv = src.fv /\ src'.tomb = src.tomb /\ src'.log = src.log \cup {i}
              /\ \A q \in Row : q # r => src'.val[q] = src.val[q]
            BY <2>3, SeedParts, SourceWrite DEF i
        <3> SUFFICES ASSUME NEW q \in Row, Foreign(q, src.log)' PROVE TellsOf(q, src, src.log)'
            BY DEF Tells
        <3>2. q # r /\ Foreign(q, src.log)
            BY <1>3, <2>1, <2>3, <3>1 DEF Foreign
        <3>3. TellsOf(q, src, src.log)
            BY <3>2, SeedParts DEF Tells
        <3> QED
            BY <1>3, <2>1, <3>1, <3>2, <3>3 DEF TellsOf, Wrote
    <2> QED
        BY <2>2, <2>3
<1>5. Tells(load.snap, load.snap.log, load.snap.log)'
    <2>1. \A j \in load.snap.log : events'[j] = events[j]
        BY <1>3, SeedParts
    <2> QED
        <3>1. Tells(load.snap, load.snap.log, load.snap.log) /\ load' = load
            BY <1>1, SeedParts
        <3> SUFFICES ASSUME NEW q \in Row, Foreign(q, load.snap.log)'
                     PROVE  TellsOf(q, load.snap, load.snap.log)'
            BY DEF Tells
        <3>2. TellsOf(q, load.snap, load.snap.log)
            BY <2>1, <3>1 DEF Tells, Foreign
        <3> QED
            BY <2>1, <3>1, <3>2 DEF TellsOf, Wrote
<1>6. Reflected' = Reflected
    BY <1>1 DEF Reflected
<1>7. Tells(dst, Reflected, base) => Tells(dst, Reflected, base)'
    <2>1. \A j \in Reflected \cup base : events'[j] = events[j]
        BY <1>3, SeedParts DEF Reflected
    <2> QED
        BY <1>1, <1>6, <2>1 DEF Tells, TellsOf, Foreign, Wrote
<1>8. LoadInv'
    BY <1>1 DEF SeedInv, LoadInv, Arrives
<1>9. Growing'
    <2>1. src.log \subseteq src'.log
        BY <1>1, SeedParts, SourceWrite
    <2> QED
        BY <1>1, <2>1 DEF SeedInv, Growing
<1> QED
    BY <1>1, <1>2, <1>4, <1>5, <1>7, <1>8, <1>9 DEF SeedInv

\* The steps that leave the events alone.
LEMMA TellsQuiet ==
    ASSUME events' = events
    PROVE  /\ src' = src /\ Tells(src, src.log, src.log) => Tells(src, src.log, src.log)'
           /\ load'.snap = load.snap /\ Tells(load.snap, load.snap.log, load.snap.log)
                 => Tells(load.snap, load.snap.log, load.snap.log)'
           /\ UNCHANGED <<dst, base>> /\ Tells(dst, Reflected, base)
                 => Tells(dst, Reflected, base)'
<1>1. src' = src /\ Tells(src, src.log, src.log) => Tells(src, src.log, src.log)'
    BY DEF Tells, TellsOf, Foreign, Wrote
<1>2. load'.snap = load.snap /\ Tells(load.snap, load.snap.log, load.snap.log)
         => Tells(load.snap, load.snap.log, load.snap.log)'
    BY DEF Tells, TellsOf, Foreign, Wrote
<1>3. UNCHANGED <<dst, base>> /\ Tells(dst, Reflected, base) => Tells(dst, Reflected, base)'
    BY DEF Tells, TellsOf, Foreign, Wrote, Reflected
<1> QED
    BY <1>1, <1>2, <1>3

LEMMA SourceSeed ==
    ASSUME SeedInv, NEW i \in DOMAIN events, SourceApply(i)
    PROVE  SeedInv'
<1>1. src' = ApplyEvent(src, i) /\ UNCHANGED <<events, dst, load, base, whole>>
    BY DEF SourceApply
<1>2. CursorInv'
    BY SourceStep DEF SeedInv
<1>3. src'.log = src.log \cup {i}
    BY <1>1, SeedParts, ApplyFields
<1>4. Tells(src, src.log, src.log)'
    <2>1. Tells(ApplyEvent(src, i), src.log \cup {i}, src.log \cup {i})
        BY SeedParts, ApplyTells
    <2>2. Tells(src', src'.log, src'.log)
        BY <1>1, <1>3, <2>1
    <2> QED
        BY <1>1, <2>2 DEF Tells, TellsOf, Foreign, Wrote
<1>5. Tells(load.snap, load.snap.log, load.snap.log)'
    BY <1>1, SeedParts, TellsQuiet
<1>6. whole' => Tells(dst, Reflected, base)'
    BY <1>1, TellsQuiet DEF SeedInv
<1>7. LoadInv'
    BY <1>1 DEF SeedInv, LoadInv, Arrives
<1>8. Growing'
    BY <1>1, <1>3 DEF SeedInv, Growing
<1> QED
    BY <1>2, <1>4, <1>5, <1>6, <1>7, <1>8 DEF SeedInv

LEMMA JoinerSeed ==
    ASSUME SeedInv, NEW i \in DOMAIN events, JoinerApply(i)
    PROVE  SeedInv'
<1>1. dst' = ApplyEvent(dst, i) /\ UNCHANGED <<events, src, load, base, whole>>
    BY DEF JoinerApply
<1>2. CursorInv'
    BY JoinerStep DEF SeedInv
<1>3. dst'.log = dst.log \cup {i} /\ Reflected' = Reflected \cup {i}
    <2>1. ApplyEvent(dst, i).log = dst.log \cup {i}
        BY SeedParts, ApplyFields
    <2> QED
        BY <1>1, <2>1 DEF Reflected
<1>4. Tells(src, src.log, src.log)' /\ Tells(load.snap, load.snap.log, load.snap.log)'
    BY <1>1, SeedParts, TellsQuiet
<1>5. ASSUME whole PROVE Tells(dst, Reflected, base)'
    <2>1. Tells(dst, Reflected, base)
        BY <1>5 DEF SeedInv
    <2>2. Tells(ApplyEvent(dst, i), Reflected \cup {i}, base)
        BY <2>1, SeedParts, ApplyTells
    <2>3. Tells(dst', Reflected', base')
        BY <1>1, <1>3, <2>2
    <2> QED
        BY <1>1, <2>3 DEF Tells, TellsOf, Foreign, Wrote
<1>6. LoadInv'
    BY <1>1, <1>3 DEF SeedInv, LoadInv
<1>7. Growing'
    BY <1>1 DEF SeedInv, Growing
<1> QED
    BY <1>1, <1>2, <1>4, <1>5, <1>6, <1>7 DEF SeedInv

\* requireEmpty lets a call through only when the tables are empty.
LEMMA BeginSeeds ==
    ASSUME SeedInv, BeginSeed
    PROVE  SeedInv'
<1>1. /\ load.pc = "idle" /\ RequireEmpty /\ ~whole'
      /\ load' = [NoLoad EXCEPT !.pc = "request"] /\ UNCHANGED <<events, src, dst, base>>
    BY DEF BeginSeed, Loading
<1>2. CursorInv'
    BY <1>1, ResetStep DEF SeedInv
<1>3. load'.snap = Empty /\ load'.pc = "request"
    BY <1>1, NoLoadFields
<1>4. dst.val = Empty.val /\ dst.fv = Empty.fv /\ dst.tomb = Empty.tomb
    <2>1. dst \in Tabled
        BY SeedParts
    <2> DEFINE x == [dst EXCEPT !.cursor = Empty.cursor]
    <2>2. x = Empty
        BY <1>1 DEF RequireEmpty
    <2>3. x.val = dst.val /\ x.fv = dst.fv /\ x.tomb = dst.tomb
        BY <2>1 DEF Tabled
    <2> HIDE DEF x
    <2> QED
        BY <2>2, <2>3, EmptyTables
<1>5. \A r \in Row : dst.val[r] = None /\ dst.fv[r] = None /\ dst.tomb[r] = None
    BY <1>4, EmptyTables
<1>6. Tells(src, src.log, src.log)'
    BY <1>1, SeedParts, TellsQuiet
<1>7. Tells(load.snap, load.snap.log, load.snap.log)'
    BY <1>3, EmptyTables DEF Tells, TellsOf
<1>8. LoadInv'
    BY <1>1, <1>3, <1>5 DEF LoadInv
<1>9. Growing'
    BY <1>1, <1>3, EmptyTables DEF SeedInv, Growing
<1> QED
    BY <1>1, <1>2, <1>6, <1>7, <1>8, <1>9 DEF SeedInv

LEMMA PrepareSeed ==
    ASSUME SeedInv, Prepare
    PROVE  SeedInv'
<1>1. /\ load.pc = "request" /\ UNCHANGED <<events, src, dst, base, whole>>
      /\ load' = [pc |-> "load", snap |-> src, todo |-> Stream(src)]
    BY DEF Prepare, StartLoad
<1>2. CursorInv'
    BY PrepareStep DEF SeedInv
<1>3. load'.snap = src /\ load'.pc = "load" /\ load'.todo = Stream(src)
    BY <1>1
<1>4. Tells(src, src.log, src.log)'
    BY <1>1, SeedParts, TellsQuiet
<1>5. Tells(load.snap, load.snap.log, load.snap.log)'
    BY <1>1, <1>3, <1>4 DEF Tells, TellsOf, Foreign, Wrote
<1>6. ASSUME dst.log = {}
      PROVE  /\ Arrives(dst.val, load.snap.val, RowSection)'
             /\ Arrives(dst.fv, load.snap.fv, VersionSection)'
             /\ Arrives(dst.tomb, load.snap.tomb, TombstoneSection)'
    <2>1. \A r \in Row : dst.val[r] = None /\ dst.fv[r] = None /\ dst.tomb[r] = None
        BY <1>1, <1>6 DEF SeedInv, LoadInv
    <2>2. ASSUME NEW section \in {RowSection, VersionSection, TombstoneSection}, NEW r \in Row
          PROVE  Column(src, section)[r] # None => \E p \in load'.todo : p[2] = section /\ RowAt(p) = r
        BY <1>3, SeedParts, StreamBrings
    <2>3. /\ Column(src, RowSection) = src.val /\ Column(src, VersionSection) = src.fv
          /\ Column(src, TombstoneSection) = src.tomb
        BY DEF Column, RowSection, VersionSection, TombstoneSection
    <2> QED
        BY <1>1, <1>3, <2>1, <2>2, <2>3 DEF Arrives, RowAt
<1>7. LoadInv' /\ ~whole'
    <2>1. ~whole
        BY <1>1 DEF SeedInv, LoadInv
    <2> QED
        BY <1>1, <1>3, <1>6, <2>1 DEF LoadInv
<1>8. Growing'
    BY <1>1, <1>3, SeedParts DEF Growing
<1> QED
    BY <1>2, <1>4, <1>5, <1>7, <1>8 DEF SeedInv

LEMMA ChunkSeed ==
    ASSUME SeedInv, LoadChunk
    PROVE  SeedInv'
<1>1. PICK p \in load.todo : /\ dst' = Loaded(dst, load.snap, p)
                             /\ load' = [load EXCEPT !.todo = @ \ {p}]
    BY DEF LoadChunk
<1>2. load.pc = "load" /\ UNCHANGED <<events, src, base, whole>>
    BY DEF LoadChunk
<1>3. CursorInv'
    BY ChunkStep DEF SeedInv
<1>4. load'.pc = load.pc /\ load'.snap = load.snap /\ load'.todo = load.todo \ {p}
      /\ p \in UNION Range(Places)
    BY <1>1, SeedParts DEF TypeOK
<1> DEFINE r == RowAt(p)
<1>5. /\ r \in Row /\ dst'.log = dst.log
      /\ p[2] \in {RowSection, VersionSection, TombstoneSection}
      /\ p[2] = RowSection => /\ dst'.val = [dst.val EXCEPT ![r] = load.snap.val[r]]
                              /\ dst'.fv = dst.fv /\ dst'.tomb = dst.tomb
      /\ p[2] = VersionSection => /\ dst'.fv = [dst.fv EXCEPT ![r] = load.snap.fv[r]]
                                  /\ dst'.val = dst.val /\ dst'.tomb = dst.tomb
      /\ p[2] = TombstoneSection => /\ dst'.tomb = [dst.tomb EXCEPT ![r] = load.snap.tomb[r]]
                                    /\ dst'.val = dst.val /\ dst'.fv = dst.fv
    <2>1. dst \in Tabled /\ load.snap \in Tabled
        BY SeedParts
    <2>2. ASSUME NEW d \in Tabled, NEW s \in Tabled
          PROVE  /\ r \in Row /\ Loaded(d, s, p).log = d.log
                 /\ p[2] \in {RowSection, VersionSection, TombstoneSection}
                 /\ p[2] = RowSection => /\ Loaded(d, s, p).val = [d.val EXCEPT ![r] = s.val[r]]
                                         /\ Loaded(d, s, p).fv = d.fv /\ Loaded(d, s, p).tomb = d.tomb
                 /\ p[2] = VersionSection => /\ Loaded(d, s, p).fv = [d.fv EXCEPT ![r] = s.fv[r]]
                                             /\ Loaded(d, s, p).val = d.val /\ Loaded(d, s, p).tomb = d.tomb
                 /\ p[2] = TombstoneSection => /\ Loaded(d, s, p).tomb = [d.tomb EXCEPT ![r] = s.tomb[r]]
                                               /\ Loaded(d, s, p).val = d.val /\ Loaded(d, s, p).fv = d.fv
        BY <1>4, LoadedFields
    <2> HIDE DEF r
    <2> QED
        BY <1>1, <2>1, <2>2
<1>6. Tells(src, src.log, src.log)' /\ Tells(load.snap, load.snap.log, load.snap.log)'
    BY <1>2, <1>4, SeedParts, TellsQuiet
<1>7. Reflected' = Reflected
    BY <1>2, <1>5 DEF Reflected
<1> HIDE DEF r
<1>8. ASSUME dst.log = {}
      PROVE  /\ Arrives(dst.val, load.snap.val, RowSection)'
             /\ Arrives(dst.fv, load.snap.fv, VersionSection)'
             /\ Arrives(dst.tomb, load.snap.tomb, TombstoneSection)'
    <2>1. /\ Arrives(dst.val, load.snap.val, RowSection)
          /\ Arrives(dst.fv, load.snap.fv, VersionSection)
          /\ Arrives(dst.tomb, load.snap.tomb, TombstoneSection)
        BY <1>2, <1>8 DEF SeedInv, LoadInv
    <2>2. /\ dst.val \in [Row -> 0 .. MaxEvents] /\ dst.fv \in [Row -> 0 .. MaxEvents]
          /\ dst.tomb \in [Row -> 0 .. MaxEvents]
        BY SeedParts DEF Tabled
    <2>3. ASSUME NEW c \in [Row -> 0 .. MaxEvents], NEW from, NEW section, Arrives(c, from, section),
                 NEW e, \/ p[2] = section /\ e = [c EXCEPT ![r] = from[r]]
                        \/ p[2] # section /\ e = c
          PROVE  \A q \in Row : \/ e[q] = from[q]
                                \/ e[q] = None /\ \E x \in load'.todo : x[2] = section /\ RowAt(x) = q
        <3> TAKE q \in Row
        <3>1. CASE p[2] = section /\ q = r
            BY <2>3, <3>1
        <3>2. CASE p[2] # section \/ q # r
            <4>1. e[q] = c[q]
                BY <2>3, <3>2
            <4>2. CASE c[q] = from[q]
                BY <4>1, <4>2
            <4>3. CASE c[q] = None /\ \E x \in load.todo : x[2] = section /\ RowAt(x) = q
                <5>1. PICK x \in load.todo : x[2] = section /\ RowAt(x) = q
                    BY <4>3
                <5>2. x # p
                    BY <3>2, <5>1 DEF r
                <5> QED
                    BY <1>4, <4>1, <4>3, <5>1, <5>2
            <4> QED
                BY <2>3, <4>2, <4>3 DEF Arrives
        <3> QED
            BY <3>1, <3>2
    <2>4. RowSection # VersionSection /\ RowSection # TombstoneSection /\ VersionSection # TombstoneSection
        BY DEF RowSection, VersionSection, TombstoneSection
    <2>5. Arrives(dst.val, load.snap.val, RowSection)'
        <3>1. \/ p[2] = RowSection /\ dst'.val = [dst.val EXCEPT ![r] = load.snap.val[r]]
              \/ p[2] # RowSection /\ dst'.val = dst.val
            BY <1>5, <2>4
        <3>2. \A q \in Row : \/ dst'.val[q] = load.snap.val[q]
                             \/ dst'.val[q] = None /\ \E x \in load'.todo : x[2] = RowSection /\ RowAt(x) = q
            BY <2>1, <2>2, <2>3, <3>1
        <3> QED
            BY <1>4, <3>2 DEF Arrives
    <2>6. Arrives(dst.fv, load.snap.fv, VersionSection)'
        <3>1. \/ p[2] = VersionSection /\ dst'.fv = [dst.fv EXCEPT ![r] = load.snap.fv[r]]
              \/ p[2] # VersionSection /\ dst'.fv = dst.fv
            BY <1>5, <2>4
        <3>2. \A q \in Row : \/ dst'.fv[q] = load.snap.fv[q]
                             \/ dst'.fv[q] = None /\ \E x \in load'.todo : x[2] = VersionSection /\ RowAt(x) = q
            BY <2>1, <2>2, <2>3, <3>1
        <3> QED
            BY <1>4, <3>2 DEF Arrives
    <2>7. Arrives(dst.tomb, load.snap.tomb, TombstoneSection)'
        <3>1. \/ p[2] = TombstoneSection /\ dst'.tomb = [dst.tomb EXCEPT ![r] = load.snap.tomb[r]]
              \/ p[2] # TombstoneSection /\ dst'.tomb = dst.tomb
            BY <1>5, <2>4
        <3>2. \A q \in Row : \/ dst'.tomb[q] = load.snap.tomb[q]
                             \/ dst'.tomb[q] = None /\ \E x \in load'.todo : x[2] = TombstoneSection /\ RowAt(x) = q
            BY <2>1, <2>2, <2>3, <3>1
        <3> QED
            BY <1>4, <3>2 DEF Arrives
    <2> QED
        BY <2>5, <2>6, <2>7
<1>9. LoadInv' /\ ~whole'
    <2>1. ~whole
        BY <1>2 DEF SeedInv, LoadInv
    <2> QED
        BY <1>2, <1>4, <1>5, <1>8, <2>1 DEF LoadInv
<1>10. Growing'
    BY <1>2, <1>4 DEF SeedInv, Growing
<1> QED
    BY <1>3, <1>6, <1>9, <1>10 DEF SeedInv

\* The last chunk has come: the joiner has what the snapshot has.
LEMMA FinishSeed ==
    ASSUME SeedInv, Finish
    PROVE  SeedInv'
<1>1. /\ UNCHANGED <<events, src>> /\ base' = base \cup load.snap.log
      /\ whole' = (dst.log = {})
      /\ load.pc = "load" /\ load.todo = {} /\ load'.pc = "ack" /\ load'.snap = load.snap
      /\ dst'.log = dst.log /\ dst'.val = dst.val /\ dst'.fv = dst.fv /\ dst'.tomb = dst.tomb
    BY SeedParts, FinishFields
<1>2. CursorInv'
    BY FinishStep DEF SeedInv
<1>3. Tells(src, src.log, src.log)' /\ Tells(load.snap, load.snap.log, load.snap.log)'
    BY <1>1, SeedParts, TellsQuiet
<1>4. ASSUME dst.log = {} PROVE Tells(dst, Reflected, base)'
    <2>1. /\ Arrives(dst.val, load.snap.val, RowSection)
          /\ Arrives(dst.fv, load.snap.fv, VersionSection)
          /\ Arrives(dst.tomb, load.snap.tomb, TombstoneSection)
        BY <1>1, <1>4 DEF SeedInv, LoadInv
    <2>2. \A r \in Row : /\ dst'.val[r] = load.snap.val[r] /\ dst'.fv[r] = load.snap.fv[r]
                         /\ dst'.tomb[r] = load.snap.tomb[r]
        BY <1>1, <2>1 DEF Arrives
    <2>3. Reflected' = load.snap.log /\ base' = load.snap.log
        BY <1>1, <1>4 DEF SeedInv, Growing, Reflected
    <2>4. Tells(load.snap, load.snap.log, load.snap.log)
        BY SeedParts
    <2> QED
        BY <1>1, <2>2, <2>3, <2>4 DEF Tells, TellsOf, Foreign, Wrote
<1>5. LoadInv'
    BY <1>1 DEF LoadInv
<1>6. Growing'
    BY <1>1 DEF SeedInv, Growing
<1> QED
    BY <1>1, <1>2, <1>3, <1>4, <1>5, <1>6 DEF SeedInv

\* BeginSeed returns, with or without an error.
LEMMA ReturnSeed ==
    ASSUME SeedInv, load' = NoLoad, UNCHANGED <<events, src, dst, base, whole>>
    PROVE  SeedInv'
<1>1. CursorInv'
    BY ResetStep DEF SeedInv
<1>2. load'.snap = Empty /\ load'.pc = "idle"
    BY NoLoadFields
<1>3. Tells(src, src.log, src.log)' /\ (whole' => Tells(dst, Reflected, base)')
    BY SeedParts, TellsQuiet DEF SeedInv
<1>4. Tells(load.snap, load.snap.log, load.snap.log)'
    BY <1>2, EmptyTables DEF Tells, TellsOf
<1>5. LoadInv' /\ Growing'
    BY <1>2, EmptyTables DEF SeedInv, LoadInv, Growing
<1> QED
    BY <1>1, <1>3, <1>4, <1>5 DEF SeedInv

LEMMA SeedInit == Init => SeedInv
<1> SUFFICES ASSUME Init PROVE SeedInv
    OBVIOUS
<1>1. src = Empty /\ dst = Empty /\ load = NoLoad /\ base = {} /\ whole = FALSE
    BY DEF Init
<1>2. load.snap = Empty /\ load.pc = "idle"
    BY <1>1, NoLoadFields
<1>3. LoadInv /\ Growing
    BY <1>1, <1>2, EmptyTables DEF LoadInv, Growing
<1> QED
    BY <1>1, <1>2, <1>3, CursorInit, EmptyTells DEF SeedInv

LEMMA SeedStep == SeedInv /\ [Next]_vars => SeedInv'
<1> SUFFICES ASSUME SeedInv, [Next]_vars PROVE SeedInv'
    OBVIOUS
<1>1. ASSUME NEW n \in Writers, NEW r \in Row, NEW del \in BOOLEAN, Write(n, r, del)
      PROVE  SeedInv'
    BY <1>1, WriteSeed
<1>2. ASSUME NEW i \in DOMAIN events, SourceApply(i) \/ JoinerApply(i)
      PROVE  SeedInv'
    BY <1>2, SourceSeed, JoinerSeed
<1>3. CASE BeginSeed
    BY <1>3, BeginSeeds
<1>4. CASE Prepare
    BY <1>4, PrepareSeed
<1>5. CASE LoadChunk
    BY <1>5, ChunkSeed
<1>6. CASE Finish
    BY <1>6, FinishSeed
<1>7. CASE Activate
    BY <1>7, ReturnSeed DEF Activate
<1>8. CASE Mismatch \/ Break
    BY <1>8, ReturnSeed DEF Mismatch, Break, Return
<1>9. CASE UNCHANGED vars
    <2>1. UNCHANGED <<events, src, dst, load, base, whole>>
        BY <1>9 DEF vars
    <2>2. CursorInv'
        BY <1>9, CursorStep DEF SeedInv
    <2>3. /\ Tells(src, src.log, src.log)' /\ Tells(load.snap, load.snap.log, load.snap.log)'
          /\ whole' => Tells(dst, Reflected, base)'
        BY <2>1, SeedParts, TellsQuiet DEF SeedInv
    <2>4. LoadInv' /\ Growing'
        BY <2>1 DEF SeedInv, LoadInv, Growing, Arrives
    <2> QED
        BY <2>2, <2>3, <2>4 DEF SeedInv
<1> QED
    BY <1>1, <1>2, <1>3, <1>4, <1>5, <1>6, <1>7, <1>8, <1>9 DEF Next, Fetch

\* The versions and tombstones of a node tell of its history except where the
\* application of the source wrote the row itself, and what a column of a loading
\* joiner misses is among the chunks to come (seed.Source, seed.Target).
THEOREM SeedInvariant == Spec => []SeedInv
<1>1. Init => SeedInv
    BY SeedInit
<1>2. SeedInv /\ [Next]_vars => SeedInv'
    BY SeedStep
<1> QED
    BY <1>1, <1>2, PTL DEF Spec

\* From the end of a load without deliveries, a row that no delete has reached and
\* that the snapshot has from other nodes shows the newest write the joiner holds
\* (streamVersions, applyRow).
THEOREM SeededRowsNewest == Spec => []SeededNewestAlone
<1>1. SeedInv => SeededNewestAlone
    <2> SUFFICES ASSUME SeedInv, whole, NEW r \in Row, Foreign(r, base),
                        \A i \in OfRow(r) : ~events[i].del
                 PROVE  dst.val[r] = Max({None} \cup OfRow(r))
        BY DEF SeededNewestAlone, Newest
    <2>1. TellsOf(r, dst, Reflected)
        BY DEF SeedInv, Tells
    <2> QED
        BY <2>1, SeedParts, TellsNewest
<1> QED
    BY <1>1, SeedInvariant, PTL

\* And such a row stays away when its newest event is a delete (streamTombstones).
THEOREM SeededDeletesStay == Spec => []SeededDeleteSticks
<1>1. SeedInv => SeededDeleteSticks
    <2> SUFFICES ASSUME SeedInv, whole, NEW r \in Row, Foreign(r, base), OfRow(r) # {},
                        events[Max(OfRow(r))].del
                 PROVE  dst.val[r] = None
        BY DEF SeededDeleteSticks, LastDeletes
    <2>1. TellsOf(r, dst, Reflected)
        BY DEF SeedInv, Tells
    <2> QED
        BY <2>1, SeedParts, TellsGone
<1> QED
    BY <1>1, SeedInvariant, PTL

-----------------------------------------------------------------------------
(* The digests.                                                            *)

\* Both sides put a header and the vector behind the same calls as long as only
\* the last table has items (Stream and Fetch feed Checksum).
LEMMA DigestsAgree ==
    ASSUME NEW snap, OnlyLast(snap)
    PROVE  SourceSum(snap) = TargetSum(snap)
<1> DEFINE n == Len(Tables)
<1>1. n \in Nat /\ DOMAIN Tables = 1 .. n
    BY TablesAssumption
<1> HIDE DEF n
<1>2. ASSUME NEW c \in Stream(snap)
      PROVE  c[1] = n /\ n \in 1 .. n /\ c[2] \in 1 .. 3 /\ AtTarget(c) = c
    <2>1. PICK t \in DOMAIN Tables : c \in TableItems(snap, t)
        BY <1>2 DEF Stream
    <2>2. c \in {t} \X (1 .. 3) \X DOMAIN Tables[t]
        BY <2>1 DEF TableItems, Places
    <2>3. c[1] = t /\ c[2] \in 1 .. 3
        BY <2>2
    <2>4. t = n
        BY <1>1, <2>1 DEF OnlyLast, n
    <2>5. AtTarget(c) = c
        BY <2>3 DEF AtTarget
    <2> QED
        BY <1>1, <2>1, <2>3, <2>4, <2>5
<1>3. ASSUME NEW m \in Marks
      PROVE  \/ m = <<0, 0, 0>> /\ AtTarget(m) = <<0, 0, 0>>
             \/ \E t \in 1 .. n : m = <<t, 0, 0>> /\ AtTarget(m) = <<0, 1, t>>
    BY <1>1, <1>3 DEF Marks, AtTarget
<1>4. ASSUME NEW m \in Marks, NEW c \in Calls(snap)
      PROVE  Before(c, m) <=> Before(AtTarget(c), AtTarget(m))
    <2>1. CASE c \in Stream(snap)
        <3>1. c[1] = n /\ n \in 1 .. n /\ c[2] \in 1 .. 3 /\ AtTarget(c) = c
            BY <1>2, <2>1
        <3>2. CASE m = <<0, 0, 0>> /\ AtTarget(m) = <<0, 0, 0>>
            BY <3>1, <3>2 DEF Before
        <3>3. ASSUME NEW t \in 1 .. n, m = <<t, 0, 0>> /\ AtTarget(m) = <<0, 1, t>>
              PROVE  ~Before(c, m) /\ ~Before(AtTarget(c), AtTarget(m))
            <4>1. c[1] = n /\ n \in Nat /\ t \in Nat /\ t >= 1 /\ t <= n /\ c[2] \in Nat /\ c[2] >= 1
                BY <1>1, <3>1
            <4>2. ~Before(c, <<t, 0, 0>>)
                BY <4>1 DEF Before
            <4>3. ~Before(c, <<0, 1, t>>)
                BY <4>1 DEF Before
            <4> QED
                BY <3>1, <3>3, <4>2, <4>3
        <3> QED
            BY <1>3, <3>2, <3>3
    <2>2. CASE c \in Marks
        <3>1. CASE c = <<0, 0, 0>> /\ AtTarget(c) = <<0, 0, 0>>
            <4>1. CASE m = <<0, 0, 0>> /\ AtTarget(m) = <<0, 0, 0>>
                BY <3>1, <4>1
            <4>2. ASSUME NEW t \in 1 .. n, m = <<t, 0, 0>> /\ AtTarget(m) = <<0, 1, t>>
                  PROVE  Before(c, m) /\ Before(AtTarget(c), AtTarget(m))
                BY <3>1, <4>2 DEF Before
            <4> QED
                BY <1>3, <4>1, <4>2
        <3>2. ASSUME NEW s \in 1 .. n, c = <<s, 0, 0>> /\ AtTarget(c) = <<0, 1, s>>
              PROVE  Before(c, m) <=> Before(AtTarget(c), AtTarget(m))
            <4>1. CASE m = <<0, 0, 0>> /\ AtTarget(m) = <<0, 0, 0>>
                BY <3>2, <4>1 DEF Before
            <4>2. ASSUME NEW t \in 1 .. n, m = <<t, 0, 0>> /\ AtTarget(m) = <<0, 1, t>>
                  PROVE  Before(c, m) <=> Before(AtTarget(c), AtTarget(m))
                BY <3>2, <4>2 DEF Before
            <4> QED
                BY <1>3, <4>1, <4>2
        <3> QED
            BY <1>3, <2>2, <3>1, <3>2
    <2> QED
        BY <2>1, <2>2 DEF Calls
<1> QED
    BY <1>4 DEF SourceSum, TargetSum

\* A call of BeginSeed whose snapshot has content in the last table only ends
\* with an ACTIVE node or with a broken stream, never with a checksum mismatch.
THEOREM LastTableSeeds == Spec => SeedActivates
<1> DEFINE Counted == faults \in Nat
<1>1. Init => Counted
    BY DEF Init
<1>2. Counted /\ [Next]_vars => Counted'
    <2> SUFFICES ASSUME Counted, [Next]_vars PROVE Counted'
        OBVIOUS
    <2>1. CASE UNCHANGED faults
        BY <2>1
    <2>2. CASE Break
        BY <2>2 DEF Break
    <2>3. UNCHANGED faults \/ Break
        BY DEF Next, vars, Write, SourceApply, JoinerApply, BeginSeed, Fetch, Prepare, StartLoad,
               LoadChunk, Finish, Activate, Mismatch
    <2> QED
        BY <2>1, <2>2, <2>3
<1>3. CursorInv /\ Counted /\ [Next]_vars => [Completes]_vars
    <2> SUFFICES ASSUME CursorInv, Counted, Next, Loading, ~Loading', OnlyLast(load.snap)
                 PROVE  active' \/ faults' > faults
        BY DEF Completes
    <2>1. load' # load /\ load'.pc = "idle" /\ load.pc # "idle"
        BY DEF Loading
    <2>2. Matches
        BY DigestsAgree DEF Matches
    <2>3. ~Prepare
        BY <2>1 DEF Prepare, StartLoad
    <2>4. ~LoadChunk /\ ~Finish
        <3>1. load \in [pc : {"idle", "request", "load", "ack"}, snap : Tabled,
                        todo : SUBSET UNION Range(Places)]
            BY DEF CursorInv, TypeOK
        <3> QED
            BY <2>1, <3>1 DEF LoadChunk, Finish
    <2>5. ~Mismatch
        BY <2>2 DEF Mismatch
    <2>6. ~BeginSeed
        BY DEF BeginSeed
    <2>7. Activate \/ Break
        BY <2>1, <2>3, <2>4, <2>5, <2>6 DEF Next, Fetch, Write, SourceApply, JoinerApply
    <2> QED
        BY <2>7 DEF Activate, Break
<1> HIDE DEF Counted
<1> QED
    BY <1>1, <1>2, <1>3, CursorInit, CursorStep, PTL DEF Spec, SeedActivates
=============================================================================
