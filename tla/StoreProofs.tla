---------------------------- MODULE StoreProofs ----------------------------
(* Facts about the operators of module Store, for every set of nodes and   *)
(* every bound.                                                            *)
EXTENDS Store, WellFoundedInduction, TLAPS

\* A non-empty set of naturals has a least element, which Min denotes.
LEMMA MinOfNaturals ==
    ASSUME NEW S, S \subseteq Nat, S # {}
    PROVE  Min(S) \in S /\ \A y \in S : Min(S) <= y
<1> DEFINE Less == {p \in Nat \X Nat : p[1] < p[2]}
<1>1. OpToRel(<, Nat) = Less
    BY DEF OpToRel
<1>2. IsWellFoundedOn(Less, Nat)
    BY <1>1, NatLessThanWellFounded
<1>3. \E x \in S : \A y \in S : ~(<<y, x>> \in Less)
    <2> HIDE DEF Less
    <2> QED
        BY <1>2, WFMin
<1>4. PICK x \in S : \A y \in S : ~(<<y, x>> \in Less)
    BY <1>3
<1>5. ASSUME NEW y \in S
      PROVE  x <= y
    <2>1. x \in Nat /\ y \in Nat
        OBVIOUS
    <2>2. y < x => <<y, x>> \in Less
        BY <2>1
    <2> QED
        BY <1>4, <2>1, <2>2
<1> QED
    BY <1>5 DEF Min

\* A non-empty set of naturals with an upper bound has a greatest element,
\* which Max denotes.
LEMMA MaxOfNaturals ==
    ASSUME NEW K \in Nat, NEW S, S \subseteq 0 .. K, S # {}
    PROVE  Max(S) \in S /\ \A y \in S : Max(S) >= y
<1> DEFINE T == {d \in 0 .. K : K - d \in S}
<1>1. T \subseteq Nat
    OBVIOUS
<1>2. \A y \in S : K - y \in T
    <2> SUFFICES ASSUME NEW y \in S
                 PROVE  K - y \in T
        OBVIOUS
    <2>1. y \in Int /\ 0 <= y /\ y <= K
        OBVIOUS
    <2>2. K - y \in 0 .. K /\ K - (K - y) = y
        BY <2>1
    <2> QED
        BY <2>2
<1>3. Min(T) \in T /\ \A y \in T : Min(T) <= y
    <2>1. T # {}
        BY <1>2
    <2> HIDE DEF T
    <2> QED
        BY <1>1, <2>1, MinOfNaturals
<1> DEFINE x == K - Min(T)
<1>4. x \in S /\ x \in Int
    BY <1>3
<1>5. ASSUME NEW y \in S
      PROVE  x >= y
    <2>1. y \in Int /\ Min(T) \in Int
        BY <1>3
    <2>2. Min(T) <= K - y
        BY <1>2, <1>3
    <2> HIDE DEF T
    <2> QED
        BY <2>1, <2>2
<1> HIDE DEF x
<1> QED
    BY <1>4, <1>5 DEF Max

\* The scan of AdvanceContiguous: everything between the old cursor and the
\* one it returns is in the log, so the cursor never skips a gap.
LEMMA FirstGapSound ==
    ASSUME NEW E \in SUBSET Event, NEW o \in Node, NEW c \in 0 .. MaxSeq
    PROVE  /\ FirstGap(E, o, c) \in c .. MaxSeq
           /\ \A s \in c + 1 .. FirstGap(E, o, c) : <<o, s>> \in E
<1> DEFINE G == {k \in c .. MaxSeq : <<o, k + 1>> \notin E}
<1>1. G \subseteq Nat
    BY MaxSeqAssumption
<1>2. MaxSeq \in G
    <2>1. <<o, MaxSeq + 1>> \notin Event
        BY MaxSeqAssumption DEF Event, Seqs
    <2> QED
        BY <2>1, MaxSeqAssumption
<1>3. FirstGap(E, o, c) \in G /\ \A y \in G : FirstGap(E, o, c) <= y
    <2> HIDE DEF G
    <2>1. Min(G) \in G /\ \A y \in G : Min(G) <= y
        BY <1>1, <1>2, MinOfNaturals
    <2> QED
        BY <2>1 DEF FirstGap, G
<1>4. ASSUME NEW s \in c + 1 .. FirstGap(E, o, c), <<o, s>> \notin E
      PROVE  FALSE
    <2>1. s - 1 \in c .. MaxSeq /\ (s - 1) + 1 = s
        BY <1>3, MaxSeqAssumption
    <2>2. s - 1 \in G
        BY <2>1, <1>4
    <2> QED
        BY <2>2, <1>3, MaxSeqAssumption
<1> QED
    BY <1>3, <1>4

\* FetchRange returns rows of the log, of the origin and interval asked for.
LEMMA FetchRangeSound ==
    ASSUME NEW E \in SUBSET Event, NEW o, NEW from, NEW to, NEW max
    PROVE  /\ FetchRange(E, o, from, to, max) \subseteq E
           /\ \A x \in FetchRange(E, o, from, to, max) : x[1] = o /\ x[2] \in from .. to
BY DEF FetchRange

\* missingRanges asks for well-formed intervals only.
LEMMA MissingType ==
    ASSUME NEW have \in Vector, NEW want \in Vector
    PROVE  Missing(have, want) \in SUBSET RangeReq
BY MaxSeqAssumption DEF Vector, Missing, RangeReq, Seqs

\* The watermarks of gc.Run form a vector.
LEMMA WatermarksType ==
    ASSUME NEW rows \in [Node -> [Node -> Cursor]], NEW active \in SUBSET Node
    PROVE  Watermarks(rows, active) \in Vector
<1> SUFFICES ASSUME NEW o \in Node, Receivers(rows, active) # {}
             PROVE  Min({ReadCursor(rows[r][o]) : r \in Receivers(rows, active)}) \in 0 .. MaxSeq
    BY MaxSeqAssumption DEF Watermarks, Vector
<1> DEFINE S == {ReadCursor(rows[r][o]) : r \in Receivers(rows, active)}
<1>1. S \subseteq 0 .. MaxSeq /\ S # {}
    BY MaxSeqAssumption DEF Receivers, ReadCursor, Cursor, NoRow
<1>2. Min(S) \in S
    <2>1. S \subseteq Nat
        BY <1>1, MaxSeqAssumption
    <2> HIDE DEF S
    <2> QED
        BY <1>1, <2>1, MinOfNaturals
<1> QED
    BY <1>1, <1>2

\* The range sendRanges serves next is one it was asked for.
LEMMA LeastOrigin ==
    ASSUME NEW R, R \subseteq RangeReq, R # {}
    PROVE  \E r \in R : \A q \in R : r.origin <= q.origin
<1> DEFINE S == {o \in Node : \E r \in R : r.origin = o}
<1>1. S \subseteq Nat /\ S # {}
    BY NodeAssumption DEF RangeReq
<1>2. Min(S) \in S /\ \A y \in S : Min(S) <= y
    <2> HIDE DEF S
    <2> QED
        BY <1>1, MinOfNaturals
<1>3. PICK r \in R : r.origin = Min(S)
    BY <1>2
<1>4. \A q \in R : q.origin \in S
    BY DEF RangeReq
<1> HIDE DEF S
<1> QED
    BY <1>2, <1>3, <1>4
=============================================================================
