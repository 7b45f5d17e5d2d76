------------------------------ MODULE MCMesh ------------------------------
(* Small instances of Mesh for TLC.                                        *)
EXTENDS Mesh

\* Two nodes, the second in the peer table of the first.
PairLink == {<<1, 2>>}
\* A partial mesh: 1 and 3 meet only through 2.
LineLink == {<<1, 2>>, <<3, 2>>}

SelfActive == [n \in Node |-> {n}]
SameSchema == [n \in Node |-> 1]

\* The state of the partial mesh after node 3 has written all its events and node
\* 2 has received and acknowledged them in one session.
Told(v) == [o \in Node |-> IF o = 3 THEN v ELSE 0]
History == {3} \X Seqs
AfterSync ==
    /\ seq = Told(MaxSeq)
    /\ log = [n \in Node |-> IF n = 1 THEN {} ELSE History]
    /\ applied = log
    /\ progress = [n \in Node |-> [r \in Node |-> [o \in Node |->
                     IF n = 1 \/ r = 1 \/ (n = 3 /\ r = 3) THEN NoRow
                     ELSE IF n = r THEN (IF o = 3 THEN MaxSeq ELSE NoRow)
                     ELSE Told(MaxSeq)[o]]]]
    /\ gcThrough = [n \in Node |-> ZeroVector]
    /\ ep = [e \in Endpoint |-> Fresh]
    /\ chan = [e \in Endpoint |-> <<>>]
    /\ lastSent = [n \in Node |-> NoRow]
    /\ casts = {}
    /\ gc = [n \in Node |-> [wm |-> ZeroVector, mark |-> FALSE]]
    /\ faults = 0

\* From then on node 3 is offline and its events reach node 1 through node 2 only.
ForwardSpec == AfterSync /\ [][Next]_vars /\ Fairness
===========================================================================
