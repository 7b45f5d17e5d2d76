--------------------------- MODULE ReplicatedLog ---------------------------
(***************************************************************************)
(* What delta synchronisation promises, without sessions, transactions,    *)
(* broadcasts or collection.  Every node numbers its own writes without    *)
(* gaps, events spread only from nodes that hold them, and each node keeps *)
(* cursors, its own and those it learnt of its peers, that never exceed    *)
(* the contiguous history the node in question really holds.               *)
(***************************************************************************)
EXTENDS Integers

CONSTANTS Node, MaxSeq

VARIABLES
    written,   \* written[n]: the events n has written
    held,      \* held[n]: the events n holds, of all origins
    known      \* known[n][r][o]: how far n knows r to have got with origin o

vars == <<written, held, known>>

Unknown == -1

Init ==
    /\ written = [n \in Node |-> 0]
    /\ held = [n \in Node |-> {}]
    /\ known = [n \in Node |-> [r \in Node |-> [o \in Node |-> Unknown]]]

Everything == UNION {held[n] : n \in Node}

\* A vector that only claims contiguous history that is in the set H.
Covers(H, v) == \A o \in Node : \A s \in 1 .. v[o] : <<o, s>> \in H

Advances(v, w) == \A o \in Node : v[o] <= w[o]

Write(n) ==
    /\ written[n] < MaxSeq
    /\ written' = [written EXCEPT ![n] = @ + 1]
    /\ held' = [held EXCEPT ![n] = @ \cup {<<n, written[n] + 1>>}]
    /\ UNCHANGED known

\* A node takes over events some node holds and moves its own cursors.
Receive(n) ==
    /\ held' = [held EXCEPT ![n] = held'[n]]
    /\ held[n] \subseteq held'[n] /\ held'[n] \subseteq Everything
    /\ known' = [known EXCEPT ![n][n] = known'[n][n]]
    /\ Advances(known[n][n], known'[n][n]) /\ Covers(held'[n], known'[n][n])
    /\ UNCHANGED written

\* A node learns how far a peer has got.
Learn(n, r) ==
    /\ n # r
    /\ known' = [known EXCEPT ![n][r] = known'[n][r]]
    /\ Advances(known[n][r], known'[n][r]) /\ Covers(held[r], known'[n][r])
    /\ UNCHANGED <<written, held>>

Next ==
    \/ \E n \in Node : Write(n) \/ Receive(n)
    \/ \E n, r \in Node : Learn(n, r)

Spec == Init /\ [][Next]_vars
=============================================================================
