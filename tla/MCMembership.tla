--------------------------- MODULE MCMembership ---------------------------
(* Small instances of Membership for TLC.                                  *)
EXTENDS Membership

\* Two nodes that send each other heartbeats.
PairConn == {<<1, 2, 1>>, <<2, 1, 1>>}
\* 1 speaks to 2 and 3, and 3 speaks to 2.
TriangleConn == {<<1, 2, 1>>, <<1, 3, 1>>, <<3, 2, 1>>}

\* 1 and 3 have met, and 2 has met both.
MetSenders == {<<1, 3>>, <<3, 1>>, <<2, 1>>, <<2, 3>>}

\* Everyone runs in the first incarnation, or 2 has been rebuilt.
AllFirst == [n \in Node |-> 1]
Rebuilt == [n \in Node |-> IF n = 2 THEN 2 ELSE 1]
===========================================================================
