----------------------------- MODULE MCReplica -----------------------------
(***************************************************************************)
(* Replica for TLC.  The columns are interchangeable, and so are the       *)
(* workers of the receiver: nothing compares them.                         *)
(***************************************************************************)
EXTENDS Replica, TLC

CONSTANTS w1, w2, w3

\* The first writer only sends, the second also hears of it, and the receiver
\* applies two events at a time.
SomeWorkers == <<{}, {w3}, {w1, w2}>>
OneEach == [n \in Node |-> {w1}]

Symmetric == Permutations(Col) \cup Permutations({w1, w2})
=============================================================================
