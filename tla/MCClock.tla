------------------------------ MODULE MCClock ------------------------------
(***************************************************************************)
(* Small instances of Clock for TLC.  Connections are interchangeable:     *)
(* nothing compares them.                                                  *)
(***************************************************************************)
EXTENDS Clock, TLC

\* Remote events: one level with the wall clock, one ahead of it.
SomeRemote == {[p |-> 1, l |-> 2], [p |-> 3, l |-> 1]}

ConnSymmetry == Permutations(Conn)
============================================================================
