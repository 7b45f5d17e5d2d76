------------------------------ MODULE MCSeed ------------------------------
(* Small instances of Seed for TLC.                                        *)
EXTENDS Seed

OneTable == << <<1>> >>
TwoTables == << <<1>>, <<2>> >>
===========================================================================
