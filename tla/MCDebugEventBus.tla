--------------------------- MODULE MCDebugEventBus ---------------------------
(* DebugEventBus on a small instance.  History and queue are shorter than  *)
(* the number of lines, so that lines are forgotten and queues overflow.   *)
EXTENDS DebugEventBus

CONSTANTS pub1, pub2, cl1

(* How many lines each publisher has.                                      *)
OneLine  == [p \in Publisher |-> 1]
TwoLines == [p \in Publisher |-> 2]
=============================================================================
