----------------------------- MODULE MCDebugPage -----------------------------
(* DebugPage on a small instance: three events that belong together.       *)
EXTENDS DebugPage, TLC

CONSTANTS e1, e2, e3, corrA

MCCorrelationOf == [id \in EventId |-> corrA]

Symmetry == Permutations(EventId)
=============================================================================
