------------------------- MODULE MCServerLifecycle -------------------------
(* ServerLifecycle on a small instance: two processes at a time (any       *)
(* number one after the other), two PID files, and commands enough for a   *)
(* second start and a second stop to meet the first ones in every way.     *)
EXTENDS ServerLifecycle, TLC

CONSTANTS pid1, pid2, start1, start2, stop1, stop2, file1, file2

Symmetry == Permutations(Pid) \cup Permutations(StartCmd) \cup Permutations(StopCmd)
                \cup Permutations(File)
=============================================================================
