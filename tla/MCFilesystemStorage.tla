------------------------ MODULE MCFilesystemStorage ------------------------
(* FilesystemStorage on a small instance: three calls, two paths and two   *)
(* contents, so that two calls may meet on a path with the same content or *)
(* with different ones while a third is on the other path.                 *)
EXTENDS FilesystemStorage, TLC

CONSTANTS w1, w2, w3, p1, p2, rawA, rawB

Symmetry == Permutations({w1, w2, w3}) \cup Permutations({p1, p2})
                \cup Permutations({rawA, rawB})
=============================================================================
