---------------------------- MODULE MCFileLease -----------------------------
(* Three processes and three inodes: a process that creates the path holds  *)
(* no file, so the deleted ones open in the two others leave it one.       *)
EXTENDS FileLease, TLC

CONSTANTS q1, q2, q3, i1, i2, i3

Symmetry == Permutations(Procs) \cup Permutations(Inodes)

=============================================================================
