---------------------------- MODULE MCStableRead -----------------------------
(* Two files of up to two chunks; three changes, a limit within reach. *)
EXTENDS StableRead, TLC

(* The program never compares two files or two chunks by name. *)
MCSymmetry == Permutations(Inodes) \cup Permutations(Chunks)

=============================================================================
