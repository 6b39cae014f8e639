----------------------------- MODULE MCSessions ------------------------------
(* Two operators' shells, two workspaces, three encoders. *)
EXTENDS Sessions, TLC

MCSymmetry ==
  Permutations(Procs) \cup Permutations(Projects) \cup Permutations(Encoders)

=============================================================================
