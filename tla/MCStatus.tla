------------------------------ MODULE MCStatus ------------------------------
(* The contents of MCWorkspace with sizes: a stray has the size of what it *)
(* replaces, a render cut short does not.                                  *)
EXTENDS StatusView, MCWorkspace

MCSize(content) == IF content = Partial THEN 1 ELSE 2

(* Each file replaced by something of its size, the master also removed. *)
MCStatusEdits ==
  [source |-> {x}, approved_plan |-> {x},
   master |-> {None, x}, staged |-> {x}, release_manifest |-> {x}]

=============================================================================
