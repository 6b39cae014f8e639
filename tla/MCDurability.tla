--------------------------- MODULE MCDurability ------------------------------
(* A project with two plans it may be given, on a disk that reorders or not. *)
EXTENDS Durability, MCJournal

=============================================================================
