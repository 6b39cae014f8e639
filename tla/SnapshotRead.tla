---------------------------- MODULE SnapshotRead -----------------------------
(***************************************************************************)
(* What hashing.py promises the gates built on it: a read is as good as    *)
(* one that happens at a single instant.  It answers with the bytes the    *)
(* path holds as it returns, and their number, or with nothing at all.     *)
(***************************************************************************)
EXTENDS Integers, Sequences

CONSTANTS None, Error

VARIABLES content,   \* the bytes of the regular file at the path, or None
          answer     \* what the last call returned, None while it runs

Init == answer = Error

Call == answer # None /\ answer' = None /\ UNCHANGED content

Return ==
  /\ answer = None
  /\ \/ content # None /\ answer' = [bytes |-> content, size |-> Len(content)]
     \/ answer' = Error
  /\ UNCHANGED content

Mutate == UNCHANGED answer

Next == Call \/ Return \/ Mutate

Spec == Init /\ [][Next]_<<content, answer>>

=============================================================================
