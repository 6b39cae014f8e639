----------------------------- MODULE Lifecycle ------------------------------
(***************************************************************************)
(* What a journalled project promises its operator, with no journal, no    *)
(* control state and no crash: one document is committed, readers see it   *)
(* or the one before it, and each commit is one legal transition.          *)
(***************************************************************************)
EXTENDS ProjectState

VARIABLES committed,   \* the document recovery would settle on
          visible      \* the document project.json shows now

lvars == <<committed, visible>>

Init == committed = None /\ visible = None

Register ==
  /\ committed = None
  /\ ValidState(committed')
  /\ committed' = NewState(committed'.content_id, committed'.source)
  /\ visible' = committed'

(* Decided but not yet shown: at most one document is ahead of the readers. *)
Commit ==
  /\ visible = committed
  /\ ValidTransition(committed, committed')
  /\ committed'.revision = committed.revision + 1
  /\ UNCHANGED visible

Publish ==
  /\ visible' = committed
  /\ UNCHANGED committed

Next == Register \/ Commit \/ Publish

Spec == Init /\ [][Next]_lvars

=============================================================================
