------------------------------ MODULE Journal -------------------------------
(***************************************************************************)
(* StateStore (journal.py): project.json, its single write-ahead record    *)
(* journal.json, and the two programs that write them, transact and        *)
(* recover.  The project lease lets one program run at a time, so one      *)
(* control state is enough.  Every file write is one step (os.replace),    *)
(* and the process may stop between any two of them.                       *)
(*                                                                         *)
(* Spec has crashes only.  OpenSpec adds what the threat model puts in     *)
(* scope: someone restores, edits, deletes or corrupts a file, journal.json *)
(* between two programs and project.json at any of the points EditPcs.     *)
(***************************************************************************)
EXTENDS ProjectState

CONSTANTS Mutations,       \* the documents a mutator may return
          ForeignStates,   \* documents an outside edit may leave
          ForeignRecords,  \* journal records an outside edit may leave
          EditPcs          \* where project.json may be edited in a program

VARIABLES project,   \* project.json
          journal,   \* journal.json
          tx         \* the running transact or recover, and its locals

vars == <<project, journal, tx>>

Records == [before : States, after : States]

Running == {"prepare", "compare", "apply", "clear", "done", "failed"}

Pcs == Running \cup {"idle"}

ASSUME JournalAssumption ==
  /\ Mutations \subseteq States
  /\ ForeignStates \subseteq States
  /\ ForeignRecords \subseteq Records
  /\ EditPcs \subseteq Pcs
  /\ None \notin Records
  /\ Garbage \notin Records

Idle == [pc |-> "idle", before |-> None, after |-> None]

TypeOK ==
  /\ project \in States \cup {None, Garbage}
  /\ journal \in Records \cup {None, Garbage}
  /\ tx \in {Idle} \cup [pc : Running, before : States, after : States]

Init == project = None /\ journal = None /\ tx = Idle

Initialize(s) ==
  /\ tx.pc = "idle"
  /\ project = None /\ journal = None
  /\ ValidState(s)
  /\ project' = s
  /\ UNCHANGED <<journal, tx>>

-----------------------------------------------------------------------------
(* transact *)

RevisionTrusted(before, mutated) == mutated

(* The revision is the store's, whatever the mutator returned. *)
Successor(before, mutated) == [mutated EXCEPT !.revision = before.revision + 1]

TransactUnvalidated(mutated) ==
  /\ tx.pc = "idle"
  /\ journal = None
  /\ ValidState(project)
  /\ ValidState(Successor(project, mutated))
  /\ tx' = [pc |-> "prepare", before |-> project,
            after |-> Successor(project, mutated)]
  /\ UNCHANGED <<project, journal>>

TransactBegin(mutated) ==
  /\ tx.pc = "idle"
  /\ journal = None
  /\ ValidState(project)
  /\ ValidTransition(project, Successor(project, mutated))
  /\ tx' = [pc |-> "prepare", before |-> project,
            after |-> Successor(project, mutated)]
  /\ UNCHANGED <<project, journal>>

PrepareHashOnly ==
  /\ tx.pc = "prepare"
  /\ journal' = [before |-> tx.before, after |-> None]
  /\ tx' = [tx EXCEPT !.pc = "compare"]
  /\ UNCHANGED project

Prepare ==
  /\ tx.pc = "prepare"
  /\ journal' = [before |-> tx.before, after |-> tx.after]
  /\ tx' = [tx EXCEPT !.pc = "compare"]
  /\ UNCHANGED project

CompareSkipped ==
  /\ tx.pc = "compare"
  /\ tx' = [tx EXCEPT !.pc = "apply"]
  /\ UNCHANGED <<project, journal>>

(* A mismatch raises RecoveryRequired and leaves the record in place. *)
Compare ==
  /\ tx.pc = "compare"
  /\ tx' = [tx EXCEPT !.pc = IF project = tx.before THEN "apply" ELSE "failed"]
  /\ UNCHANGED <<project, journal>>

Apply ==
  /\ tx.pc = "apply"
  /\ project' = tx.after
  /\ tx' = [tx EXCEPT !.pc = "clear"]
  /\ UNCHANGED journal

(* The unlink raises when the record is gone, after the state was written. *)
Clear ==
  /\ tx.pc = "clear"
  /\ journal' = None
  /\ tx' = [tx EXCEPT !.pc = IF journal = None THEN "failed" ELSE "done"]
  /\ UNCHANGED project

-----------------------------------------------------------------------------
(* recover *)

(* A record that fails any of these checks, or a project.json on neither   *)
(* side of it, raises and changes nothing.                                 *)
Sound(record) ==
  /\ record \in Records
  /\ ValidTransition(record.before, record.after)
  /\ record.after.revision = record.before.revision + 1

RollForwardBlind ==
  /\ tx.pc = "idle"
  /\ Sound(journal)
  /\ ValidState(project)
  /\ project # journal.after
  /\ tx' = [pc |-> "apply", before |-> journal.before, after |-> journal.after]
  /\ UNCHANGED <<project, journal>>

RollForward ==
  /\ tx.pc = "idle"
  /\ Sound(journal)
  /\ ValidState(project)
  /\ project = journal.before
  /\ tx' = [pc |-> "apply", before |-> journal.before, after |-> journal.after]
  /\ UNCHANGED <<project, journal>>

ClearBlind ==
  /\ tx.pc = "idle"
  /\ Sound(journal)
  /\ ValidState(project)
  /\ project # journal.before
  /\ tx' = [pc |-> "clear", before |-> journal.before, after |-> journal.after]
  /\ UNCHANGED <<project, journal>>

AppliedRefused == FALSE

FinishClear ==
  /\ tx.pc = "idle"
  /\ Sound(journal)
  /\ ValidState(project)
  /\ project # journal.before
  /\ project = journal.after
  /\ tx' = [pc |-> "clear", before |-> journal.before, after |-> journal.after]
  /\ UNCHANGED <<project, journal>>

Recover == RollForward \/ FinishClear

-----------------------------------------------------------------------------

Return ==
  /\ tx.pc \in {"done", "failed"}
  /\ tx' = Idle
  /\ UNCHANGED <<project, journal>>

Crash ==
  /\ tx.pc # "idle"
  /\ tx' = Idle
  /\ UNCHANGED <<project, journal>>

Step == Prepare \/ Compare \/ Apply \/ Clear

Program ==
  \/ \E id \in Ids, source \in Digests : Initialize(NewState(id, source))
  \/ \E s \in Mutations : TransactBegin(s)
  \/ Step \/ Recover \/ Return

Next == Program \/ Crash

EditProject ==
  /\ tx.pc \in EditPcs
  /\ project' \in ForeignStates \cup {None, Garbage}
  /\ UNCHANGED <<journal, tx>>

EditJournal ==
  /\ tx.pc = "idle"
  /\ journal' \in ForeignRecords \cup {None, Garbage}
  /\ UNCHANGED <<project, tx>>

OpenNext == Next \/ EditProject \/ EditJournal

Spec == Init /\ [][Next]_vars

OpenSpec == Init /\ [][OpenNext]_vars

-----------------------------------------------------------------------------
(* Properties of Spec: crashes only *)

(* Whatever the crash point, a pending record is sound and project.json is *)
(* on one of its two sides, so recover never has to stop for review.       *)
PendingOneSide ==
  journal # None => /\ Sound(journal)
                    /\ project \in {journal.before, journal.after}

(* The same, with what a running program may rely on at each control point: *)
(* this is inductive, and a crash that forgets tx preserves it.            *)
JournalInv ==
  /\ project # None => ValidState(project)
  /\ project = None => journal = None
  /\ PendingOneSide
  /\ tx.pc = "prepare" => /\ journal = None
                          /\ project = tx.before
                          /\ Sound([before |-> tx.before, after |-> tx.after])
  /\ tx.pc = "compare" => /\ journal = [before |-> tx.before, after |-> tx.after]
                          /\ project = tx.before
  /\ tx.pc = "apply" => /\ journal # None
                        /\ journal.after = tx.after
                        /\ project = journal.before
  /\ tx.pc = "clear" => journal # None /\ project = journal.after
  /\ tx.pc = "done" => journal = None
  /\ tx.pc # "failed"

(* The store implements the lifecycle: writing the record is the commit,   *)
(* replacing project.json its publication, for every crash and recovery.   *)
Committed == IF journal = None THEN project ELSE journal.after

Abstract == INSTANCE Lifecycle WITH committed <- Committed, visible <- project

ImplementsLifecycle == Abstract!Spec

-----------------------------------------------------------------------------
(* Properties of OpenSpec: files edited from outside as well *)

(* No program step takes an existing project.json anywhere but to its      *)
(* lawful successor: stale, foreign and corrupt records replayed by recover *)
(* never lower a revision, change evidence or swap the project.            *)
ProgramStepsAreTransitions ==
  [][Program /\ project # None /\ project' # project
       => /\ ValidTransition(project, project')
          /\ project'.revision = project.revision + 1]_vars

(* A record leaves the disk only when its target is what project.json shows. *)
RecordClearedOnlyWhenApplied ==
  [][Program /\ journal # None /\ journal' = None
       => journal \in Records /\ project = journal.after]_vars

(* A record that is corrupt, or has project.json on neither side, is       *)
(* preserved for the operator, and so is project.json.                     *)
Ambiguous ==
  /\ journal # None
  /\ journal \in Records => project \notin {journal.before, journal.after}

AmbiguousUntouched ==
  [][Program /\ Ambiguous => UNCHANGED <<project, journal>>]_vars

=============================================================================
