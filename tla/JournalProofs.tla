--------------------------- MODULE JournalProofs ----------------------------
(***************************************************************************)
(* What TLC checks of the journal on two projects, proved for every set of *)
(* identifiers, contents, engines, mutator outputs and outside edits; and  *)
(* of the journal on a directory that reaches the disk late, for any       *)
(* number of updates queued, kills and power losses.                       *)
(***************************************************************************)
EXTENDS Durability, TLAPS

(* A transition is between two valid documents of different stages, so its *)
(* sides are different documents and neither is a sentinel.                *)
LEMMA TransitionSides ==
  ASSUME NEW before, NEW after, ValidTransition(before, after)
  PROVE  /\ before \in States /\ after \in States
         /\ before # after
         /\ before # None /\ after # None
<1>1. ValidState(before) /\ ValidState(after) /\ Follows(before.stage, after.stage)
  BY DEF ValidTransition
<1>2. before \in States /\ after \in States
  BY <1>1 DEF ValidState
<1>3. before.stage # after.stage
  BY <1>1, SMT DEF Follows, NextStage
<1>4. before # None /\ after # None
  BY <1>2, SentinelsAssumption
<1> QED BY <1>2, <1>3, <1>4

(* A sound record is a record of two different documents, and never absent. *)
LEMMA SoundSides ==
  ASSUME NEW record, Sound(record)
  PROVE  /\ record \in Records
         /\ record # None
         /\ record.before \in States /\ record.after \in States
         /\ ValidState(record.before) /\ ValidState(record.after)
         /\ record.before # record.after
<1>1. record \in Records /\ ValidTransition(record.before, record.after)
  BY DEF Sound
<1>2. record # None
  BY <1>1, JournalAssumption
<1>3. ValidState(record.before) /\ ValidState(record.after)
  BY <1>1 DEF ValidTransition
<1> QED BY <1>1, <1>2, <1>3, TransitionSides

(* A fresh project is a valid document. *)
LEMMA NewStateTyped ==
  ASSUME NEW id \in Ids, NEW source \in Digests
  PROVE  NewState(id, source) \in States
BY DEF NewState, States, Stages, Opt

(* Every step, a crash or an outside edit included, keeps the types. *)
LEMMA TypeStep == TypeOK /\ [OpenNext]_vars => TypeOK'
<1> SUFFICES ASSUME TypeOK, [OpenNext]_vars PROVE TypeOK'
  OBVIOUS
<1> USE DEF TypeOK
<1>1. ASSUME NEW id \in Ids, NEW source \in Digests,
             Initialize(NewState(id, source))
      PROVE  TypeOK'
  BY <1>1, NewStateTyped DEF Initialize
<1>2. ASSUME NEW s \in Mutations, TransactBegin(s)
      PROVE  TypeOK'
  <2>1. project \in States /\ Successor(project, s) \in States
    BY <1>2, TransitionSides DEF TransactBegin
  <2>2. tx' \in [pc : Running, before : States, after : States]
    BY <1>2, <2>1 DEF TransactBegin, Running
  <2> QED BY <1>2, <2>2 DEF TransactBegin
<1>3. CASE Step
  <2>1. tx \in [pc : Running, before : States, after : States]
    BY <1>3 DEF Step, Prepare, Compare, Apply, Clear, Idle
  <2>2. tx' \in [pc : Running, before : States, after : States]
    BY <1>3, <2>1 DEF Step, Prepare, Compare, Apply, Clear, Running
  <2>3. project' \in States \cup {None, Garbage}
    BY <1>3, <2>1 DEF Step, Prepare, Compare, Apply, Clear
  <2>4. journal' \in Records \cup {None, Garbage}
    BY <1>3, <2>1 DEF Step, Prepare, Compare, Apply, Clear, Records
  <2> QED BY <2>2, <2>3, <2>4
<1>4. CASE Recover
  <2>1. Sound(journal)
    BY <1>4 DEF Recover, RollForward, FinishClear
  <2>2. journal.before \in States /\ journal.after \in States
    BY <2>1, SoundSides
  <2>3. tx' \in [pc : Running, before : States, after : States]
    BY <1>4, <2>2 DEF Recover, RollForward, FinishClear, Running
  <2> QED BY <1>4, <2>3 DEF Recover, RollForward, FinishClear
<1>5. CASE Return \/ Crash
  BY <1>5 DEF Return, Crash
<1>6. CASE EditProject \/ EditJournal
  BY <1>6, JournalAssumption DEF EditProject, EditJournal
<1>7. CASE UNCHANGED vars
  BY <1>7 DEF vars
<1> QED
  BY <1>1, <1>2, <1>3, <1>4, <1>5, <1>6, <1>7 DEF OpenNext, Next, Program

(* Whatever is edited from outside, the three variables keep their types:  *)
(* no write of the store leaves half a document or half a record.          *)
THEOREM TypeCorrectOpen == OpenSpec => []TypeOK
<1>1. Init => TypeOK
  BY DEF Init, TypeOK
<1> QED BY <1>1, TypeStep, PTL DEF OpenSpec

(* The same of a store nobody else edits. *)
THEOREM TypeCorrect == Spec => []TypeOK
<1>1. Init => TypeOK
  BY DEF Init, TypeOK
<1>2. TypeOK /\ [Next]_vars => TypeOK'
  BY TypeStep DEF OpenNext
<1> QED BY <1>1, <1>2, PTL DEF Spec

-----------------------------------------------------------------------------
(* Crashes only *)

(* Every step keeps the inductive invariant: each action establishes what  *)
(* the next control point relies on, and a crash only forgets.             *)
LEMMA InvStep == TypeOK /\ JournalInv /\ [Next]_vars => JournalInv'
<1> SUFFICES ASSUME TypeOK, JournalInv, [Next]_vars PROVE JournalInv'
  OBVIOUS
<1> USE DEF JournalInv
<1>1. ASSUME NEW id \in Ids, NEW source \in Digests,
             Initialize(NewState(id, source))
      PROVE  JournalInv'
  <2>1. NewState(id, source) # None
    BY NewStateTyped, SentinelsAssumption
  <2> QED BY <1>1, <2>1 DEF Initialize, PendingOneSide
<1>2. ASSUME NEW s \in Mutations, TransactBegin(s)
      PROVE  JournalInv'
  <2> DEFINE after == Successor(project, s)
  <2>1. ValidTransition(project, after)
    BY <1>2 DEF TransactBegin
  <2>2. project \in States /\ after \in States
    BY <2>1, TransitionSides
  <2>3. after.revision = project.revision + 1
    BY <2>2, JournalAssumption DEF Successor, States
  <2>4. Sound([before |-> project, after |-> after])
    BY <2>1, <2>2, <2>3 DEF Sound, Records
  <2>5. /\ tx'.pc = "prepare"
        /\ tx'.before = project /\ tx'.after = after
        /\ project' = project /\ journal' = None
    BY <1>2 DEF TransactBegin
  <2> QED BY <2>4, <2>5, <1>2 DEF PendingOneSide, TransactBegin
<1>3. CASE Prepare
  <2>1. tx \in [pc : Running, before : States, after : States]
    BY <1>3 DEF Prepare, TypeOK, Idle
  <2>2. /\ tx'.pc = "compare" /\ tx'.before = tx.before /\ tx'.after = tx.after
        /\ project' = project
        /\ journal' = [before |-> tx.before, after |-> tx.after]
    BY <1>3, <2>1 DEF Prepare
  <2>3. Sound(journal') /\ project' = journal'.before
    BY <1>3, <2>2 DEF Prepare
  <2>4. journal' # None
    BY <2>3, SoundSides
  <2>5. PendingOneSide'
    BY <2>3 DEF PendingOneSide
  <2>6. project # None
    BY <1>3, <2>1, SentinelsAssumption DEF Prepare
  <2> QED BY <1>3, <2>2, <2>4, <2>5, <2>6 DEF Prepare
<1>4. CASE Compare
  <2>1. tx \in [pc : Running, before : States, after : States]
    BY <1>4 DEF Compare, TypeOK, Idle
  <2>2. tx'.pc = "apply" /\ tx'.before = tx.before /\ tx'.after = tx.after
    BY <1>4, <2>1 DEF Compare
  <2>3. journal # None
    BY <1>4, <2>1, JournalAssumption DEF Compare, Records
  <2> QED BY <1>4, <2>2, <2>3 DEF Compare, PendingOneSide
<1>5. CASE Apply
  <2>1. tx \in [pc : Running, before : States, after : States]
    BY <1>5 DEF Apply, TypeOK, Idle
  <2>2. tx'.pc = "clear" /\ project' = journal.after /\ journal' = journal
    BY <1>5, <2>1 DEF Apply
  <2>3. Sound(journal) /\ journal # None
    BY <1>5 DEF Apply, PendingOneSide
  <2>4. ValidState(journal.after) /\ journal.after # None
    BY <2>3, SoundSides, SentinelsAssumption
  <2> QED BY <2>2, <2>3, <2>4 DEF PendingOneSide
<1>6. CASE Clear
  <2>1. tx \in [pc : Running, before : States, after : States]
    BY <1>6 DEF Clear, TypeOK, Idle
  <2>2. tx'.pc = "done" /\ journal' = None /\ project' = project
    BY <1>6, <2>1 DEF Clear
  <2> QED BY <1>6, <2>2 DEF PendingOneSide
<1>7. CASE Recover
  <2>1. Sound(journal) /\ journal # None
    BY <1>7, SoundSides DEF Recover, RollForward, FinishClear
  <2>2. UNCHANGED <<project, journal>>
    BY <1>7 DEF Recover, RollForward, FinishClear
  <2>3. \/ tx'.pc = "apply" /\ tx'.after = journal.after
           /\ project = journal.before
        \/ tx'.pc = "clear" /\ project = journal.after
    BY <1>7 DEF Recover, RollForward, FinishClear
  <2> QED BY <2>1, <2>2, <2>3 DEF PendingOneSide
<1>8. CASE Return \/ Crash
  BY <1>8 DEF Return, Crash, Idle, PendingOneSide
<1>9. CASE UNCHANGED vars
  BY <1>9 DEF vars, PendingOneSide
<1> QED
  BY <1>1, <1>2, <1>3, <1>4, <1>5, <1>6, <1>7, <1>8, <1>9
     DEF Next, Program, Step

LEMMA InvInit == Init => TypeOK /\ JournalInv
BY DEF Init, TypeOK, JournalInv, Idle, PendingOneSide

(* A crash at any control point leaves a sound record and project.json on  *)
(* one of its sides (StateStore.recover never needs an operator then).     *)
THEOREM InvHolds == Spec => [](TypeOK /\ JournalInv)
<1>1. TypeOK /\ JournalInv /\ [Next]_vars => (TypeOK /\ JournalInv)'
  BY TypeStep, InvStep DEF OpenNext
<1> QED BY <1>1, InvInit, PTL DEF Spec

THEOREM PendingOneSideHolds == Spec => []PendingOneSide
<1>1. JournalInv => PendingOneSide
  BY DEF JournalInv
<1> QED BY <1>1, InvHolds, PTL

(* The abstract module's documents are the store's. *)
LEMMA SameDefinitions ==
  /\ \A s : ValidState(s) <=> Abstract!ValidState(s)
  /\ \A s, t : ValidTransition(s, t) <=> Abstract!ValidTransition(s, t)
BY DEF ValidTransition, Abstract!ValidTransition,
       ValidState, Abstract!ValidState, Follows, Abstract!Follows,
       ImmutableKept, Abstract!ImmutableKept,
       EvidenceKept, Abstract!EvidenceKept,
       States, Abstract!States, ValidMaster, Abstract!ValidMaster,
       ValidQa, Abstract!ValidQa, Stages, Abstract!Stages,
       Built, Abstract!Built, Evidence, Abstract!Evidence,
       NextStage, Abstract!NextStage, Opt, Abstract!Opt,
       Masters, Abstract!Masters, Qas, Abstract!Qas

(* Writing the record commits, replacing project.json publishes, and every *)
(* other step of the program, crash or recovery is invisible.              *)
LEMMA RefinementStep ==
  TypeOK /\ JournalInv /\ [Next]_vars => [Abstract!Next]_(Abstract!lvars)
<1> SUFFICES ASSUME TypeOK, JournalInv, [Next]_vars
             PROVE  \/ Abstract!Next
                    \/ Committed' = Committed /\ project' = project
  BY DEF Abstract!lvars
<1> USE DEF JournalInv
<1>1. ASSUME NEW id \in Ids, NEW source \in Digests,
             Initialize(NewState(id, source))
      PROVE  Abstract!Register
  <2>1. Committed = None /\ Committed' = project'
    BY <1>1 DEF Initialize, Committed
  <2>2. project' = NewState(id, source) /\ ValidState(project')
    BY <1>1 DEF Initialize
  <2>3. Abstract!ValidState(Committed')
    BY <2>1, <2>2, SameDefinitions
  <2>4. project' = Abstract!NewState(project'.content_id, project'.source)
    BY <2>2 DEF NewState, Abstract!NewState
  <2> QED BY <2>1, <2>3, <2>4 DEF Abstract!Register
<1>2. CASE Prepare
  <2>1. Sound([before |-> tx.before, after |-> tx.after])
    BY <1>2 DEF Prepare
  <2>2. journal' # None
    BY <2>1, <1>2, SoundSides DEF Prepare
  <2>3. Committed = project /\ project = tx.before
    BY <1>2 DEF Prepare, Committed
  <2>4. Committed' = tx.after /\ project' = project
    BY <1>2, <2>2 DEF Prepare, Committed
  <2>5. /\ ValidTransition(tx.before, tx.after)
        /\ tx.after.revision = tx.before.revision + 1
    BY <2>1 DEF Sound
  <2>6. Abstract!ValidTransition(Committed, Committed')
    BY <2>3, <2>4, <2>5, SameDefinitions
  <2>7. Abstract!Commit
    BY <2>3, <2>4, <2>5, <2>6 DEF Abstract!Commit
  <2> QED BY <2>7 DEF Abstract!Next
<1>3. CASE Apply
  <2>1. tx \in [pc : Running, before : States, after : States]
    BY <1>3 DEF Apply, TypeOK, Idle
  <2>2. Abstract!Publish
    BY <1>3, <2>1 DEF Apply, Abstract!Publish, Committed
  <2> QED BY <2>2 DEF Abstract!Next
<1>4. CASE Clear
  BY <1>4 DEF Clear, Committed
<1>5. ASSUME \/ \E s \in Mutations : TransactBegin(s)
             \/ Compare \/ Recover \/ Return \/ Crash \/ UNCHANGED vars
      PROVE  UNCHANGED <<project, journal>>
  BY <1>5 DEF TransactBegin, Compare, Recover, RollForward, FinishClear,
              Return, Crash, vars
<1>6. UNCHANGED <<project, journal>>
        => Committed' = Committed /\ project' = project
  BY DEF Committed
<1> QED
  BY <1>1, <1>2, <1>3, <1>4, <1>5, <1>6
     DEF Next, Program, Step, Abstract!Next

(* The store implements the lifecycle, whatever the number of crashes.     *)
THEOREM Refinement == Spec => ImplementsLifecycle
<1>1. Init => Abstract!Init
  BY DEF Init, Abstract!Init, Committed
<1> QED
  BY <1>1, RefinementStep, InvHolds, PTL
     DEF Spec, ImplementsLifecycle, Abstract!Spec

-----------------------------------------------------------------------------
(* Outside edits *)

(* What a running program may still rely on when the files are edited: its *)
(* locals are a lawful transition, and from the comparison to the write    *)
(* project.json is what was compared.                                      *)
TxSound ==
  /\ tx.pc \in {"prepare", "compare", "apply"}
       => Sound([before |-> tx.before, after |-> tx.after])
  /\ tx.pc = "apply" => project = tx.before

LEMMA TxSoundStep ==
  ASSUME "apply" \notin EditPcs
  PROVE  TypeOK /\ TxSound /\ [OpenNext]_vars => TxSound'
<1> SUFFICES ASSUME TypeOK, TxSound, [OpenNext]_vars PROVE TxSound'
  OBVIOUS
<1>1. ASSUME NEW id \in Ids, NEW source \in Digests,
             Initialize(NewState(id, source))
      PROVE  TxSound'
  BY <1>1 DEF Initialize, TxSound
<1>2. ASSUME NEW s \in Mutations, TransactBegin(s)
      PROVE  TxSound'
  <2> DEFINE after == Successor(project, s)
  <2>1. ValidTransition(project, after)
    BY <1>2 DEF TransactBegin
  <2>2. project \in States /\ after \in States
    BY <2>1, TransitionSides
  <2>3. after.revision = project.revision + 1
    BY <2>2, JournalAssumption DEF Successor, States
  <2>4. Sound([before |-> project, after |-> after])
    BY <2>1, <2>2, <2>3 DEF Sound, Records
  <2>5. tx'.pc = "prepare" /\ tx'.before = project /\ tx'.after = after
    BY <1>2 DEF TransactBegin
  <2> QED BY <2>4, <2>5 DEF TxSound
<1>3. CASE Prepare \/ Compare
  <2>1. tx \in [pc : Running, before : States, after : States]
    BY <1>3 DEF Prepare, Compare, TypeOK, Idle
  <2>2. /\ tx'.before = tx.before /\ tx'.after = tx.after
        /\ project' = project
        /\ tx'.pc = "apply" => project = tx.before
    BY <1>3, <2>1 DEF Prepare, Compare
  <2>3. Sound([before |-> tx.before, after |-> tx.after])
    BY <1>3 DEF Prepare, Compare, TxSound
  <2> QED BY <2>2, <2>3 DEF TxSound
<1>4. CASE Apply \/ Clear
  <2>1. tx \in [pc : Running, before : States, after : States]
    BY <1>4 DEF Apply, Clear, TypeOK, Idle
  <2>2. tx'.pc \in {"clear", "done", "failed"}
    BY <1>4, <2>1 DEF Apply, Clear
  <2> QED BY <2>2 DEF TxSound
<1>5. CASE Recover
  <2>1. Sound(journal) /\ journal \in Records
    BY <1>5, SoundSides DEF Recover, RollForward, FinishClear
  <2>2. [before |-> journal.before, after |-> journal.after] = journal
    BY <2>1 DEF Records
  <2>3. /\ tx'.before = journal.before /\ tx'.after = journal.after
        /\ tx'.pc = "apply" => project' = journal.before
    BY <1>5 DEF Recover, RollForward, FinishClear
  <2> QED BY <2>1, <2>2, <2>3 DEF TxSound
<1>6. CASE Return \/ Crash
  BY <1>6 DEF Return, Crash, Idle, TxSound
<1>7. CASE EditProject
  BY <1>7 DEF EditProject, TxSound
<1>8. CASE EditJournal \/ UNCHANGED vars
  BY <1>8 DEF EditJournal, vars, TxSound
<1> QED
  BY <1>1, <1>2, <1>3, <1>4, <1>5, <1>6, <1>7, <1>8
     DEF OpenNext, Next, Program, Step

(* The compare-and-swap: wherever outside edits fall but between the       *)
(* comparison and the write, the store only ever replaces an existing      *)
(* project.json by its lawful successor.                                   *)
THEOREM StepsAreTransitions ==
  ASSUME "apply" \notin EditPcs
  PROVE  OpenSpec => ProgramStepsAreTransitions
<1>1. Init => TypeOK /\ TxSound
  BY DEF Init, TypeOK, TxSound, Idle
<1>2. TypeOK /\ TxSound /\ [OpenNext]_vars => (TypeOK /\ TxSound)'
  BY TypeStep, TxSoundStep
<1>3. TypeOK /\ TxSound /\ [OpenNext]_vars
        => [Program /\ project # None /\ project' # project
              => /\ ValidTransition(project, project')
                 /\ project'.revision = project.revision + 1]_vars
  <2> SUFFICES ASSUME TypeOK, TxSound, Program,
                      project # None, project' # project
               PROVE  /\ ValidTransition(project, project')
                      /\ project'.revision = project.revision + 1
    OBVIOUS
  <2>1. Apply
    BY DEF Program, Initialize, TransactBegin, Step, Prepare, Compare, Clear,
           Recover, RollForward, FinishClear, Return
  <2>2. tx \in [pc : Running, before : States, after : States]
    BY <2>1 DEF Apply, TypeOK, Idle
  <2>3. /\ project = tx.before /\ project' = tx.after
        /\ Sound([before |-> tx.before, after |-> tx.after])
    BY <2>1 DEF Apply, TxSound
  <2> QED BY <2>3 DEF Sound
<1> QED BY <1>1, <1>2, <1>3, PTL DEF OpenSpec, ProgramStepsAreTransitions

(* A running program owns the record: nobody edits journal.json meanwhile, *)
(* so from the prepare on it is the program's own transition, and when it  *)
(* is about to be cleared project.json shows its target.                   *)
RecordOwned ==
  /\ tx.pc = "prepare" => journal = None
  /\ tx.pc \in {"compare", "apply", "clear"}
       => journal = [before |-> tx.before, after |-> tx.after]
  /\ tx.pc = "clear" => project = tx.after

LEMMA RecordOwnedStep ==
  ASSUME "clear" \notin EditPcs
  PROVE  TypeOK /\ RecordOwned /\ [OpenNext]_vars => RecordOwned'
<1> SUFFICES ASSUME TypeOK, RecordOwned, [OpenNext]_vars PROVE RecordOwned'
  OBVIOUS
<1>1. CASE Step
  <2>1. tx \in [pc : Running, before : States, after : States]
    BY <1>1 DEF Step, Prepare, Compare, Apply, Clear, TypeOK, Idle
  <2>2. CASE Prepare
    BY <2>1, <2>2 DEF Prepare, RecordOwned
  <2>3. CASE Compare
    BY <2>1, <2>3 DEF Compare, RecordOwned
  <2>4. CASE Apply
    BY <2>1, <2>4 DEF Apply, RecordOwned
  <2>5. CASE Clear
    BY <2>1, <2>5 DEF Clear, RecordOwned
  <2> QED BY <1>1, <2>2, <2>3, <2>4, <2>5 DEF Step
<1>2. CASE Recover
  <2>1. Sound(journal) /\ journal \in Records
    BY <1>2, SoundSides DEF Recover, RollForward, FinishClear
  <2>2. [before |-> journal.before, after |-> journal.after] = journal
    BY <2>1 DEF Records
  <2> QED BY <1>2, <2>2 DEF Recover, RollForward, FinishClear, RecordOwned
<1>3. CASE \/ \E id \in Ids, source \in Digests : Initialize(NewState(id, source))
           \/ \E s \in Mutations : TransactBegin(s)
  BY <1>3 DEF Initialize, TransactBegin, RecordOwned
<1>4. CASE Return \/ Crash
  BY <1>4 DEF Return, Crash, Idle, RecordOwned
<1>5. CASE EditProject \/ EditJournal \/ UNCHANGED vars
  BY <1>5 DEF EditProject, EditJournal, vars, RecordOwned
<1> QED
  BY <1>1, <1>2, <1>3, <1>4, <1>5 DEF OpenNext, Next, Program

(* transact and recover unlink a record only when project.json shows its   *)
(* target: a commit that was journalled is never forgotten, whatever is    *)
(* edited before the last write.                                           *)
THEOREM RecordsClearedWhenApplied ==
  ASSUME "clear" \notin EditPcs
  PROVE  OpenSpec => RecordClearedOnlyWhenApplied
<1>1. Init => TypeOK /\ RecordOwned
  BY DEF Init, TypeOK, RecordOwned, Idle
<1>2. TypeOK /\ RecordOwned /\ [OpenNext]_vars => (TypeOK /\ RecordOwned)'
  BY TypeStep, RecordOwnedStep
<1>3. TypeOK /\ RecordOwned /\ [OpenNext]_vars
        => [Program /\ journal # None /\ journal' = None
              => journal \in Records /\ project = journal.after]_vars
  <2> SUFFICES ASSUME TypeOK, RecordOwned, Program,
                      journal # None, journal' = None
               PROVE  journal \in Records /\ project = journal.after
    OBVIOUS
  <2>1. CASE Clear
    <3>1. tx \in [pc : Running, before : States, after : States]
      BY <2>1 DEF Clear, TypeOK, Idle
    <3> QED BY <2>1, <3>1 DEF Clear, RecordOwned, Records
  <2>2. CASE Prepare
    BY <2>2 DEF Prepare, RecordOwned
  <2> QED
    BY <2>1, <2>2 DEF Program, Initialize, TransactBegin, Step, Compare, Apply,
                      Recover, RollForward, FinishClear, Return
<1> QED BY <1>1, <1>2, <1>3, PTL DEF OpenSpec, RecordClearedOnlyWhenApplied

(* What an operator has to look at is left as it was found: no step of the *)
(* store touches either file while the record is corrupt or has            *)
(* project.json on neither side.                                           *)
THEOREM AmbiguityPreserved ==
  ASSUME "apply" \notin EditPcs, "clear" \notin EditPcs
  PROVE  OpenSpec => AmbiguousUntouched
<1> DEFINE Inv == TypeOK /\ TxSound /\ RecordOwned
<1>1. Init => Inv
  BY DEF Init, TypeOK, TxSound, RecordOwned, Idle
<1>2. Inv /\ [OpenNext]_vars => Inv'
  BY TypeStep, TxSoundStep, RecordOwnedStep
<1>3. Inv /\ [OpenNext]_vars
        => [Program /\ Ambiguous => UNCHANGED <<project, journal>>]_vars
  <2> SUFFICES ASSUME Inv, Program, Ambiguous
               PROVE  UNCHANGED <<project, journal>>
    OBVIOUS
  <2>1. ~ Prepare
    BY DEF Prepare, RecordOwned, Ambiguous
  <2>2. ~ (Apply \/ Clear)
    <3> SUFFICES ASSUME Apply \/ Clear PROVE FALSE
      OBVIOUS
    <3>1. tx \in [pc : Running, before : States, after : States]
      BY DEF Apply, Clear, TypeOK, Idle
    <3>2. /\ journal = [before |-> tx.before, after |-> tx.after]
          /\ journal \in Records
      BY <3>1 DEF Apply, Clear, RecordOwned, Records
    <3>3. project \in {journal.before, journal.after}
      BY <3>2 DEF Apply, Clear, RecordOwned, TxSound
    <3> QED BY <3>2, <3>3 DEF Ambiguous
  <2> QED
    BY <2>1, <2>2 DEF Program, Initialize, TransactBegin, Step, Compare,
                      Recover, RollForward, FinishClear, Return, Ambiguous
<1> QED
  <2>1. OpenSpec => [][Program /\ Ambiguous => UNCHANGED <<project, journal>>]_vars
    BY <1>1, <1>2, <1>3, PTL DEF OpenSpec
  <2> QED BY <2>1 DEF AmbiguousUntouched

-----------------------------------------------------------------------------
(* The disk (Durability) *)

Pairs == [project : States \cup {None}, journal : Records \cup {None}]

Now == [project |-> project, journal |-> journal]

(* What a store at rest may show: nothing, a project, or one with a record. *)
Settled(d) ==
  /\ d \in Pairs
  /\ d.project # None => ValidState(d.project)
  /\ d.project = None => d.journal = None
  /\ d.journal # None => /\ Sound(d.journal)
                        /\ d.project \in {d.journal.before, d.journal.after}

(* One update of the store: registration, prepare, apply or clear.         *)
Advances(d, e) ==
  \/ /\ d.project = None /\ d.journal = None /\ e.journal = None
     /\ \E id \in Ids, source \in Digests : e.project = NewState(id, source)
  \/ /\ d.project # None /\ d.journal = None /\ e.project = d.project
     /\ Sound(e.journal) /\ e.journal.before = d.project
  \/ /\ d.journal # None /\ d.project = d.journal.before
     /\ e.journal = d.journal /\ e.project = d.journal.after
  \/ /\ d.journal # None /\ d.project = d.journal.after
     /\ e.project = d.project /\ e.journal = None

(* The stores from the disk's to the one programs see, an update each.     *)
Leads(path) ==
  /\ Len(path) = Len(queue) + 1
  /\ path[1] = disk /\ path[Len(queue) + 1] = Now
  /\ \A k \in 1..(Len(queue) + 1) : Settled(path[k])
  /\ \A k \in 1..Len(queue) :
       /\ Advances(path[k], path[k + 1])
       /\ path[k + 1] = [path[k] EXCEPT ![queue[k].name] = queue[k].document]

PathInv == HeldTogether => \E path \in Seq(Pairs) : Leads(path)

Updated == [name : {"project"}, document : States]
           \cup [name : {"journal"}, document : Records \cup {None}]

DiskTypeOK ==
  /\ ordered \in BOOLEAN
  /\ disk \in Pairs
  /\ queue \in Seq(Updated)
  /\ syncing \in BOOLEAN
  /\ told \in Nat \cup {-1} /\ acked \in Nat \cup {-1}
  /\ kills \in Nat

(* A command that is done has synced, and without kills a program syncs     *)
(* each update before the next.                                            *)
SyncInv ==
  /\ syncing \/ tx.pc # "idle" => project # None
  /\ tx.pc = "done" /\ ~syncing => queue = <<>>
  /\ kills = 0 => Len(queue) <= 1 /\ (queue # <<>> => syncing)

(* An entry is the program's once nothing of its name is queued.           *)
FinalInv ==
  \A n \in {"project", "journal"} :
    \/ \E i \in 1..Len(queue) : queue[i].name = n
    \/ disk[n] = Now[n]

LastInv ==
  \A i \in 1..Len(queue) :
    \/ \E j \in (i + 1)..Len(queue) : queue[j].name = queue[i].name
    \/ queue[i].document = Now[queue[i].name]

(* No older document than the reported one is left anywhere.               *)
NewProject(d) == d # None /\ d.revision >= acked

NewJournal(r) == r # None => r.after.revision >= acked

AckedInv ==
  acked >= 0 =>
    /\ NewProject(project) /\ NewProject(disk.project)
    /\ NewJournal(journal) /\ NewJournal(disk.journal)
    /\ \A i \in 1..Len(queue) :
         /\ queue[i].name = "project" => NewProject(queue[i].document)
         /\ queue[i].name = "journal" => NewJournal(queue[i].document)

(* Until a kill leaves updates queued, every report is of what is on disk.  *)
ToldInv == kills = 0 => told <= acked

DurableInv ==
  /\ TypeOK /\ JournalInv
  /\ DiskTypeOK /\ SyncInv /\ FinalInv /\ LastInv /\ AckedInv /\ ToldInv /\ PathInv

(* Every step of the store makes at most one update, from one settled       *)
(* store to another.                                                       *)
LEMMA StoreAdvances ==
  ASSUME TypeOK, JournalInv, [Next]_vars
  PROVE  /\ TypeOK' /\ JournalInv'
         /\ \/ UNCHANGED <<project, journal>>
            \/ project' # project /\ journal' = journal /\ Advances(Now, Now')
            \/ project' = project /\ journal' # journal /\ Advances(Now, Now')
<1>1. TypeOK'
  BY TypeStep DEF OpenNext
<1>2. JournalInv'
  BY InvStep
<1>3. /\ Now.project = project /\ Now.journal = journal
      /\ Now'.project = project' /\ Now'.journal = journal'
  BY DEF Now
<1>4. ASSUME NEW id \in Ids, NEW source \in Digests,
             Initialize(NewState(id, source))
      PROVE  project' # project /\ journal' = journal /\ Advances(Now, Now')
  <2>1. NewState(id, source) # None
    BY NewStateTyped, SentinelsAssumption
  <2> QED BY <1>3, <1>4, <2>1 DEF Initialize, Advances
<1>5. ASSUME Prepare
      PROVE  project' = project /\ journal' # journal /\ Advances(Now, Now')
  <2>1. /\ journal = None /\ project = tx.before /\ project' = project
        /\ journal' = [before |-> tx.before, after |-> tx.after] /\ Sound(journal')
    BY <1>5 DEF Prepare, JournalInv
  <2>2. journal' # None /\ project # None /\ journal'.before = project
    BY <2>1, SoundSides, SentinelsAssumption
  <2> QED BY <1>3, <2>1, <2>2 DEF Advances
<1>6. ASSUME Apply
      PROVE  project' # project /\ journal' = journal /\ Advances(Now, Now')
  <2>1. /\ journal # None /\ journal.after = tx.after /\ project = journal.before
        /\ project' = tx.after /\ journal' = journal /\ Sound(journal)
    BY <1>6 DEF Apply, JournalInv, PendingOneSide
  <2>2. journal.before # journal.after
    BY <2>1, SoundSides
  <2> QED BY <1>3, <2>1, <2>2 DEF Advances
<1>7. ASSUME Clear
      PROVE  project' = project /\ journal' # journal /\ Advances(Now, Now')
  <2>1. /\ journal # None /\ project = journal.after
        /\ project' = project /\ journal' = None
    BY <1>7 DEF Clear, JournalInv
  <2> QED BY <1>3, <2>1 DEF Advances
<1>8. ASSUME \/ \E s \in Mutations : TransactBegin(s)
             \/ Compare \/ Recover \/ Return \/ Crash \/ UNCHANGED vars
      PROVE  UNCHANGED <<project, journal>>
  BY <1>8 DEF TransactBegin, Compare, Recover, RollForward, FinishClear,
              Return, Crash, vars
<1> QED
  BY <1>1, <1>2, <1>4, <1>5, <1>6, <1>7, <1>8 DEF Next, Program, Step

LEMMA NowSettled == TypeOK /\ JournalInv => Settled(Now)
<1> SUFFICES ASSUME TypeOK, JournalInv PROVE Settled(Now)
  OBVIOUS
<1>1. project \in States \cup {None} /\ journal \in Records \cup {None}
  BY DEF TypeOK, JournalInv, PendingOneSide, Sound, ValidState
<1> QED BY <1>1 DEF Settled, Now, Pairs, JournalInv, PendingOneSide

LEMMA AppendOne ==
  ASSUME NEW S, NEW q \in Seq(S), NEW e \in S
  PROVE  q \o <<e>> = Append(q, e)
OBVIOUS

(* A step of a program, with its update queued. *)
Queues ==
  /\ ~syncing
  /\ queue' = queue \o Updates
  /\ syncing' = (Updates # <<>>)
  /\ UNCHANGED <<ordered, disk, told, acked, kills>>

Grows(e) ==
  /\ queue' = Append(queue, e) /\ syncing' = TRUE
  /\ Now' = [Now EXCEPT ![e.name] = e.document]
  /\ Advances(Now, Now')

LEMMA QueuedUpdate ==
  ASSUME TypeOK, JournalInv, DiskTypeOK, [Next]_vars, Queues
  PROVE  \/ UNCHANGED <<project, journal, queue, syncing>>
         \/ \E e \in Updated : Grows(e)
<1>0. /\ project' \in States \cup {None} /\ journal' \in Records \cup {None}
      /\ project' = None => project = None
  <2>1. Settled(Now)'
    BY StoreAdvances, NowSettled, PTL
  <2>2. project' = None => project = None
    BY StoreAdvances, NewStateTyped, SentinelsAssumption, SoundSides
       DEF Advances, Now, JournalInv, PendingOneSide
  <2> QED BY <2>1, <2>2 DEF Settled, Now, Pairs
<1>1. CASE UNCHANGED <<project, journal>>
  <2>1. Updates = <<>>
    BY <1>1 DEF Updates
  <2> QED BY <1>1, <2>1 DEF Queues, DiskTypeOK
<1>2. CASE project' # project /\ journal' = journal /\ Advances(Now, Now')
  <2> DEFINE e == Entry("project", project')
  <2>1. Updates = <<e>>
    BY <1>2 DEF Updates
  <2>2. e \in Updated /\ e.name = "project" /\ e.document = project'
    BY <1>0, <1>2 DEF Entry, Updated
  <2> HIDE DEF e
  <2>3. queue' = queue \o <<e>> /\ syncing' = (<<e>> # <<>>)
    BY <2>1 DEF Queues
  <2>4. queue' = Append(queue, e) /\ syncing' = TRUE
    <3>1. queue \o <<e>> = Append(queue, e)
      BY <2>2, AppendOne DEF DiskTypeOK
    <3>2. <<e>> # <<>>
      OBVIOUS
    <3> QED BY <2>3, <3>1, <3>2
  <2>5. Now' = [Now EXCEPT ![e.name] = e.document]
    BY <1>2, <2>2 DEF Now
  <2> QED BY <1>2, <2>2, <2>4, <2>5 DEF Grows
<1>3. CASE project' = project /\ journal' # journal /\ Advances(Now, Now')
  <2> DEFINE e == Entry("journal", journal')
  <2>1. Updates = <<e>>
    BY <1>3 DEF Updates
  <2>2. e \in Updated /\ e.name = "journal" /\ e.document = journal'
    BY <1>0 DEF Entry, Updated
  <2> HIDE DEF e
  <2>3. queue' = queue \o <<e>> /\ syncing' = (<<e>> # <<>>)
    BY <2>1 DEF Queues
  <2>4. queue' = Append(queue, e) /\ syncing' = TRUE
    <3>1. queue \o <<e>> = Append(queue, e)
      BY <2>2, AppendOne DEF DiskTypeOK
    <3>2. <<e>> # <<>>
      OBVIOUS
    <3> QED BY <2>3, <3>1, <3>2
  <2>5. Now' = [Now EXCEPT ![e.name] = e.document]
    BY <1>3, <2>2 DEF Now
  <2> QED BY <1>3, <2>2, <2>4, <2>5 DEF Grows
<1> QED BY <1>1, <1>2, <1>3, StoreAdvances

LEMMA DurableSteps ==
  ASSUME TypeOK, [DurableNext]_durableVars
  PROVE  \/ Queues /\ [Next]_vars /\ (tx'.pc = "done" => Clear)
         \/ DirectorySynced \/ Report \/ ReportUnchanged \/ Kill \/ PowerLoss
         \/ \E i \in DOMAIN queue : Writeback(i)
         \/ UNCHANGED durableVars
<1> DEFINE Settles == Queues /\ [Next]_vars /\ (tx'.pc = "done" => Clear)
<1>1. ASSUME NEW id \in Ids, NEW source \in Digests,
             Update(Initialize(NewState(id, source)))
      PROVE  Settles
  BY <1>1 DEF Update, Queues, Next, Program, Initialize
<1>2. ASSUME NEW s \in Mutations, Update(TransactBegin(s))
      PROVE  Settles
  BY <1>2 DEF Update, Queues, Next, Program, TransactBegin
<1>3. ASSUME Update(Step) PROVE Settles
  <2>1. Queues /\ Step /\ Next
    BY <1>3 DEF Update, Queues, Next, Program
  <2>2. tx'.pc = "done" => Clear
    BY <2>1 DEF Step, Prepare, Compare, Apply, TypeOK, Idle
  <2> QED BY <2>1, <2>2
<1>4. ASSUME Update(Recover) PROVE Settles
  BY <1>4 DEF Update, Queues, Next, Program, Recover, RollForward, FinishClear
<1> QED BY <1>1, <1>2, <1>3, <1>4 DEF DurableNext

LEMMA Concatenated ==
  ASSUME NEW S, NEW a \in Seq(S), NEW b \in Seq(S)
  PROVE  /\ a \o b \in Seq(S) /\ Len(a \o b) = Len(a) + Len(b)
         /\ \A k \in 1..Len(a) : (a \o b)[k] = a[k]
         /\ \A k \in 1..Len(b) : (a \o b)[Len(a) + k] = b[k]
OBVIOUS

LEMMA RemoveAtFacts ==
  ASSUME NEW S, NEW q \in Seq(S), NEW i \in 1..Len(q)
  PROVE  /\ RemoveAt(q, i) \in Seq(S)
         /\ Len(RemoveAt(q, i)) = Len(q) - 1
         /\ \A k \in 1..(Len(q) - 1) :
              RemoveAt(q, i)[k] = IF k < i THEN q[k] ELSE q[k + 1]
<1> DEFINE a == SubSeq(q, 1, i - 1)
           b == SubSeq(q, i + 1, Len(q))
<1>1. /\ a \in Seq(S) /\ Len(a) = i - 1
      /\ \A k \in 1..(i - 1) : a[k] = q[k]
  OBVIOUS
<1>2. /\ b \in Seq(S) /\ Len(b) = Len(q) - i
      /\ \A k \in 1..(Len(q) - i) : b[k] = q[i + k]
  OBVIOUS
<1>3. RemoveAt(q, i) = a \o b
  BY DEF RemoveAt
<1> HIDE DEF a, b
<1>0. i \in Int /\ Len(q) \in Nat /\ 1 <= i /\ i <= Len(q)
  OBVIOUS
<1> DEFINE c == a \o b
<1>4. a \in Seq(S) /\ b \in Seq(S)
  BY <1>1, <1>2
<1>5. /\ c \in Seq(S) /\ Len(c) = Len(a) + Len(b)
      /\ \A k \in 1..Len(a) : c[k] = a[k]
      /\ \A k \in 1..Len(b) : c[Len(a) + k] = b[k]
  <2> HIDE DEF c
  <2> SUFFICES /\ a \o b \in Seq(S) /\ Len(a \o b) = Len(a) + Len(b)
               /\ \A k \in 1..Len(a) : (a \o b)[k] = a[k]
               /\ \A k \in 1..Len(b) : (a \o b)[Len(a) + k] = b[k]
    BY DEF c
  <2> QED BY <1>4, Concatenated
<1>6. RemoveAt(q, i) = c
  BY <1>3
<1> HIDE DEF c
<1>7. Len(c) = Len(q) - 1
  BY <1>0, <1>1, <1>2, <1>5
<1>8. ASSUME NEW k \in 1..(Len(q) - 1)
      PROVE  c[k] = IF k < i THEN q[k] ELSE q[k + 1]
  <2>0. k \in Int /\ 1 <= k /\ k <= Len(q) - 1
    BY <1>0
  <2>1. CASE k < i
    <3>1. k \in 1..(i - 1)
      BY <1>0, <2>0, <2>1
    <3>2. c[k] = a[k] /\ a[k] = q[k]
      BY <1>1, <1>5, <3>1
    <3> QED BY <2>1, <3>2
  <2>2. CASE k >= i
    <3> DEFINE m == k - (i - 1)
    <3>1. m \in 1..Len(b) /\ i + m = k + 1 /\ Len(a) + m = k /\ ~(k < i)
      BY <1>0, <1>1, <1>2, <2>0, <2>2
    <3> HIDE DEF m
    <3>2. c[Len(a) + m] = b[m]
      BY <1>5, <3>1, Zenon
    <3> QED BY <1>2, <3>1, <3>2
  <2>3. k < i \/ k >= i
    BY <1>0, <2>0
  <2> QED BY <2>1, <2>2, <2>3
<1> QED BY <1>5, <1>6, <1>7, <1>8

(* Nothing that follows a store is older than it. *)
LEMMA NewerAdvances ==
  ASSUME NEW d, NEW e, Settled(d), Settled(e), Advances(d, e), acked \in Nat,
         NewProject(d.project), NewJournal(d.journal)
  PROVE  NewProject(e.project) /\ NewJournal(e.journal)
<1>1. CASE /\ d.project # None /\ d.journal = None /\ e.project = d.project
           /\ Sound(e.journal) /\ e.journal.before = d.project
  <2>1. e.journal.after.revision = d.project.revision + 1
    BY <1>1 DEF Sound
  <2>2. d.project.revision \in Nat
    BY <1>1 DEF Settled, Pairs, States
  <2> QED BY <1>1, <2>1, <2>2 DEF NewProject, NewJournal
<1>2. CASE /\ d.journal # None /\ d.project = d.journal.before
           /\ e.journal = d.journal /\ e.project = d.journal.after
  <2>1. d.journal.after # None
    BY <1>2, SoundSides, SentinelsAssumption DEF Settled
  <2> QED BY <1>2, <2>1 DEF NewProject, NewJournal
<1>3. CASE /\ d.journal # None /\ d.project = d.journal.after
           /\ e.project = d.project /\ e.journal = None
  BY <1>3 DEF NewProject, NewJournal
<1>4. d.project # None
  BY DEF NewProject
<1> QED BY <1>1, <1>2, <1>3, <1>4 DEF Advances

(* Recovery would leave nothing older than what project.json shows. *)
LEMMA JournalAhead ==
  ASSUME TypeOK, JournalInv, project # None
  PROVE  /\ project.revision \in Nat
         /\ journal # None => journal.after.revision >= project.revision
<1>1. Settled(Now) /\ Now.project = project /\ Now.journal = journal
  BY NowSettled DEF Now
<1>2. project.revision \in Nat
  BY <1>1 DEF Settled, Pairs, States
<1>3. ASSUME journal # None PROVE journal.after.revision >= project.revision
  <2>1. /\ Sound(journal) /\ project \in {journal.before, journal.after}
    BY <1>1, <1>3 DEF Settled
  <2>2. /\ journal.after.revision = journal.before.revision + 1
        /\ journal.before.revision \in Nat
    BY <2>1, SoundSides DEF Sound, States
  <2> QED BY <2>1, <2>2
<1> QED BY <1>2, <1>3

(* Queueing a store's update keeps the invariant: the path grows by one. *)
LEMMA GrowKeeps ==
  ASSUME DurableInv, TypeOK', JournalInv', NEW e \in Updated, Grows(e), ~syncing,
         UNCHANGED <<ordered, disk, told, acked, kills>>
  PROVE  DurableInv'
<1> USE DEF DurableInv
<1>1. /\ queue \in Seq(Updated) /\ queue' \in Seq(Updated)
      /\ Len(queue') = Len(queue) + 1 /\ Len(queue) \in Nat
      /\ queue'[Len(queue) + 1] = e
      /\ \A k \in 1..Len(queue) : queue'[k] = queue[k]
  BY DEF Grows, DiskTypeOK
<1>2. Settled(Now) /\ Settled(Now')
  <2>1. TypeOK /\ JournalInv
    OBVIOUS
  <2>2. Settled(Now)'
    BY NowSettled, PTL
  <2> QED BY <2>1, <2>2, NowSettled DEF Settled, Sound, ValidTransition
<1>3. /\ Now.project = project /\ Now.journal = journal
      /\ Now'.project = project' /\ Now'.journal = journal'
  BY DEF Now
<1>4. e.name \in {"project", "journal"} /\ e.document = Now'[e.name]
      /\ \A n \in {"project", "journal"} : n # e.name => Now'[n] = Now[n]
  <2>1. e.name \in {"project", "journal"}
    BY DEF Updated
  <2>2. Now = [project |-> project, journal |-> journal]
        /\ Now' = [Now EXCEPT ![e.name] = e.document]
    BY DEF Now, Grows
  <2> QED BY <2>1, <2>2
<1>5. DiskTypeOK'
  BY <1>1 DEF DiskTypeOK, Grows
<1>6. SyncInv'
  <2>1. project' # None
    BY <1>2, <1>3, NewStateTyped, SoundSides, SentinelsAssumption
       DEF Grows, Advances, Settled, Pairs
  <2>2. kills' = 0 => Len(queue') <= 1
    BY <1>1 DEF SyncInv
  <2> QED BY <2>1, <2>2 DEF SyncInv, Grows
<1>7. FinalInv'
  <2> SUFFICES ASSUME NEW n \in {"project", "journal"}
               PROVE  \/ \E j \in 1..Len(queue') : queue'[j].name = n
                      \/ disk[n] = Now'[n]
    BY DEF FinalInv
  <2>1. CASE n = e.name
    BY <1>1, <2>1
  <2>2. CASE n # e.name /\ \E j \in 1..Len(queue) : queue[j].name = n
    BY <1>1, <2>2
  <2>3. CASE n # e.name /\ disk[n] = Now[n]
    BY <1>4, <2>3
  <2> QED BY <2>1, <2>2, <2>3 DEF FinalInv
<1>8. LastInv'
  <2> SUFFICES ASSUME NEW k \in 1..Len(queue')
               PROVE  \/ \E j \in (k + 1)..Len(queue') :
                           queue'[j].name = queue'[k].name
                      \/ queue'[k].document = Now'[queue'[k].name]
    BY DEF LastInv
  <2>1. CASE k = Len(queue) + 1
    BY <1>1, <1>4, <2>1
  <2>2. CASE k \in 1..Len(queue) /\ queue[k].name = e.name
    BY <1>1, <2>2
  <2>3. CASE k \in 1..Len(queue) /\ queue[k].name # e.name
    <3>1. queue[k].name \in {"project", "journal"}
      BY <1>1, <2>3 DEF Updated
    <3>2. CASE queue[k].document = Now[queue[k].name]
      BY <1>1, <1>4, <2>3, <3>1, <3>2
    <3>3. CASE \E j \in (k + 1)..Len(queue) : queue[j].name = queue[k].name
      BY <1>1, <2>3, <3>3
    <3> QED BY <2>3, <3>2, <3>3 DEF LastInv
  <2> QED BY <1>1, <2>1, <2>2, <2>3
<1>9. AckedInv'
  <2> SUFFICES ASSUME acked >= 0 PROVE AckedInv'
    BY DEF AckedInv
  <2>1. acked \in Nat
    BY DEF DiskTypeOK
  <2>2. NewProject(Now'.project) /\ NewJournal(Now'.journal)
    BY <1>2, <1>3, <2>1, NewerAdvances DEF AckedInv, Grows
  <2>3. /\ e.name = "project" => NewProject(e.document)
        /\ e.name = "journal" => NewJournal(e.document)
    BY <1>4, <2>2
  <2> QED BY <1>1, <1>3, <2>2, <2>3 DEF AckedInv, NewProject, NewJournal
<1>10. PathInv'
  <2> SUFFICES ASSUME HeldTogether
               PROVE  \E path \in Seq(Pairs) : Leads(path)'
    BY DEF PathInv, HeldTogether
  <2>1. PICK path \in Seq(Pairs) : Leads(path)
    BY DEF PathInv
  <2>2. Now' \in Pairs
    BY <1>2 DEF Settled
  <2>8. Append(path, Now') \in Seq(Pairs)
    BY <2>1, <2>2
  <2>9. PICK new \in Seq(Pairs) : new = Append(path, Now')
    BY <2>8
  <2>3. /\ Len(path) = Len(queue) + 1
        /\ Len(new) = Len(queue) + 2 /\ new[Len(queue) + 2] = Now'
        /\ \A k \in 1..(Len(queue) + 1) : new[k] = path[k]
    BY <1>1, <2>1, <2>2, <2>9 DEF Leads
  <2>4. /\ Len(new) = Len(queue') + 1 /\ new[1] = disk'
        /\ new[Len(queue') + 1] = Now'
    BY <1>1, <2>1, <2>3 DEF Leads
  <2>5. \A k \in 1..(Len(queue') + 1) : Settled(new[k])
    BY <1>1, <1>2, <2>1, <2>3 DEF Leads
  <2>6. ASSUME NEW k \in 1..Len(queue')
        PROVE  /\ Advances(new[k], new[k + 1])
               /\ new[k + 1] = [new[k] EXCEPT ![queue'[k].name] = queue'[k].document]
    <3>1. CASE k \in 1..Len(queue)
      <4>1. /\ new[k] = path[k] /\ new[k + 1] = path[k + 1]
            /\ queue'[k] = queue[k]
        BY <1>1, <2>3, <3>1
      <4>2. /\ Advances(path[k], path[k + 1])
            /\ path[k + 1] = [path[k] EXCEPT ![queue[k].name] = queue[k].document]
        BY <2>1, <3>1 DEF Leads
      <4> QED BY <4>1, <4>2
    <3>2. CASE k = Len(queue) + 1
      <4>1. new[k] = Now /\ new[k + 1] = Now' /\ queue'[k] = e
        BY <1>1, <2>1, <2>3, <3>2 DEF Leads
      <4> QED BY <4>1 DEF Grows
    <3> QED BY <1>1, <3>1, <3>2
  <2>7. Leads(new)'
    BY <2>4, <2>5, <2>6 DEF Leads
  <2> QED BY <2>7
<1>11. ToldInv'
  BY DEF ToldInv
<1> QED BY <1>5, <1>6, <1>7, <1>8, <1>9, <1>10, <1>11

(* A step that touches neither the store nor the disk, reports at most what *)
(* it sees, and of the updates on disk only.                               *)
LEMMA StillKeeps ==
  ASSUME DurableInv, TypeOK', JournalInv',
         UNCHANGED <<project, journal, ordered, disk, queue, syncing, kills>>,
         \/ UNCHANGED <<told, acked>>
         \/ /\ queue # <<>> /\ ~syncing /\ acked' = acked
            /\ told' = project.revision /\ project # None,
         tx'.pc = "done" => tx.pc = "done",
         tx'.pc # "idle" => project # None
  PROVE  DurableInv'
<1> USE DEF DurableInv
<1>1. UNCHANGED Now
  BY DEF Now
<1>2. FinalInv' /\ LastInv' /\ AckedInv'
  BY <1>1 DEF FinalInv, LastInv, AckedInv, NewProject, NewJournal
<1>3. SyncInv'
  BY DEF SyncInv
<1>4. PathInv'
  BY <1>1 DEF PathInv, HeldTogether, Leads
<1>5. DiskTypeOK'
  <2>1. project # None => project.revision \in Nat
    BY JournalAhead
  <2> QED BY <2>1 DEF DiskTypeOK
<1>6. ToldInv'
  BY DEF ToldInv, SyncInv
<1> QED BY <1>2, <1>3, <1>4, <1>5, <1>6

(* Where fsync or the file system holds the updates together, the oldest    *)
(* one is written back, and the path loses its first store.                *)
LEMMA WritebackKeeps ==
  ASSUME DurableInv, NEW i \in DOMAIN queue, Writeback(i)
  PROVE  /\ DurableInv'
         /\ HeldTogether => Settled(disk') /\ Advances(disk, disk')
<1> USE DEF DurableInv
<1> DEFINE n == queue[i].name
<1>1. /\ i \in 1..Len(queue) /\ Len(queue) \in Nat /\ queue \in Seq(Updated)
      /\ n \in {"project", "journal"} /\ queue[i] \in Updated
      /\ n = "project" => queue[i].document \in States
      /\ n = "journal" => queue[i].document \in Records \cup {None}
  <2>1. i \in 1..Len(queue) /\ queue \in Seq(Updated) /\ queue[i] \in Updated
    BY DEF DiskTypeOK
  <2> QED BY <2>1 DEF Updated
<1>2. /\ queue' \in Seq(Updated) /\ Len(queue') = Len(queue) - 1
      /\ \A k \in 1..(Len(queue) - 1) :
           queue'[k] = IF k < i THEN queue[k] ELSE queue[k + 1]
  BY <1>1, RemoveAtFacts DEF Writeback
<1>3. /\ disk \in Pairs /\ disk' = [disk EXCEPT ![n] = queue[i].document]
      /\ disk'[n] = queue[i].document
      /\ \A m \in {"project", "journal"} : m # n => disk'[m] = disk[m]
  BY <1>1 DEF Writeback, DiskTypeOK, Pairs
<1>4. UNCHANGED <<vars, ordered, syncing, told, acked, kills>>
  BY DEF Writeback
<1>5. UNCHANGED <<project, journal, tx, Now>>
  BY <1>4 DEF vars, Now
<1>6. /\ \A k \in 1..(i - 1) : queue[k].name # n
      /\ HeldTogether => i = 1
  BY <1>1 DEF Writeback, Writable, SyncInv, HeldTogether
<1> HIDE DEF n
<1>7. TypeOK' /\ JournalInv'
  <2>1. TypeOK /\ JournalInv /\ [Next]_vars
    BY <1>4
  <2> QED BY <2>1, InvStep, TypeStep DEF OpenNext
<1>8. DiskTypeOK'
  <2>1. disk' \in Pairs
    BY <1>1, <1>3 DEF Pairs
  <2> QED BY <1>2, <1>4, <2>1 DEF DiskTypeOK
<1>9. SyncInv'
  <2>1. Len(queue') = 0 => queue' = <<>>
    BY <1>2
  <2>2. queue # <<>>
    BY <1>1
  <2> QED BY <1>1, <1>2, <1>4, <1>5, <2>1, <2>2 DEF SyncInv
<1>10. FinalInv'
  <2> SUFFICES ASSUME NEW m \in {"project", "journal"}
               PROVE  \/ \E j \in 1..Len(queue') : queue'[j].name = m
                      \/ disk'[m] = Now[m]
    BY <1>5 DEF FinalInv
  <2>1. ASSUME NEW j \in 1..Len(queue), queue[j].name = m, j # i
        PROVE  \E k \in 1..Len(queue') : queue'[k].name = m
    <3>1. CASE j < i
      <4>1. j \in 1..Len(queue') /\ queue'[j] = queue[j]
        BY <1>1, <1>2, <3>1
      <4> QED BY <2>1, <4>1
    <3>2. CASE j > i
      <4>1. /\ j - 1 \in 1..Len(queue') /\ ~(j - 1 < i) /\ (j - 1) + 1 = j
            /\ j - 1 \in 1..(Len(queue) - 1)
        BY <1>1, <1>2, <3>2
      <4>2. queue'[j - 1] = queue[j]
        BY <1>2, <4>1
      <4> QED BY <2>1, <4>1, <4>2
    <3> QED BY <1>1, <2>1, <3>1, <3>2
  <2>2. CASE m = n
    <3>1. CASE \E j \in (i + 1)..Len(queue) : queue[j].name = n
      <4>1. PICK j \in 1..Len(queue) : j # i /\ queue[j].name = n
        BY <1>1, <3>1
      <4> QED BY <2>1, <2>2, <4>1
    <3>2. CASE queue[i].document = Now[n]
      BY <1>3, <2>2, <3>2
    <3> QED BY <1>1, <3>1, <3>2 DEF LastInv, n
  <2>3. CASE m # n
    <3>1. \A j \in 1..Len(queue) : queue[j].name = m => j # i
      BY <2>3 DEF n
    <3> QED BY <1>3, <2>1, <2>3, <3>1 DEF FinalInv
  <2> QED BY <2>2, <2>3
<1>11. LastInv'
  <2> SUFFICES ASSUME NEW k \in 1..Len(queue')
               PROVE  \/ \E j \in (k + 1)..Len(queue') :
                           queue'[j].name = queue'[k].name
                      \/ queue'[k].document = Now[queue'[k].name]
    BY <1>5 DEF LastInv
  <2>1. PICK m \in 1..Len(queue) :
          /\ queue'[k] = queue[m] /\ m # i
          /\ m = IF k < i THEN k ELSE k + 1
    BY <1>1, <1>2
  <2>2. CASE queue[m].document = Now[queue[m].name]
    BY <2>1, <2>2
  <2>3. ASSUME NEW j \in (m + 1)..Len(queue), queue[j].name = queue[m].name
        PROVE  \E l \in (k + 1)..Len(queue') : queue'[l].name = queue'[k].name
    <3>1. j # i
      <4>1. j = i => m \in 1..(i - 1)
        BY <1>1, <2>1
      <4> QED BY <1>6, <2>3, <4>1 DEF n
    <3>2. CASE j < i
      <4>1. /\ j \in (k + 1)..Len(queue') /\ j \in 1..(Len(queue) - 1)
        BY <1>1, <1>2, <2>1, <3>2
      <4>2. queue'[j] = queue[j]
        BY <1>2, <3>2, <4>1
      <4> QED BY <2>1, <2>3, <4>1, <4>2
    <3>3. CASE j > i
      <4>1. /\ j - 1 \in (k + 1)..Len(queue') /\ ~(j - 1 < i)
            /\ (j - 1) + 1 = j /\ j - 1 \in 1..(Len(queue) - 1)
        BY <1>1, <1>2, <2>1, <3>3
      <4>2. queue'[j - 1] = queue[j]
        BY <1>2, <4>1
      <4> QED BY <2>1, <2>3, <4>1, <4>2
    <3> QED BY <1>1, <3>1, <3>2, <3>3
  <2> QED BY <2>2, <2>3 DEF LastInv
<1>12. AckedInv'
  <2> SUFFICES ASSUME acked >= 0 PROVE AckedInv'
    BY <1>4 DEF AckedInv
  <2>1. \A k \in 1..Len(queue) :
          /\ queue[k].name = "project" => NewProject(queue[k].document)
          /\ queue[k].name = "journal" => NewJournal(queue[k].document)
    BY DEF AckedInv
  <2>2. NewProject(disk'.project) /\ NewJournal(disk'.journal)
    BY <1>1, <1>3, <2>1 DEF AckedInv, n
  <2>3. \A k \in 1..Len(queue') : \E m \in 1..Len(queue) : queue'[k] = queue[m]
    BY <1>1, <1>2
  <2>4. \A k \in 1..Len(queue') :
          /\ queue'[k].name = "project" => NewProject(queue'[k].document)
          /\ queue'[k].name = "journal" => NewJournal(queue'[k].document)
    BY <2>1, <2>3
  <2> QED BY <1>4, <1>5, <2>2, <2>4 DEF AckedInv, NewProject, NewJournal
<1>13. ASSUME HeldTogether
       PROVE  /\ \E path \in Seq(Pairs) : Leads(path)'
              /\ Settled(disk') /\ Advances(disk, disk')
  <2>1. PICK path \in Seq(Pairs) : Leads(path)
    BY <1>13 DEF PathInv
  <2>2. i = 1 /\ Len(path) = Len(queue) + 1 /\ Len(path) >= 2
    BY <1>1, <1>6, <1>13, <2>1 DEF Leads
  <2>3. Tail(path) \in Seq(Pairs)
    BY <2>2
  <2>4. PICK rest \in Seq(Pairs) : rest = Tail(path)
    BY <2>3
  <2>5. /\ Len(rest) = Len(queue)
        /\ \A k \in 1..Len(queue) : rest[k] = path[k + 1]
    BY <1>1, <2>2, <2>4
  <2>6. \A k \in 1..(Len(queue) - 1) : queue'[k] = queue[k + 1]
    BY <1>2, <2>2
  <2>7. /\ path[1] = disk /\ Advances(path[1], path[2]) /\ Settled(path[2])
        /\ path[2] = [path[1] EXCEPT ![n] = queue[1].document]
    <3>1. 1 \in 1..Len(queue) /\ 2 \in 1..(Len(queue) + 1) /\ 1 + 1 = 2
      BY <1>1, <2>2
    <3> QED BY <2>1, <2>2, <3>1 DEF Leads, n
  <2>8. disk' = path[2]
    BY <1>3, <2>2, <2>7
  <2>9. rest[1] = disk' /\ rest[Len(queue') + 1] = Now'
        /\ Len(rest) = Len(queue') + 1
    <3>1. /\ 1 \in 1..Len(queue) /\ 1 + 1 = 2
          /\ Len(queue) \in 1..Len(queue) /\ Len(queue') + 1 = Len(queue)
      BY <1>1, <1>2
    <3> QED BY <1>5, <2>1, <2>5, <2>8, <3>1 DEF Leads
  <2>10. \A k \in 1..(Len(queue') + 1) : Settled(rest[k])
    <3> SUFFICES ASSUME NEW k \in 1..(Len(queue') + 1) PROVE Settled(rest[k])
      OBVIOUS
    <3>1. k \in 1..Len(queue) /\ k + 1 \in 1..(Len(queue) + 1)
      BY <1>1, <1>2
    <3> QED BY <2>1, <2>5, <3>1 DEF Leads
  <2>11. ASSUME NEW k \in 1..Len(queue')
         PROVE  /\ Advances(rest[k], rest[k + 1])
                /\ rest[k + 1] =
                     [rest[k] EXCEPT ![queue'[k].name] = queue'[k].document]
    <3>1. /\ k \in 1..Len(queue) /\ k + 1 \in 1..Len(queue)
          /\ k \in 1..(Len(queue) - 1)
      BY <1>1, <1>2
    <3>2. /\ rest[k] = path[k + 1] /\ rest[k + 1] = path[(k + 1) + 1]
          /\ queue'[k] = queue[k + 1]
      BY <2>5, <2>6, <3>1
    <3>3. /\ Advances(path[k + 1], path[(k + 1) + 1])
          /\ path[(k + 1) + 1] = [path[k + 1] EXCEPT
               ![queue[k + 1].name] = queue[k + 1].document]
      BY <2>1, <3>1 DEF Leads
    <3> QED BY <3>2, <3>3
  <2>12. Leads(rest)'
    BY <2>9, <2>10, <2>11 DEF Leads
  <2> QED BY <2>7, <2>8, <2>12
<1>14. PathInv'
  <2>1. HeldTogether' => HeldTogether
    BY <1>4 DEF HeldTogether
  <2> QED BY <1>13, <2>1 DEF PathInv
<1>15. ToldInv'
  BY <1>4 DEF ToldInv
<1> QED BY <1>7, <1>8, <1>9, <1>10, <1>11, <1>12, <1>13, <1>14, <1>15

(* Nothing is queued: the disk has what programs see, and it may be reported. *)
LEMMA SyncedKeeps ==
  ASSUME DurableInv, TypeOK', JournalInv', queue = <<>>, project # None,
         UNCHANGED <<project, journal, ordered, disk, queue, kills>>,
         syncing' = FALSE, Reported(project.revision) \/ UNCHANGED <<told, acked>>
  PROVE  DurableInv'
<1> USE DEF DurableInv
<1>1. UNCHANGED Now
  BY DEF Now
<1>2. Len(queue) = 0 /\ queue' = <<>>
  OBVIOUS
<1>3. disk.project = project /\ disk.journal = journal
  BY <1>2 DEF FinalInv, Now
<1>5. DiskTypeOK'
  <2>1. project.revision \in Nat
    BY JournalAhead
  <2> QED BY <2>1 DEF DiskTypeOK, Reported
<1>6. SyncInv' /\ FinalInv' /\ LastInv'
  <2>1. SyncInv'
    BY <1>2 DEF SyncInv
  <2>2. FinalInv'
    BY <1>1, <1>2 DEF FinalInv
  <2>3. LastInv'
    BY <1>2 DEF LastInv
  <2> QED BY <2>1, <2>2, <2>3
<1>7. AckedInv'
  <2>1. CASE acked' = acked
    BY <1>2, <2>1 DEF AckedInv, NewProject, NewJournal
  <2>2. CASE acked' = project.revision
    <3>1. /\ project.revision \in Nat
          /\ journal # None => journal.after.revision >= project.revision
      BY JournalAhead
    <3> QED BY <1>2, <1>3, <2>2, <3>1 DEF AckedInv, NewProject, NewJournal
  <2> QED BY <2>1, <2>2 DEF Reported
<1>8. PathInv'
  BY <1>1 DEF PathInv, HeldTogether, Leads
<1>9. ToldInv'
  <2>1. project.revision \in Nat
    BY JournalAhead
  <2> QED BY <2>1 DEF ToldInv, Reported
<1> QED BY <1>5, <1>6, <1>7, <1>8, <1>9

(* A power loss leaves the first store of the path. *)
LEMMA PowerLossKeeps == DurableInv /\ PowerLoss => DurableInv'
<1> SUFFICES ASSUME DurableInv, PowerLoss PROVE DurableInv'
  OBVIOUS
<1> USE DEF DurableInv
<1>1. Settled(disk) /\ disk \in Pairs
  <2>1. PICK path \in Seq(Pairs) : Leads(path)
    BY DEF PowerLoss, PathInv
  <2>2. 1 \in 1..(Len(queue) + 1)
    BY DEF DiskTypeOK
  <2> QED BY <2>1, <2>2 DEF Leads, Settled
<1>2. /\ project' = disk.project /\ journal' = disk.journal /\ tx' = Idle
      /\ queue' = <<>> /\ syncing' = FALSE /\ Len(queue') = 0
      /\ UNCHANGED <<ordered, disk, told, acked, kills>>
  BY DEF PowerLoss
<1>3. Now' = disk
  BY <1>1, <1>2 DEF Now, Pairs
<1>4. TypeOK'
  BY <1>1, <1>2 DEF TypeOK, Pairs, Idle
<1>5. JournalInv'
  <2>1. tx'.pc = "idle"
    BY <1>2 DEF Idle
  <2> QED BY <1>1, <1>2, <2>1 DEF JournalInv, PendingOneSide, Settled
<1>6. DiskTypeOK' /\ SyncInv' /\ FinalInv' /\ LastInv'
  <2>1. DiskTypeOK'
    <3>1. queue' \in Seq(Updated)
      BY <1>2
    <3> QED BY <1>2, <3>1 DEF DiskTypeOK
  <2>2. SyncInv'
    BY <1>2 DEF SyncInv, Idle
  <2>3. FinalInv' /\ LastInv'
    BY <1>2, <1>3 DEF FinalInv, LastInv
  <2> QED BY <2>1, <2>2, <2>3
<1>7. AckedInv'
  BY <1>2 DEF AckedInv, NewProject, NewJournal
<1>8. PathInv'
  <2>1. PICK path \in Seq(Pairs) : path = <<disk>>
    <3>1. <<disk>> \in Seq(Pairs)
      BY <1>1
    <3> QED BY <3>1
  <2>2. Len(path) = 1 /\ path[1] = disk
    BY <2>1
  <2>3. Leads(path)'
    BY <1>1, <1>2, <1>3, <2>2 DEF Leads
  <2> QED BY <2>3 DEF PathInv
<1>9. ToldInv'
  BY <1>2 DEF ToldInv
<1> QED BY <1>4, <1>5, <1>6, <1>7, <1>8, <1>9

LEMMA KillKeeps == DurableInv /\ Kill => DurableInv'
<1> SUFFICES ASSUME DurableInv, Kill PROVE DurableInv'
  OBVIOUS
<1> USE DEF DurableInv
<1>1. /\ UNCHANGED <<project, journal, ordered, disk, queue, told, acked>>
      /\ tx' = Idle /\ syncing' = FALSE /\ kills \in Nat /\ kills' \in Nat
      /\ kills' = 0 => kills = 0 /\ queue = <<>>
  BY DEF Kill, DiskTypeOK
<1>2. UNCHANGED Now
  BY <1>1 DEF Now
<1>3. TypeOK' /\ JournalInv'
  BY <1>1 DEF TypeOK, JournalInv, PendingOneSide, Idle
<1>4. DiskTypeOK' /\ FinalInv' /\ LastInv' /\ AckedInv'
  BY <1>1, <1>2 DEF DiskTypeOK, FinalInv, LastInv, AckedInv, NewProject, NewJournal
<1>5. SyncInv'
  BY <1>1 DEF SyncInv, Idle
<1>6. PathInv'
  BY <1>1, <1>2 DEF PathInv, HeldTogether, Leads
<1>7. ToldInv'
  BY <1>1 DEF ToldInv
<1> QED BY <1>3, <1>4, <1>5, <1>6, <1>7

(* A program's step queues what it did, and nothing when it did nothing. *)
LEMMA QueuesKeeps ==
  ASSUME DurableInv, Queues, [Next]_vars, tx'.pc = "done" => Clear
  PROVE  DurableInv'
<1>1. TypeOK /\ JournalInv /\ DiskTypeOK
  BY DEF DurableInv
<1>2. TypeOK' /\ JournalInv'
  BY <1>1, InvStep, TypeStep DEF OpenNext
<1>3. CASE \E e \in Updated : Grows(e)
  BY <1>2, <1>3, GrowKeeps DEF Queues
<1>4. CASE UNCHANGED <<project, journal, queue, syncing>>
  <2>1. ~Clear
    BY <1>1, <1>4 DEF Clear, JournalInv
  <2>2. tx'.pc # "idle" => project # None
    BY <1>1, SentinelsAssumption
       DEF DurableInv, SyncInv, Next, Program, Initialize, TransactBegin, Step,
           Prepare, Compare, Apply, Clear, Recover, RollForward, FinishClear,
           Return, Crash, Idle, vars, ValidState
  <2> QED BY <1>2, <1>4, <2>1, <2>2, StillKeeps DEF Queues
<1> QED BY <1>1, <1>3, <1>4, QueuedUpdate

LEMMA DurableInvStep == DurableInv /\ [DurableNext]_durableVars => DurableInv'
<1> SUFFICES ASSUME DurableInv, [DurableNext]_durableVars PROVE DurableInv'
  OBVIOUS
<1>0. TypeOK /\ JournalInv /\ SyncInv /\ DiskTypeOK
  BY DEF DurableInv
<1>1. CASE Queues /\ [Next]_vars /\ (tx'.pc = "done" => Clear)
  BY <1>1, QueuesKeeps
<1>2. CASE DirectorySynced
  <2>1. UNCHANGED vars
    BY <1>2 DEF DirectorySynced
  <2>2. TypeOK' /\ JournalInv'
    BY <1>0, <2>1, InvStep, TypeStep
  <2>3. /\ queue = <<>> /\ project # None /\ syncing' = FALSE
        /\ UNCHANGED <<project, journal, ordered, disk, queue, kills>>
        /\ Reported(project.revision) \/ UNCHANGED <<told, acked>>
    BY <1>0, <1>2 DEF DirectorySynced, SyncInv, vars
  <2> QED BY <2>2, <2>3, SyncedKeeps
<1>3. CASE Report
  <2>1. Return /\ Next /\ tx.pc = "done" /\ ~syncing
    BY <1>0, <1>3 DEF Report, Next, Program, Return, JournalInv
  <2>2. TypeOK' /\ JournalInv'
    BY <1>0, <2>1, InvStep, TypeStep DEF OpenNext
  <2>3. /\ queue = <<>> /\ project # None /\ syncing' = FALSE
        /\ UNCHANGED <<project, journal, ordered, disk, queue, kills>>
        /\ Reported(project.revision) \/ UNCHANGED <<told, acked>>
    BY <1>0, <1>3, <2>1 DEF Report, Return, SyncInv, DiskTypeOK
  <2> QED BY <2>2, <2>3, SyncedKeeps
<1>4. CASE Kill
  BY <1>4, KillKeeps
<1>5. CASE PowerLoss
  BY <1>5, PowerLossKeeps
<1>6. CASE \E i \in DOMAIN queue : Writeback(i)
  BY <1>6, WritebackKeeps
<1>7. CASE UNCHANGED durableVars
  <2>1. UNCHANGED vars
    BY <1>7 DEF durableVars
  <2>2. TypeOK' /\ JournalInv'
    BY <1>0, <2>1, InvStep, TypeStep
  <2>3. tx' = tx /\ (tx.pc # "idle" => project # None)
    BY <1>0, <2>1 DEF vars, SyncInv
  <2> QED BY <1>7, <2>2, <2>3, StillKeeps DEF durableVars, vars
<1>8. CASE ReportUnchanged
  <2>1. /\ UNCHANGED vars /\ project # None /\ ~syncing /\ told' = project.revision
        /\ UNCHANGED <<ordered, disk, queue, syncing, kills>>
        /\ acked' = IF queue = <<>> THEN project.revision ELSE acked
    BY <1>8, SentinelsAssumption DEF ReportUnchanged, ValidState, States
  <2>2. TypeOK' /\ JournalInv'
    BY <1>0, <2>1, InvStep, TypeStep
  <2>3. CASE queue = <<>>
    <3>1. syncing' = FALSE /\ Reported(project.revision)
      BY <1>0, <2>1, <2>3 DEF DiskTypeOK, Reported
    <3> QED BY <2>1, <2>2, <2>3, <3>1, SyncedKeeps DEF vars
  <2>4. CASE queue # <<>>
    BY <2>1, <2>2, <2>4, StillKeeps DEF vars
  <2> QED BY <2>3, <2>4
<1> QED BY <1>0, <1>1, <1>2, <1>3, <1>4, <1>5, <1>6, <1>7, <1>8, DurableSteps

LEMMA DurableInvInit == DurableInit => DurableInv
<1> SUFFICES ASSUME DurableInit PROVE DurableInv
  OBVIOUS
<1>1. /\ project = None /\ journal = None /\ tx = Idle /\ tx.pc = "idle"
      /\ disk = [project |-> None, journal |-> None] /\ queue = <<>>
      /\ Len(queue) = 0 /\ syncing = FALSE /\ told = -1 /\ acked = -1 /\ kills = 0
      /\ ordered \in BOOLEAN
  BY DEF DurableInit, Init, NothingOnDisk, Idle
<1>2. TypeOK /\ JournalInv
  BY InvInit DEF DurableInit
<1>3. Now = disk
  BY <1>1 DEF Now
<1>4. disk \in Pairs /\ Settled(disk)
  BY <1>1 DEF Pairs, Settled
<1>5. DiskTypeOK
  <2>1. queue \in Seq(Updated)
    BY <1>1
  <2> QED BY <1>1, <1>4, <2>1 DEF DiskTypeOK
<1>6. SyncInv /\ AckedInv /\ ToldInv
  BY <1>1 DEF SyncInv, AckedInv, ToldInv
<1>7. FinalInv /\ LastInv
  BY <1>1, <1>3 DEF FinalInv, LastInv
<1>8. PathInv
  <2>1. PICK path \in Seq(Pairs) : path = <<disk>>
    <3>1. <<disk>> \in Seq(Pairs)
      BY <1>4
    <3> QED BY <3>1
  <2>2. Len(path) = 1 /\ path[1] = disk
    BY <2>1
  <2>3. Leads(path)
    BY <1>1, <1>3, <1>4, <2>2 DEF Leads
  <2> QED BY <2>3 DEF PathInv
<1> QED BY <1>2, <1>5, <1>6, <1>7, <1>8 DEF DurableInv

(* The path of whole stores from the disk to the program, whatever the      *)
(* number of kills and power losses and whatever the file system's order.  *)
THEOREM DurableInvariant == DurableSpec => []DurableInv
BY DurableInvInit, DurableInvStep, PTL DEF DurableSpec

(* A power loss leaves whole documents under both names and, where fsync or *)
(* the file system's order hold the updates together, a store that recover *)
(* resumes from.                                                           *)
THEOREM DiskHoldsOneSide == DurableSpec => []DiskOneSide
<1>1. DurableInv => DiskOneSide
  <2> SUFFICES ASSUME DurableInv PROVE DiskOneSide
    OBVIOUS
  <2>1. disk \in Pairs
    BY DEF DurableInv, DiskTypeOK
  <2>2. HeldTogether => Settled(disk)
    <3> SUFFICES ASSUME HeldTogether PROVE Settled(disk)
      OBVIOUS
    <3>1. PICK path \in Seq(Pairs) : Leads(path)
      BY DEF DurableInv, PathInv
    <3>2. 1 \in 1..(Len(queue) + 1)
      BY DEF DurableInv, DiskTypeOK
    <3> QED BY <3>1, <3>2 DEF Leads
  <2> QED BY <2>1, <2>2 DEF DiskOneSide, Pairs, Settled
<1> QED BY <1>1, DurableInvariant, PTL

LEMMA NothingOlderIsHeld ==
  ASSUME DurableInv, acked >= 0
  PROVE  Held(acked)
<1>1. /\ disk \in Pairs /\ NewProject(disk.project) /\ NewJournal(disk.journal)
  BY DEF DurableInv, DiskTypeOK, AckedInv
<1>2. CASE disk.journal = None
  BY <1>1, <1>2 DEF Held, Surviving, NewProject
<1>3. CASE disk.journal # None
  <2>1. disk.journal.after # None
    BY <1>1, <1>3, SentinelsAssumption DEF Pairs, Records
  <2> QED BY <1>1, <1>3, <2>1 DEF Held, Surviving, NewJournal
<1> QED BY <1>2, <1>3

(* What a command that wrote has reported survives every later power loss,  *)
(* and so does a report made when nothing was left queued.                 *)
THEOREM ReportsSurvive == DurableSpec => []AckedSurvives
<1>1. DurableInv => AckedSurvives
  BY NothingOlderIsHeld DEF AckedSurvives
<1> QED BY <1>1, DurableInvariant, PTL

(* Until a kill cuts off a directory sync, what any command has reported,  *)
(* the commands that wrote nothing included, survives every power loss.    *)
THEOREM EveryReportHeld == DurableSpec => []ToldSurvives
<1>1. DurableInv => ToldSurvives
  <2> SUFFICES ASSUME DurableInv, told >= 0, kills = 0 PROVE Held(told)
    BY DEF ToldSurvives
  <2>1. told \in Nat /\ acked \in Nat /\ told <= acked
    BY DEF DurableInv, DiskTypeOK, ToldInv
  <2>2. Surviving # None /\ Surviving.revision >= acked
    BY <2>1, NothingOlderIsHeld DEF Held
  <2>3. Surviving.revision \in Int
    <3>1. disk \in Pairs
      BY DEF DurableInv, DiskTypeOK
    <3> QED BY <2>2, <3>1 DEF Surviving, Pairs, Records, States
  <2> QED BY <2>1, <2>2, <2>3 DEF Held
<1> QED BY <1>1, DurableInvariant, PTL

(* The definitions the lifecycle repeats are the store's.                  *)
LEMMA DurableDefinitions ==
  /\ \A s : ValidState(s) <=> DurableLifecycle!ValidState(s)
  /\ \A s, t : ValidTransition(s, t) <=> DurableLifecycle!ValidTransition(s, t)
BY DEF ValidTransition, DurableLifecycle!ValidTransition,
       ValidState, DurableLifecycle!ValidState, Follows, DurableLifecycle!Follows,
       ImmutableKept, DurableLifecycle!ImmutableKept,
       EvidenceKept, DurableLifecycle!EvidenceKept,
       States, DurableLifecycle!States, ValidMaster, DurableLifecycle!ValidMaster,
       ValidQa, DurableLifecycle!ValidQa, Stages, DurableLifecycle!Stages,
       Built, DurableLifecycle!Built, Evidence, DurableLifecycle!Evidence,
       NextStage, DurableLifecycle!NextStage, Opt, DurableLifecycle!Opt,
       Masters, DurableLifecycle!Masters, Qas, DurableLifecycle!Qas

(* Each update that reaches the disk in order is a step of the lifecycle.  *)
LEMMA DiskStep ==
  ASSUME ordered = TRUE, ordered' = ordered,
         Settled(disk), Settled(disk'), Advances(disk, disk')
  PROVE  DurableLifecycle!Next \/ UNCHANGED <<Surviving, disk>>
<1>1. /\ Surviving = IF disk.journal = None THEN disk.project ELSE disk.journal.after
      /\ Surviving' = IF disk'.journal = None THEN disk'.project
                      ELSE disk'.journal.after
  BY DEF Surviving
<1>2. CASE /\ disk.project = None /\ disk.journal = None /\ disk'.journal = None
           /\ \E id \in Ids, source \in Digests : disk'.project = NewState(id, source)
  <2>1. PICK id \in Ids, source \in Digests : disk'.project = NewState(id, source)
    BY <1>2
  <2>2. /\ Surviving = None /\ Surviving' = disk'.project
        /\ ValidState(disk'.project)
    BY <1>1, <1>2, <2>1, NewStateTyped, SentinelsAssumption DEF Settled
  <2>3. disk'.project = DurableLifecycle!NewState(disk'.project.content_id,
                                                  disk'.project.source)
    BY <2>1 DEF NewState, DurableLifecycle!NewState
  <2>4. DurableLifecycle!Register
    BY <2>2, <2>3, DurableDefinitions DEF DurableLifecycle!Register
  <2> QED BY <2>4 DEF DurableLifecycle!Next
<1>3. CASE /\ disk.project # None /\ disk.journal = None
           /\ disk'.project = disk.project
           /\ Sound(disk'.journal) /\ disk'.journal.before = disk.project
  <2>1. Surviving = disk.project /\ Surviving' = disk'.journal.after
    BY <1>1, <1>3, SoundSides
  <2>2. /\ ValidTransition(disk.project, disk'.journal.after)
        /\ disk'.journal.after.revision = disk.project.revision + 1
    BY <1>3 DEF Sound
  <2>3. DurableLifecycle!Commit
    BY <1>3, <2>1, <2>2, DurableDefinitions DEF DurableLifecycle!Commit
  <2> QED BY <2>3 DEF DurableLifecycle!Next
<1>4. CASE /\ disk.journal # None /\ disk.project = disk.journal.before
           /\ disk'.journal = disk.journal /\ disk'.project = disk.journal.after
  <2>1. Surviving = disk.journal.after /\ Surviving' = disk.journal.after
    BY <1>1, <1>4
  <2>2. DurableLifecycle!Publish
    BY <1>4, <2>1 DEF DurableLifecycle!Publish
  <2> QED BY <2>2 DEF DurableLifecycle!Next
<1>5. CASE /\ disk.journal # None /\ disk.project = disk.journal.after
           /\ disk'.project = disk.project /\ disk'.journal = None
  <2>1. Surviving = disk.project /\ Surviving' = disk.project
    BY <1>1, <1>5
  <2>2. DurableLifecycle!Publish
    BY <1>5, <2>1 DEF DurableLifecycle!Publish
  <2> QED BY <2>2 DEF DurableLifecycle!Next
<1> QED BY <1>2, <1>3, <1>4, <1>5 DEF Advances

LEMMA DiskSteps ==
  DurableInv /\ [DurableNext]_durableVars
    => [DurableLifecycle!Next]_(DurableLifecycle!lvars)
<1> SUFFICES ASSUME DurableInv, [DurableNext]_durableVars
             PROVE  [DurableLifecycle!Next]_(DurableLifecycle!lvars)
  OBVIOUS
<1>1. ordered' = ordered
  BY DEF DurableNext, Update, DirectorySynced, Report, ReportUnchanged, Kill, Writeback, PowerLoss,
         durableVars
<1>2. CASE UNCHANGED disk
  BY <1>1, <1>2 DEF DurableLifecycle!lvars, Surviving
<1>3. CASE ordered # TRUE
  BY <1>1, <1>3 DEF DurableLifecycle!lvars, DurableInv, DiskTypeOK
<1>4. CASE ordered = TRUE /\ \E i \in DOMAIN queue : Writeback(i)
  <2>1. Settled(disk') /\ Advances(disk, disk')
    BY <1>4, WritebackKeeps DEF HeldTogether
  <2>2. Settled(disk)
    <3>1. PICK path \in Seq(Pairs) : Leads(path)
      BY <1>4 DEF DurableInv, PathInv, HeldTogether
    <3>2. 1 \in 1..(Len(queue) + 1)
      BY DEF DurableInv, DiskTypeOK
    <3> QED BY <3>1, <3>2 DEF Leads
  <2>3. DurableLifecycle!Next \/ UNCHANGED <<Surviving, disk>>
    BY <1>1, <1>4, <2>1, <2>2, DiskStep
  <2> QED BY <1>1, <2>3 DEF DurableLifecycle!lvars
<1> QED BY <1>2, <1>3, <1>4
        DEF DurableNext, Update, DirectorySynced, Report, ReportUnchanged, Kill, PowerLoss,
            durableVars, DurableInv, DiskTypeOK

(* The disk of an order-keeping file system is a journalled project too.   *)
THEOREM DiskRefinement == DurableSpec => DiskImplementsLifecycle
<1>1. DurableInit => DurableLifecycle!Init
  BY DEF DurableInit, NothingOnDisk, DurableLifecycle!Init, Surviving
<1> QED BY <1>1, DurableInvariant, DiskSteps, PTL
        DEF DurableSpec, DiskImplementsLifecycle, DurableLifecycle!Spec

=============================================================================
