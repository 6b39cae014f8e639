-------------------------- MODULE WorkspaceProofs ---------------------------
(***************************************************************************)
(* What TLC checks of one workspace with two plans and two edits, proved   *)
(* for any contents, plans, engines, legacy documents and number of edits; *)
(* and of every report status makes beside it.                             *)
(*                                                                         *)
(* What a property needs of the points where a file may be edited, or of   *)
(* what may be edited at all, is a hypothesis of its theorem.              *)
(***************************************************************************)
EXTENDS StatusView, TLAPS

-----------------------------------------------------------------------------
(* The store *)

Sides == [before : States, after : States]

Active == {"prepare", "compare", "apply", "clear", "done", "failed"}

Locals == [pc : Active, before : States, after : States]

Lawful(s, t) == ValidTransition(s, t) /\ t.revision = s.revision + 1

(* The documents of the store are the workspace's. *)
LEMMA StoreDefinitions ==
  /\ \A s : J!ValidState(s) <=> ValidState(s)
  /\ \A s, t : J!ValidTransition(s, t) <=> ValidTransition(s, t)
  /\ J!States = States
BY DEF ValidTransition, J!ValidTransition, ValidState, J!ValidState,
       Follows, J!Follows, ImmutableKept, J!ImmutableKept,
       EvidenceKept, J!EvidenceKept, States, J!States,
       ValidMaster, J!ValidMaster, ValidQa, J!ValidQa, Stages, J!Stages,
       Built, J!Built, Evidence, J!Evidence, NextStage, J!NextStage,
       Opt, J!Opt, Masters, J!Masters, Qas, J!Qas

LEMMA RecordDefinitions ==
  /\ J!Records = Sides
  /\ \A r : J!Sound(r) <=> r \in Sides /\ Lawful(r.before, r.after)
  /\ J!Idle = [pc |-> "idle", before |-> None, after |-> None]
BY StoreDefinitions DEF J!Records, J!Sound, J!Idle, Sides, Lawful

LEMMA LawfulSides ==
  ASSUME NEW s, NEW t, Lawful(s, t)
  PROVE  /\ s \in States /\ t \in States /\ s # None /\ t # None
         /\ ValidState(s) /\ ValidState(t) /\ s.stage # t.stage /\ s # t
         /\ Follows(s.stage, t.stage)
<1>1. ValidState(s) /\ ValidState(t) /\ Follows(s.stage, t.stage)
  BY DEF Lawful, ValidTransition
<1>2. s \in States /\ t \in States
  BY <1>1 DEF ValidState
<1>3. s.stage # t.stage
  BY <1>1, SMT DEF Follows, NextStage
<1>4. s # None /\ t # None
  BY <1>2, SentinelsAssumption
<1> QED BY <1>1, <1>2, <1>3, <1>4

(* What a running transact or recover relies on, and a stop only forgets.  *)
StoreInv ==
  /\ project \in States \cup {None}
  /\ journal \in Sides \cup {None}
  /\ tx \in {J!Idle} \cup Locals
  /\ project # None => ValidState(project)
  /\ journal # None => /\ Lawful(journal.before, journal.after)
                       /\ project \in {journal.before, journal.after}
  /\ tx.pc = "prepare" => /\ journal = None /\ project = tx.before
                          /\ Lawful(tx.before, tx.after)
  /\ tx.pc = "compare" => /\ journal = [before |-> tx.before, after |-> tx.after]
                          /\ project = tx.before
  /\ tx.pc = "apply" => /\ journal # None /\ journal.after = tx.after
                        /\ project = journal.before
  /\ tx.pc = "clear" => /\ journal # None /\ journal.after = tx.after
                        /\ project = tx.after
  /\ tx.pc = "done" => journal = None /\ project = tx.after
  /\ tx.pc # "failed"

(* transact has accepted a document. *)
Begins(after) ==
  /\ tx.pc = "idle" /\ journal = None /\ project \in States
  /\ Lawful(project, after)
  /\ tx' = [pc |-> "prepare", before |-> project, after |-> after]
  /\ UNCHANGED <<project, journal>>

(* What a command may rely on of a project that has one. *)
LEMMA NotNone ==
  ASSUME StoreInv
  PROVE  /\ project # None <=> project \in States
         /\ ValidState(project) <=> project # None
         /\ None \notin Sides
         /\ project = None => journal = None /\ tx = J!Idle
<1>1. None \notin States /\ None \notin Sides
  BY SentinelsAssumption, WorkspaceAssumption, RecordDefinitions
<1>2. ASSUME project = None PROVE journal = None /\ tx = J!Idle
  <2>1. journal = None
    BY <1>1, <1>2, LawfulSides DEF StoreInv
  <2>2. tx \notin Locals
    BY <1>1, <1>2, <2>1 DEF StoreInv, Locals, Active
  <2> QED BY <2>1, <2>2 DEF StoreInv
<1> QED BY <1>1, <1>2 DEF StoreInv, ValidState

LEMMA StoreBegins ==
  ASSUME StoreInv, NEW s, J!TransactBegin(s)
  PROVE  Begins([s EXCEPT !.revision = project.revision + 1])
<1>1. /\ tx.pc = "idle" /\ journal = None
      /\ ValidTransition(project, J!Successor(project, s))
      /\ tx' = [pc |-> "prepare", before |-> project,
                after |-> J!Successor(project, s)]
      /\ UNCHANGED <<project, journal>>
  BY StoreDefinitions DEF J!TransactBegin
<1>2. J!Successor(project, s) = [s EXCEPT !.revision = project.revision + 1]
  BY DEF J!Successor
<1> DEFINE after == [s EXCEPT !.revision = project.revision + 1]
<1>3. project \in States /\ after \in States
  BY <1>1, <1>2 DEF ValidTransition, ValidState
<1>4. after.revision = project.revision + 1
  BY <1>3 DEF States
<1> QED BY <1>1, <1>2, <1>3, <1>4 DEF Begins, Lawful

LEMMA BeginsKeeps ==
  ASSUME StoreInv, NEW after, Begins(after)
  PROVE  StoreInv' /\ tx' \in Locals /\ tx'.pc = "prepare" /\ tx'.after = after
<1>1. project \in States /\ after \in States
  BY LawfulSides DEF Begins
<1>2. /\ tx' \in Locals /\ tx'.pc = "prepare"
      /\ tx'.before = project /\ tx'.after = after
  BY <1>1 DEF Begins, Locals, Active
<1> QED BY <1>2 DEF StoreInv, Begins

LEMMA RegisterKeeps ==
  ASSUME StoreInv, NEW s \in States, J!Initialize(s)
  PROVE  /\ StoreInv' /\ project = None /\ project' = s /\ ValidState(s)
         /\ journal = None /\ tx.pc = "idle" /\ UNCHANGED <<journal, tx>>
BY StoreDefinitions DEF J!Initialize, StoreInv

LEMMA ReturnKeeps ==
  ASSUME StoreInv, J!Return
  PROVE  /\ StoreInv' /\ journal = None /\ tx.pc = "done" /\ project = tx.after
         /\ tx' = J!Idle /\ UNCHANGED <<project, journal>>
BY RecordDefinitions DEF J!Return, StoreInv

LEMMA StopKeeps ==
  ASSUME StoreInv, tx' = J!Idle, UNCHANGED <<project, journal>>
  PROVE  StoreInv'
BY RecordDefinitions DEF StoreInv

LEMMA RecoverKeeps ==
  ASSUME StoreInv, J!Recover
  PROVE  /\ StoreInv' /\ tx.pc = "idle" /\ journal # None
         /\ tx' \in Locals /\ tx'.pc \in {"apply", "clear"}
         /\ tx'.after = journal.after /\ UNCHANGED <<project, journal>>
<1>1. journal \in Sides /\ Lawful(journal.before, journal.after) /\ tx.pc = "idle"
  BY RecordDefinitions DEF J!Recover, J!RollForward, J!FinishClear
<1>2. journal # None
  BY <1>1, NotNone
<1>3. journal.before \in States /\ journal.after \in States
  BY <1>1 DEF Sides
<1>4. /\ tx' \in Locals /\ tx'.pc \in {"apply", "clear"}
      /\ tx'.after = journal.after /\ UNCHANGED <<project, journal>>
      /\ tx'.pc = "apply" => project = journal.before
      /\ tx'.pc = "clear" => project = journal.after
  BY <1>3 DEF J!Recover, J!RollForward, J!FinishClear, Locals, Active
<1> QED BY <1>1, <1>2, <1>4 DEF StoreInv

LEMMA StepKeeps ==
  ASSUME StoreInv, J!Step
  PROVE  /\ StoreInv' /\ tx \in Locals /\ tx' \in Locals
         /\ tx'.after = tx.after /\ tx'.pc # tx.pc
         /\ \/ UNCHANGED project
            \/ /\ journal # None /\ project = journal.before
               /\ project' = journal.after /\ journal' = journal
         /\ journal' # None /\ journal' # journal => journal'.after = tx.after
<1>1. tx \in Locals
  BY RecordDefinitions
     DEF StoreInv, J!Step, J!Prepare, J!Compare, J!Apply, J!Clear
<1>2. None \notin Sides
  BY NotNone
<1>3. CASE J!Prepare
  <2>1. /\ tx' \in Locals /\ tx'.pc = "compare" /\ tx.pc = "prepare"
        /\ tx'.before = tx.before /\ tx'.after = tx.after
        /\ journal' = [before |-> tx.before, after |-> tx.after]
        /\ project' = project
    BY <1>1, <1>3 DEF J!Prepare, Locals, Active
  <2>2. /\ journal' \in Sides /\ journal' # None
        /\ journal'.before = tx.before /\ journal'.after = tx.after
    BY <1>1, <1>2, <2>1 DEF Locals, Sides
  <2> QED BY <1>1, <2>1, <2>2 DEF StoreInv
<1>4. CASE J!Compare
  <2>1. /\ tx' \in Locals /\ tx'.pc = "apply" /\ tx.pc = "compare"
        /\ tx'.before = tx.before /\ tx'.after = tx.after
        /\ UNCHANGED <<project, journal>>
    BY <1>1, <1>4 DEF J!Compare, Locals, Active, StoreInv
  <2>2. journal # None
    BY <1>1, <1>2, <2>1 DEF StoreInv, Locals, Sides
  <2> QED BY <1>1, <2>1, <2>2 DEF StoreInv
<1>5. CASE J!Apply
  <2>1. /\ tx' \in Locals /\ tx'.pc = "clear" /\ tx.pc = "apply"
        /\ tx'.before = tx.before /\ tx'.after = tx.after
        /\ project' = tx.after /\ journal' = journal
    BY <1>1, <1>5 DEF J!Apply, Locals, Active
  <2>2. /\ journal # None /\ journal.after = tx.after /\ project = journal.before
        /\ Lawful(journal.before, journal.after)
    BY <2>1 DEF StoreInv
  <2>3. ValidState(tx.after) /\ tx.after \in States
    BY <2>2, LawfulSides
  <2> QED BY <1>1, <2>1, <2>2, <2>3 DEF StoreInv
<1>6. CASE J!Clear
  <2>1. /\ tx' \in Locals /\ tx'.pc = "done" /\ tx.pc = "clear"
        /\ tx'.before = tx.before /\ tx'.after = tx.after
        /\ journal' = None /\ project' = project
    BY <1>1, <1>6 DEF J!Clear, Locals, Active, StoreInv
  <2> QED BY <1>1, <2>1 DEF StoreInv
<1> QED BY <1>3, <1>4, <1>5, <1>6 DEF J!Step

-----------------------------------------------------------------------------
(* The kinds of contents, and the locals of a command *)

OwnReceipts ==
  [source_sha256 : Digests, plan_sha256 : Digests, master : Artifacts]

(* A document of this version names contents of the kind they are of. *)
Kinds ==
  {s \in States :
     s.schema_version = 2 =>
       /\ s.source \in Sources \cup Strays
       /\ s.approved_plan \in Opt(Plans)
       /\ s.master \in Opt(Artifacts)
       /\ s.qa \in Opt(Evaluations)}

(* Every document the store has, or is about to have, is one of G. *)
DocsIn(G) ==
  /\ project \in G \cup {None}
  /\ journal # None => journal.after \in G
  /\ tx.pc # "idle" => tx.after \in G

FileKinds ==
  /\ files \in [Names -> Opt(Digests \cup Manifests)]
  /\ files["source"] \in Opt(Sources \cup Strays)
  /\ files["approved_plan"] \in Opt(Plans \cup Strays)
  /\ files["master"] \in Opt(Media)
  /\ files["staged"] \in Opt(Media)

OpPcs ==
  {"idle", "preflight", "recover", "rolling", "receipt", "main", "dropReceipt",
   "commit", "dropStaged", "link", "committing", "approve", "manifest", "build",
   "qa", "write", "replace", "register", "render", "rendering", "hash", "probe",
   "rehash", "writeReceipt", "technical", "loudness", "recheck"}

Values == Renders \cup Plans \cup Manifests

OpRecords ==
  [cmd : Commands \cup {"none"}, pc : OpPcs, state : Opt(States),
   engine : Opt(Engines), hash : Opt(Media), probe : Opt(Media),
   loudness : Opt(Media), value : Opt(Values), receipt : Opt(OwnReceipts)]

CmdInv ==
  /\ At("preflight") => op.cmd = "init"
  /\ At("approve") => op.cmd = "approve"
  /\ At("manifest") => op.cmd = "manifest"
  /\ op.pc \in {"write", "replace", "register"} => op.cmd \in {"approve", "manifest"}
  /\ op.pc \in {"hash", "probe", "rehash"} => op.cmd \in {"init", "build"}
  /\ op.pc \in {"build", "render", "rendering", "writeReceipt"} => op.cmd = "build"
  /\ op.pc \in {"qa", "technical", "loudness", "recheck"} => op.cmd = "qa"

(* Only recover and a transact of the command have the store in work. *)
QuietInv ==
  /\ tx # J!Idle <=> op.pc \in {"rolling", "committing"}
  /\ op.pc \notin {"idle", "recover", "preflight", "rolling", "committing"}
       => journal = None

(* A command at its own work: its document is the project's. *)
AtWork ==
  \/ op.pc \in {"approve", "manifest", "build", "qa", "write", "replace",
                "register", "render", "rendering", "writeReceipt", "technical",
                "loudness", "recheck"}
  \/ op.pc \in {"hash", "probe", "rehash"} /\ op.cmd = "build"

StageOf(cmd) ==
  IF cmd = "approve" THEN "REGISTERED" ELSE
  IF cmd = "build" THEN "PLAN_APPROVED" ELSE
  IF cmd = "qa" THEN "MASTER_READY" ELSE "QA_PASSED"

WorkInv ==
  AtWork => /\ op.state = project /\ project \in States
            /\ project.schema_version = 2
            /\ project.stage = StageOf(op.cmd)

(* Between a receipt and the registration of its master. *)
PromoteInv ==
  /\ op.pc \in {"writeReceipt", "link", "dropStaged", "commit"}
       => /\ op.receipt # None /\ project \in States
          /\ project.schema_version = 2 /\ project.stage = "PLAN_APPROVED"
  /\ op.receipt # None
       => op.pc \in {"writeReceipt", "link", "dropStaged", "commit", "committing",
                     "dropReceipt"}
  /\ At("committing") /\ op.receipt # None
       => tx.after.stage = "MASTER_READY" /\ tx.after.master = op.receipt.master
  /\ At("dropReceipt")
       => /\ project \in States /\ project.stage \in Built
          /\ op.receipt # None => project.master = op.receipt.master

(* What the command has measured and what it is about to write. *)
ValueInv ==
  /\ AtWork /\ op.pc \in {"render", "rendering", "hash", "probe", "rehash",
                          "technical", "loudness", "recheck"}
       => op.engine \in Engines
  /\ op.pc \in {"probe", "rehash"} => op.hash \in Media
  /\ At("rehash") => op.probe \in Media
  /\ At("rendering") => op.value \in Renders
  /\ op.pc \in {"loudness", "recheck"} => op.probe \in Media
  /\ At("recheck") => op.loudness \in Media
  /\ op.pc \in {"write", "replace", "register"} /\ op.cmd = "approve"
       => op.value \in Plans
  /\ op.pc \in {"write", "replace", "register"} /\ op.cmd = "manifest"
       => op.value = ManifestOf(op.state) /\ op.value \in Manifests

OpInv ==
  /\ op \in OpRecords
  /\ CmdInv /\ QuietInv /\ WorkInv /\ PromoteInv /\ ValueInv

Inv ==
  /\ StoreInv /\ DocsIn(Kinds) /\ FileKinds /\ OpInv
  /\ receipt \in OwnReceipts \cup {None, Garbage}
  /\ engine \in Engines
  /\ edits \in 0..MaxEdits

LEMMA SortFacts ==
  /\ None \notin Digests /\ None \notin Media /\ None \notin Plans
  /\ None \notin Engines /\ None \notin States /\ None \notin Artifacts
  /\ None \notin Receipts /\ Garbage \notin Receipts /\ None # Garbage
  /\ Media \subseteq Digests /\ Plans \subseteq Digests /\ Strays \subseteq Media
  /\ Sources \subseteq Media /\ Renders \subseteq Media /\ Partial \in Media
  /\ Artifacts \subseteq Masters /\ OwnReceipts \subseteq Receipts
<1>1. /\ Media \subseteq Digests /\ Plans \subseteq Digests /\ Strays \subseteq Media
      /\ Sources \subseteq Media /\ Renders \subseteq Media /\ Partial \in Media
  BY WorkspaceAssumption DEF Media
<1>2. Artifacts \subseteq Masters
  BY <1>1 DEF Artifacts, Masters
<1>3. OwnReceipts \subseteq Receipts
  BY <1>2 DEF OwnReceipts, Receipts
<1> QED BY <1>1, <1>2, <1>3, SentinelsAssumption, WorkspaceAssumption

(* The project a command works on, and what its document holds. *)
LEMMA WorkFacts ==
  ASSUME Inv, AtWork
  PROVE  /\ op.state = project /\ project \in States /\ ValidState(project)
         /\ project.schema_version = 2 /\ tx = J!Idle /\ journal = None
         /\ project.source \in Media
         /\ project.stage # "REGISTERED" => project.approved_plan \in Plans
         /\ project.stage \in Built
              => project.master \in Artifacts /\ project.master.sha256 \in Media
         /\ project.stage \in {"QA_PASSED", "READY"}
              => project.qa \in Evaluations
<1>1. /\ op.state = project /\ project \in States /\ ValidState(project)
      /\ project.schema_version = 2 /\ project \in Kinds
  BY NotNone DEF Inv, OpInv, WorkInv, DocsIn
<1>2. tx = J!Idle /\ journal = None
  BY DEF Inv, OpInv, QuietInv, AtWork
<1>3. /\ project.source \in Sources \cup Strays
      /\ project.approved_plan \in Opt(Plans)
      /\ project.master \in Opt(Artifacts) /\ project.qa \in Opt(Evaluations)
  BY <1>1 DEF Kinds
<1>4. project.stage \in Built => project.master \in Artifacts
  BY <1>1, <1>3 DEF ValidState, ValidMaster, Opt
<1>5. project.stage \in {"QA_PASSED", "READY"} => project.qa \in Evaluations
  BY <1>1, <1>3 DEF ValidState, ValidQa, Opt
<1> QED BY <1>1, <1>2, <1>3, <1>4, <1>5, SortFacts
        DEF ValidState, Opt, Artifacts

LEMMA InitInv == Init => Inv
<1> SUFFICES ASSUME Init PROVE Inv
  OBVIOUS
<1>1. /\ project \in {None} \cup Legacy /\ journal = None /\ tx = J!Idle
      /\ receipt = None /\ engine \in Engines /\ op = NoOp
      /\ edits \in 0..MaxEdits
  BY WorkspaceAssumption DEF Init
<1>2. project # None => /\ project \in Legacy /\ ValidState(project)
                        /\ project \in States /\ project.schema_version = 1
  BY <1>1, LegacyAssumption DEF ValidState
<1>3. tx.pc = "idle"
  BY <1>1, RecordDefinitions
<1>4. StoreInv
  BY <1>1, <1>2, <1>3 DEF StoreInv
<1>5. DocsIn(Kinds)
  BY <1>1, <1>2, <1>3 DEF DocsIn, Kinds
<1>6. FileKinds
  <2>1. CASE project = None
    BY <2>1 DEF Init, FileKinds, Names, Opt
  <2>2. CASE project # None
    <3>1. files = RegisteredFiles(project)
      BY <2>2 DEF Init
    <3>2. /\ project.source \in Sources \cup Strays
          /\ project.approved_plan \in Opt(Plans \cup Strays)
          /\ project.master # None => project.master.sha256 \in Media
          /\ project.release_manifest \in Opt(Digests)
      BY <1>2, <2>2, LegacyAssumption DEF States
    <3>3. /\ DOMAIN files = Names
          /\ files["source"] = project.source
          /\ files["approved_plan"] = project.approved_plan
          /\ files["release_manifest"] = project.release_manifest
          /\ files["master"] = IF project.master # None THEN project.master.sha256
                               ELSE None
          /\ files["staged"] = None
      BY <3>1 DEF RegisteredFiles, Names
    <3>4. files = [n \in Names |-> files[n]]
      BY <3>1 DEF RegisteredFiles
    <3>5. \A n \in Names : files[n] \in Opt(Digests \cup Manifests)
      BY <3>2, <3>3, SortFacts DEF Names, Opt
    <3>6. files \in [Names -> Opt(Digests \cup Manifests)]
      BY <3>4, <3>5
    <3> QED BY <3>2, <3>3, <3>6 DEF FileKinds, Opt
  <2> QED BY <2>1, <2>2
<1>7. OpInv
  <2>1. op \in OpRecords
    BY <1>1 DEF NoOp, OpRecords, OpPcs, Opt
  <2>2. op.pc = "idle" /\ op.receipt = None
    BY <1>1 DEF NoOp
  <2> QED BY <1>1, <2>1, <2>2
          DEF OpInv, CmdInv, QuietInv, WorkInv, PromoteInv, ValueInv, AtWork, At
<1> QED BY <1>1, <1>4, <1>5, <1>6, <1>7 DEF Inv

-----------------------------------------------------------------------------
(* Steps that change nothing but the command's locals *)

OnlyOp == UNCHANGED <<project, journal, tx, files, receipt, engine, edits>>

Looked ==
  \/ NothingPending \/ NoReceipt \/ FinishedReceipt \/ RecoverBuild \/ Dispatch
  \/ WriteExact(Evidenced) \/ Preflight
  \/ (\E plan \in Plans : ApprovePlan(plan)) \/ CreateManifest
  \/ BuildChecks \/ Hash \/ Probe \/ AfterRender
  \/ QaChecks \/ TechnicalChecks \/ MeasureLoudness

LEMMA OnlyOpKeeps ==
  ASSUME Inv, OnlyOp, OpInv'
  PROVE  Inv'
BY DEF Inv, OnlyOp, StoreInv, DocsIn, FileKinds

LEMMA LookedKeeps == Inv /\ Looked => Inv' /\ OnlyOp
<1> SUFFICES ASSUME Inv, Looked PROVE Inv' /\ OnlyOp
  OBVIOUS
<1> USE DEF At
<1>0. OnlyOp
  BY DEF Looked, OnlyOp, NothingPending, NoReceipt, FinishedReceipt, RecoverBuild,
         Dispatch, WriteExact, Preflight, ApprovePlan, CreateManifest,
         BuildChecks, Hash, Probe, AfterRender, QaChecks, TechnicalChecks,
         MeasureLoudness, stateVars, diskVars, editVars
<1>1. /\ op \in OpRecords /\ CmdInv /\ QuietInv /\ WorkInv /\ PromoteInv /\ ValueInv
      /\ UNCHANGED <<project, journal, tx, files, receipt, engine>>
      /\ engine \in Engines
  BY <1>0 DEF Inv, OpInv, OnlyOp
<1> USE <1>1
<1>2. ASSUME NEW p \in OpPcs, op' = [op EXCEPT !.pc = p]
      PROVE  /\ op' \in OpRecords /\ op'.pc = p /\ op'.cmd = op.cmd
             /\ op'.state = op.state /\ op'.engine = op.engine
             /\ op'.hash = op.hash /\ op'.probe = op.probe
             /\ op'.loudness = op.loudness /\ op'.value = op.value
             /\ op'.receipt = op.receipt
  BY <1>2 DEF OpRecords
<1>3. ASSUME NothingPending PROVE OpInv'
  <2>1. /\ op.pc = "recover" /\ journal = None /\ op' = [op EXCEPT !.pc = "receipt"]
        /\ "receipt" \in OpPcs
    BY <1>3 DEF NothingPending, Goto, OpPcs
  <2> QED BY <1>2, <2>1
          DEF OpInv, CmdInv, QuietInv, WorkInv, PromoteInv, ValueInv, AtWork
<1>4. ASSUME NoReceipt PROVE OpInv'
  <2>1. op.pc = "receipt" /\ op' = [op EXCEPT !.pc = "main"] /\ "main" \in OpPcs
    BY <1>4 DEF NoReceipt, Goto, OpPcs
  <2> QED BY <1>2, <2>1
          DEF OpInv, CmdInv, QuietInv, WorkInv, PromoteInv, ValueInv, AtWork
<1>5. ASSUME FinishedReceipt PROVE OpInv'
  <2>1. /\ op.pc = "receipt" /\ op' = [op EXCEPT !.pc = "dropReceipt"]
        /\ "dropReceipt" \in OpPcs /\ project \in States /\ project.stage \in Built
    BY <1>5 DEF FinishedReceipt, Goto, OpPcs, ValidState
  <2> QED BY <1>2, <2>1
          DEF OpInv, CmdInv, QuietInv, WorkInv, PromoteInv, ValueInv, AtWork
<1>6. ASSUME RecoverBuild PROVE OpInv'
  <2> DEFINE p == Promotion(receipt.master)
  <2>1. p \in {"commit", "dropStaged", "link"}
    BY <1>6 DEF RecoverBuild, Promotion
  <2>2. /\ op.pc \in {"receipt", "build"} /\ project.stage = "PLAN_APPROVED"
        /\ project \in States /\ project.schema_version = 2
        /\ receipt \in Receipts /\ op' = [op EXCEPT !.pc = p, !.receipt = receipt]
    BY <1>6 DEF RecoverBuild, ReceiptBinds, ValidState
  <2>3. receipt \in OwnReceipts /\ receipt # None
    BY <2>2, SortFacts DEF Inv
  <2> HIDE DEF p
  <2>4. /\ op' \in OpRecords /\ op'.pc = p /\ op'.receipt = receipt
    BY <2>1, <2>2, <2>3 DEF OpRecords, OpPcs, Opt
  <2> QED BY <2>1, <2>2, <2>3, <2>4
          DEF OpInv, CmdInv, QuietInv, WorkInv, PromoteInv, ValueInv, AtWork
<1>7. ASSUME Dispatch PROVE OpInv'
  <2>1. op.pc = "main" /\ project \in States /\ op.receipt = None
    BY <1>7 DEF Dispatch, ValidState, PromoteInv
  <2>2. CASE op' = NoOp
    <3>1. op' \in OpRecords /\ op'.pc = "idle" /\ op'.receipt = None
      BY <2>2 DEF NoOp, OpRecords, OpPcs, Opt
    <3> QED BY <2>1, <3>1
            DEF OpInv, CmdInv, QuietInv, WorkInv, PromoteInv, ValueInv, AtWork
  <2>3. CASE /\ op.cmd \in DOMAIN Required /\ project.stage = Required[op.cmd]
             /\ project.schema_version = 2
             /\ op' = [op EXCEPT !.pc = op.cmd, !.state = project]
    <3>1. /\ op.cmd \in {"approve", "build", "qa", "manifest"}
          /\ project.stage = StageOf(op.cmd)
      BY <2>3 DEF Required, StageOf
    <3>3. op.cmd \in OpPcs /\ project \in Opt(States)
      BY <2>1, <3>1 DEF OpPcs, Opt
    <3>2. /\ op' \in OpRecords /\ op'.pc = op.cmd /\ op'.cmd = op.cmd
          /\ op'.state = project /\ op'.receipt = None
      BY <2>1, <2>3, <3>3 DEF OpRecords
    <3> QED BY <2>1, <2>3, <3>1, <3>2
            DEF OpInv, CmdInv, QuietInv, WorkInv, PromoteInv, ValueInv, AtWork
  <2> QED BY <1>7, <2>2, <2>3 DEF Dispatch
<1>8. ASSUME WriteExact(Evidenced) PROVE OpInv'
  <2>1. PICK p \in {"replace", "register"} : op' = [op EXCEPT !.pc = p]
    BY <1>8 DEF WriteExact, Goto
  <2>2. op.pc = "write" /\ p \in OpPcs
    BY <1>8 DEF WriteExact, OpPcs
  <2>3. /\ op' \in OpRecords /\ op'.pc = p /\ op'.cmd = op.cmd
        /\ op'.state = op.state /\ op'.value = op.value /\ op'.receipt = op.receipt
    BY <1>2, <2>1, <2>2
  <2>4. CmdInv' /\ QuietInv' /\ WorkInv' /\ PromoteInv'
    BY <2>2, <2>3 DEF CmdInv, QuietInv, WorkInv, PromoteInv, AtWork
  <2>5. ValueInv'
    BY <2>2, <2>3 DEF ValueInv, AtWork
  <2> QED BY <2>3, <2>4, <2>5 DEF OpInv
<1>9. ASSUME Preflight PROVE OpInv'
  <2>1. /\ op.pc = "preflight" /\ journal = None /\ op' = [op EXCEPT !.pc = "hash"]
        /\ "hash" \in OpPcs
    BY <1>9 DEF Preflight, Goto, OpPcs
  <2> QED BY <1>2, <2>1
          DEF OpInv, CmdInv, QuietInv, WorkInv, PromoteInv, ValueInv, AtWork
<1>10. ASSUME NEW plan \in Plans, ApprovePlan(plan) PROVE OpInv'
  <2>1. op.pc = "approve" /\ op.cmd = "approve" /\ AtWork
    BY <1>10 DEF ApprovePlan, CmdInv, AtWork
  <2>2. /\ op' \in OpRecords /\ op'.pc = "write" /\ op'.cmd = op.cmd
        /\ op'.state = op.state /\ op'.value = plan /\ op'.receipt = op.receipt
    BY <1>10 DEF ApprovePlan, OpRecords, OpPcs, Opt, Values
  <2> QED BY <2>1, <2>2
          DEF OpInv, CmdInv, QuietInv, WorkInv, PromoteInv, ValueInv, AtWork
<1>11. ASSUME CreateManifest PROVE OpInv'
  <2>1. op.pc = "manifest" /\ op.cmd = "manifest" /\ AtWork
    BY <1>11 DEF CreateManifest, CmdInv, AtWork
  <2>2. ManifestOf(op.state) \in Manifests
    <3>1. project.stage = "QA_PASSED"
      BY <2>1 DEF WorkInv, StageOf
    <3>2. /\ op.state = project /\ project.source \in Media
          /\ project.approved_plan \in Plans /\ project.master \in Artifacts
          /\ project.qa \in Evaluations
      BY <2>1, <3>1, WorkFacts DEF Built
    <3> QED BY <3>2 DEF ManifestOf, Manifests
  <2>3. /\ op' \in OpRecords /\ op'.pc = "write" /\ op'.cmd = op.cmd
        /\ op'.state = op.state /\ op'.value = ManifestOf(op.state)
        /\ op'.receipt = op.receipt
    BY <1>11, <2>2 DEF CreateManifest, OpRecords, OpPcs, Opt, Values
  <2> QED BY <2>1, <2>2, <2>3
          DEF OpInv, CmdInv, QuietInv, WorkInv, PromoteInv, ValueInv, AtWork
<1>12. ASSUME BuildChecks PROVE OpInv'
  <2>1. /\ op.pc = "build" /\ op' \in OpRecords /\ op'.pc = "render"
        /\ op'.cmd = op.cmd /\ op'.state = op.state /\ op'.receipt = op.receipt
        /\ op'.engine = engine
    BY <1>12 DEF BuildChecks, OpRecords, OpPcs, Opt
  <2> QED BY <2>1
          DEF OpInv, CmdInv, QuietInv, WorkInv, PromoteInv, ValueInv, AtWork
<1>13. ASSUME Hash PROVE OpInv'
  <2>1. op.pc = "hash" /\ files[Probed] \in Media
    BY <1>13 DEF Hash, Probed, Inv, FileKinds, Opt, Media
  <2>2. /\ op' \in OpRecords /\ op'.pc = "probe" /\ op'.cmd = op.cmd
        /\ op'.state = op.state /\ op'.receipt = op.receipt
        /\ op'.engine = op.engine /\ op'.hash \in Media
    BY <1>13, <2>1 DEF Hash, OpRecords, OpPcs, Opt
  <2> QED BY <2>1, <2>2
          DEF OpInv, CmdInv, QuietInv, WorkInv, PromoteInv, ValueInv, AtWork
<1>14. ASSUME Probe PROVE OpInv'
  <2>1. op.pc = "probe" /\ files[Probed] \in Media
    BY <1>14 DEF Probe, Probed, Inv, FileKinds, Opt, Media
  <2>2. /\ op' \in OpRecords /\ op'.pc = "rehash" /\ op'.cmd = op.cmd
        /\ op'.state = op.state /\ op'.receipt = op.receipt
        /\ op'.engine = op.engine /\ op'.hash = op.hash /\ op'.probe \in Media
    BY <1>14, <2>1 DEF Probe, OpRecords, OpPcs, Opt
  <2> QED BY <2>1, <2>2
          DEF OpInv, CmdInv, QuietInv, WorkInv, PromoteInv, ValueInv, AtWork
<1>15. ASSUME AfterRender PROVE OpInv'
  <2> DEFINE r == [source_sha256 |-> op.state.source,
                   plan_sha256 |-> op.state.approved_plan,
                   master |-> BuildIdentity]
  <2>1. op.pc = "rehash" /\ op.cmd = "build" /\ AtWork
    BY <1>15 DEF AfterRender, AtWork
  <2>2. /\ project.stage = "PLAN_APPROVED" /\ project \in States
        /\ project.schema_version = 2
    BY <2>1 DEF WorkInv, StageOf
  <2>3. /\ op.state = project /\ project.source \in Media
        /\ project.approved_plan \in Plans
        /\ op.engine \in Engines /\ op.hash \in Media /\ op.probe \in Media
    BY <2>1, <2>2, WorkFacts DEF ValueInv
  <2>4. BuildIdentity \in Artifacts
    BY <2>3 DEF BuildIdentity, Artifacts, Opt
  <2>5. r \in OwnReceipts /\ r # None
    BY <2>3, <2>4, SortFacts DEF OwnReceipts
  <2>6. op' = [op EXCEPT !.pc = "writeReceipt", !.receipt = r]
    BY <1>15 DEF AfterRender
  <2> HIDE DEF r
  <2>7. /\ op' \in OpRecords /\ op'.pc = "writeReceipt" /\ op'.cmd = op.cmd
        /\ op'.state = op.state /\ op'.receipt = r
    BY <2>5, <2>6 DEF OpRecords, OpPcs, Opt
  <2> QED BY <2>1, <2>2, <2>5, <2>7
          DEF OpInv, CmdInv, QuietInv, WorkInv, PromoteInv, ValueInv, AtWork
<1>16. ASSUME QaChecks PROVE OpInv'
  <2>1. /\ op.pc = "qa" /\ op' \in OpRecords /\ op'.pc = "technical"
        /\ op'.cmd = op.cmd /\ op'.state = op.state /\ op'.receipt = op.receipt
        /\ op'.engine = engine
    BY <1>16 DEF QaChecks, OpRecords, OpPcs, Opt
  <2> QED BY <2>1
          DEF OpInv, CmdInv, QuietInv, WorkInv, PromoteInv, ValueInv, AtWork
<1>17. ASSUME TechnicalChecks PROVE OpInv'
  <2>1. op.pc = "technical" /\ files["master"] \in Media
    BY <1>17 DEF TechnicalChecks, Inv, FileKinds, Opt
  <2>2. /\ op' \in OpRecords /\ op'.pc = "loudness" /\ op'.cmd = op.cmd
        /\ op'.state = op.state /\ op'.receipt = op.receipt
        /\ op'.engine = op.engine /\ op'.probe \in Media
    BY <1>17, <2>1 DEF TechnicalChecks, OpRecords, OpPcs, Opt
  <2> QED BY <2>1, <2>2
          DEF OpInv, CmdInv, QuietInv, WorkInv, PromoteInv, ValueInv, AtWork
<1>18. ASSUME MeasureLoudness PROVE OpInv'
  <2>1. op.pc = "loudness" /\ files["master"] \in Media
    BY <1>18 DEF MeasureLoudness, Inv, FileKinds, Opt
  <2>2. /\ op' \in OpRecords /\ op'.pc = "recheck" /\ op'.cmd = op.cmd
        /\ op'.state = op.state /\ op'.receipt = op.receipt
        /\ op'.engine = op.engine /\ op'.probe = op.probe /\ op'.loudness \in Media
    BY <1>18, <2>1 DEF MeasureLoudness, OpRecords, OpPcs, Opt
  <2> QED BY <2>1, <2>2
          DEF OpInv, CmdInv, QuietInv, WorkInv, PromoteInv, ValueInv, AtWork
<1>19. OpInv'
  BY <1>3, <1>4, <1>5, <1>6, <1>7, <1>8, <1>9, <1>10, <1>11, <1>12, <1>13,
     <1>14, <1>15, <1>16, <1>17, <1>18 DEF Looked
<1> QED BY <1>0, <1>19, OnlyOpKeeps

-----------------------------------------------------------------------------
(* Steps of the store *)

LEMMA DocsBegin ==
  ASSUME NEW G, DocsIn(G), StoreInv, NEW after \in G, Begins(after)
  PROVE  DocsIn(G)'
BY BeginsKeeps DEF DocsIn, Begins

LEMMA DocsStore ==
  ASSUME NEW G, DocsIn(G), StoreInv,
         \/ J!Recover \/ J!Step \/ J!Return
         \/ tx' = J!Idle /\ UNCHANGED <<project, journal>>
         \/ UNCHANGED <<project, journal, tx>>
  PROVE  DocsIn(G)'
<1>0. J!Idle.pc = "idle"
  BY RecordDefinitions
<1>1. CASE J!Recover
  BY <1>1, RecoverKeeps DEF DocsIn
<1>2. CASE J!Step
  <2>1. tx.pc # "idle"
    BY <1>2, StepKeeps DEF Locals, Active
  <2> QED BY <1>2, <2>1, StepKeeps DEF DocsIn
<1>3. CASE J!Return
  BY <1>0, <1>3, ReturnKeeps DEF DocsIn
<1>4. CASE tx' = J!Idle /\ UNCHANGED <<project, journal>>
  BY <1>0, <1>4 DEF DocsIn
<1>5. CASE UNCHANGED <<project, journal, tx>>
  BY <1>5 DEF DocsIn
<1> QED BY <1>1, <1>2, <1>3, <1>4, <1>5

(* A document advanced one stage with one more piece of evidence. *)
After(s, stage, f, v) ==
  [[Advance(s, stage) EXCEPT ![f] = v] EXCEPT !.revision = project.revision + 1]

LEMMA AfterFields ==
  ASSUME NEW s \in States, NEW stage, NEW f \in Evidence, NEW v
  PROVE  /\ After(s, stage, f, v).stage = stage
         /\ After(s, stage, f, v)[f] = v
         /\ \A g \in {"schema_version", "content_id", "source", "approved_plan",
                      "master", "qa", "release_manifest"} :
              g # f => After(s, stage, f, v)[g] = s[g]
<1> DEFINE Names9 == {"schema_version", "revision", "content_id", "stage", "source",
                      "approved_plan", "master", "qa", "release_manifest"}
           a == Advance(s, stage)
           b == [a EXCEPT ![f] = v]
           c == [b EXCEPT !.revision = project.revision + 1]
<1>1. DOMAIN s = Names9
  BY DEF States
<1>2. /\ DOMAIN a = Names9 /\ a.stage = stage
      /\ \A g \in Names9 : g # "stage" => a[g] = s[g]
  BY <1>1 DEF Advance
<1> HIDE DEF a
<1>3. /\ DOMAIN b = Names9 /\ b[f] = v
      /\ \A g \in Names9 : g # f => b[g] = a[g]
  BY <1>2 DEF Evidence
<1> HIDE DEF b
<1>4. \A g \in Names9 : g # "revision" => c[g] = b[g]
  BY <1>3
<1>5. After(s, stage, f, v) = c
  BY DEF After, a, b
<1> HIDE DEF c
<1>6. f # "stage" /\ f # "revision" /\ f \in Names9
  BY DEF Evidence
<1>7. c.stage = stage /\ c[f] = v
  BY <1>2, <1>3, <1>4, <1>6
<1>8. \A g \in Names9 \ {"stage", "revision"} : g # f => c[g] = s[g]
  BY <1>2, <1>3, <1>4
<1> QED BY <1>5, <1>7, <1>8

(* The document a command registers at the end of its work. *)
Registers(stage, f, v) ==
  /\ f \in Evidence
  /\ Begins(After(project, stage, f, v))

LEMMA Registering ==
  ASSUME StoreInv
  PROVE  /\ CommitMaster => Registers("MASTER_READY", "master", op.receipt.master)
         /\ RegisterEvidence =>
              Registers(IF op.cmd = "approve" THEN "PLAN_APPROVED" ELSE "READY",
                        Evidenced, op.value)
         /\ AfterQa => Registers("QA_PASSED", "qa",
                                 [master_sha256 |-> op.state.master.sha256,
                                  probe |-> op.probe, loudness |-> op.loudness,
                                  engine_sha256 |-> op.engine])
<1>1. ASSUME NEW stage, NEW f \in Evidence, NEW v,
             J!TransactBegin([Advance(project, stage) EXCEPT ![f] = v])
      PROVE  Registers(stage, f, v)
  BY <1>1, StoreBegins DEF Registers, After
<1>2. ASSUME CommitMaster
      PROVE  Registers("MASTER_READY", "master", op.receipt.master)
  BY <1>1, <1>2 DEF CommitMaster, Evidence
<1>3. ASSUME RegisterEvidence
      PROVE  Registers(IF op.cmd = "approve" THEN "PLAN_APPROVED" ELSE "READY",
                       Evidenced, op.value)
  BY <1>1, <1>3 DEF RegisterEvidence, Evidence, Evidenced
<1>4. ASSUME AfterQa
      PROVE  Registers("QA_PASSED", "qa",
                       [master_sha256 |-> op.state.master.sha256,
                        probe |-> op.probe, loudness |-> op.loudness,
                        engine_sha256 |-> op.engine])
  BY <1>1, <1>4 DEF AfterQa, Evidence
<1> QED BY <1>2, <1>3, <1>4

(* A registered document has the new evidence, and the old one's other fields. *)
LEMMA RegisterFields ==
  ASSUME StoreInv, NEW stage, NEW f, NEW v, Registers(stage, f, v)
  PROVE  LET after == After(project, stage, f, v)
         IN /\ after \in States /\ ValidState(after) /\ project \in States
            /\ after.stage = stage /\ after[f] = v
            /\ \A g \in {"schema_version", "content_id", "source", "approved_plan",
                         "master", "qa", "release_manifest"} :
                 g # f => after[g] = project[g]
            /\ Follows(project.stage, stage)
BY LawfulSides, AfterFields DEF Registers, Begins

(* Moving the control, with the locals kept. *)
LEMMA Gone ==
  ASSUME op \in OpRecords, NEW p \in OpPcs, op' = [op EXCEPT !.pc = p]
  PROVE  /\ op' \in OpRecords /\ op'.pc = p /\ op'.cmd = op.cmd
         /\ op'.state = op.state /\ op'.engine = op.engine
         /\ op'.hash = op.hash /\ op'.probe = op.probe
         /\ op'.loudness = op.loudness /\ op'.value = op.value
         /\ op'.receipt = op.receipt
BY DEF OpRecords

(* A command is over. *)
LEMMA OpIdle ==
  ASSUME op' = NoOp, tx' = J!Idle
  PROVE  OpInv' /\ op'.pc = "idle"
<1>1. op' \in OpRecords /\ op'.pc = "idle" /\ op'.receipt = None /\ op'.cmd = "none"
  BY DEF NoOp, OpRecords, OpPcs, Opt
<1> QED BY <1>1
        DEF OpInv, CmdInv, QuietInv, WorkInv, PromoteInv, ValueInv, AtWork, At

Stored ==
  \/ RecoverJournal \/ StoreStep \/ StoreReturns \/ CommitMaster
  \/ RegisterEvidence \/ AfterQa \/ Stop \/ \E id \in Ids : Register(id)

LEMMA StoredKeeps == Inv /\ Stored => Inv'
<1> SUFFICES ASSUME Inv, Stored PROVE Inv'
  OBVIOUS
<1> USE DEF At
<1>0. UNCHANGED <<files, receipt, engine, edits>>
  BY DEF Stored, RecoverJournal, StoreStep, StoreReturns, CommitMaster,
         RegisterEvidence, AfterQa, Stop, Register, diskVars, editVars
<1>1. /\ op \in OpRecords /\ CmdInv /\ QuietInv /\ WorkInv /\ PromoteInv /\ ValueInv
      /\ StoreInv /\ DocsIn(Kinds) /\ FileKinds
  BY DEF Inv, OpInv
<1> USE <1>1
<1>2. ASSUME StoreInv', DocsIn(Kinds)', OpInv' PROVE Inv'
  BY <1>0, <1>2 DEF Inv, FileKinds
<1>3. CASE RecoverJournal
  <2>1. /\ op.pc = "recover" /\ op' = [op EXCEPT !.pc = "rolling"]
        /\ "rolling" \in OpPcs /\ J!Recover
    BY <1>3 DEF RecoverJournal, Goto, OpPcs
  <2>2. StoreInv' /\ tx' # J!Idle
    BY <2>1, RecoverKeeps, RecordDefinitions DEF Locals
  <2>3. DocsIn(Kinds)'
    BY <2>1, DocsStore
  <2>4. OpInv'
    BY <2>1, <2>2, Gone
       DEF OpInv, CmdInv, QuietInv, WorkInv, PromoteInv, ValueInv, AtWork
  <2> QED BY <1>2, <2>2, <2>3, <2>4
<1>4. CASE StoreStep
  <2>1. op.pc \in {"rolling", "committing"} /\ op' = op /\ J!Step
    BY <1>4 DEF StoreStep
  <2>2. StoreInv' /\ tx' # J!Idle /\ tx'.after = tx.after
    <3>1. J!Idle.pc = "idle"
      BY RecordDefinitions
    <3> QED BY <2>1, <3>1, StepKeeps DEF Locals, Active
  <2>3. DocsIn(Kinds)'
    BY <2>1, DocsStore
  <2>4. OpInv'
    BY <2>1, <2>2
       DEF OpInv, CmdInv, QuietInv, WorkInv, PromoteInv, ValueInv, AtWork
  <2> QED BY <1>2, <2>2, <2>3, <2>4
<1>5. CASE StoreReturns
  <2>1. /\ op.pc \in {"rolling", "committing"} /\ J!Return
        /\ op' = [op EXCEPT !.pc =
             CASE At("rolling") -> "receipt"
               [] At("committing") /\ op.receipt # None -> "dropReceipt"
               [] OTHER -> "main"]
    BY <1>5 DEF StoreReturns, Goto
  <2>2. /\ StoreInv' /\ tx' = J!Idle /\ project = tx.after
        /\ project' = project /\ journal = None /\ journal' = None
    BY <2>1, ReturnKeeps
  <2>3. DocsIn(Kinds)'
    BY <2>1, DocsStore
  <2>4. project \in States
    <3>1. tx.pc = "done"
      BY <2>1, ReturnKeeps
    <3>2. tx \in Locals
      BY <3>1, RecordDefinitions DEF StoreInv
    <3> QED BY <2>2, <3>2 DEF Locals
  <2>5. CASE op.pc = "rolling"
    <3>1. op' = [op EXCEPT !.pc = "receipt"] /\ "receipt" \in OpPcs
      BY <2>1, <2>5 DEF OpPcs
    <3>2. OpInv'
      BY <2>2, <2>5, <3>1, Gone
         DEF OpInv, CmdInv, QuietInv, WorkInv, PromoteInv, ValueInv, AtWork
    <3> QED BY <1>2, <2>2, <2>3, <3>2
  <2>6. CASE op.pc = "committing" /\ op.receipt # None
    <3>1. op' = [op EXCEPT !.pc = "dropReceipt"] /\ "dropReceipt" \in OpPcs
      BY <2>1, <2>6 DEF OpPcs
    <3>2. project.stage = "MASTER_READY" /\ project.master = op.receipt.master
      BY <2>2, <2>6 DEF PromoteInv
    <3>3. OpInv'
      BY <2>2, <2>4, <2>6, <3>1, <3>2, Gone
         DEF OpInv, CmdInv, QuietInv, WorkInv, PromoteInv, ValueInv, AtWork, Built
    <3> QED BY <1>2, <2>2, <2>3, <3>3
  <2>7. CASE op.pc = "committing" /\ op.receipt = None
    <3>1. op' = [op EXCEPT !.pc = "main"] /\ "main" \in OpPcs
      BY <2>1, <2>7 DEF OpPcs
    <3>2. OpInv'
      BY <2>2, <2>7, <3>1, Gone
         DEF OpInv, CmdInv, QuietInv, WorkInv, PromoteInv, ValueInv, AtWork
    <3> QED BY <1>2, <2>2, <2>3, <3>2
  <2> QED BY <2>1, <2>5, <2>6, <2>7
<1>6. ASSUME NEW stage, NEW f, NEW v, Registers(stage, f, v),
             After(project, stage, f, v) \in Kinds,
             op.pc # "idle", op' = [op EXCEPT !.pc = "committing"],
             op.receipt # None => /\ stage = "MASTER_READY" /\ f = "master"
                                  /\ v = op.receipt.master
      PROVE  Inv'
  <2> DEFINE after == After(project, stage, f, v)
  <2>1. Begins(after) /\ after \in Kinds /\ after.stage = stage /\ after[f] = v
    BY <1>6, RegisterFields DEF Registers
  <2> HIDE DEF after
  <2>2. StoreInv' /\ tx' \in Locals /\ tx'.pc = "prepare" /\ tx'.after = after
    BY <2>1, BeginsKeeps
  <2>3. DocsIn(Kinds)'
    BY <2>1, DocsBegin
  <2>4. tx' # J!Idle
    BY <2>2, RecordDefinitions
  <2>5. "committing" \in OpPcs
    BY DEF OpPcs
  <2>6. OpInv'
    BY <1>6, <2>1, <2>2, <2>4, <2>5, Gone
       DEF OpInv, CmdInv, QuietInv, WorkInv, PromoteInv, ValueInv, AtWork
  <2> QED BY <1>2, <2>2, <2>3, <2>6
<1>7. CASE CommitMaster
  <2> DEFINE m == op.receipt.master
             after == After(project, "MASTER_READY", "master", m)
  <2>1. Registers("MASTER_READY", "master", m)
    BY <1>7, Registering
  <2>2. /\ op.pc = "commit" /\ op' = [op EXCEPT !.pc = "committing"]
        /\ op.receipt # None /\ project \in Kinds
    BY <1>7, SortFacts DEF CommitMaster, Goto, PromoteInv, DocsIn
  <2>3. m \in Artifacts
    BY <2>2 DEF OpRecords, OwnReceipts, Opt
  <2>4. after \in Kinds
    <3>1. /\ after \in States /\ after.master = m
          /\ \A g \in {"schema_version", "source", "approved_plan", "qa"} :
               after[g] = project[g]
      BY <2>1, RegisterFields
    <3> HIDE DEF after, m
    <3> QED BY <2>2, <2>3, <3>1 DEF Kinds, Opt
  <2> QED BY <1>6, <2>1, <2>2, <2>4
<1>8. CASE RegisterEvidence
  <2> DEFINE stage == IF op.cmd = "approve" THEN "PLAN_APPROVED" ELSE "READY"
             after == After(project, stage, Evidenced, op.value)
  <2>1. Registers(stage, Evidenced, op.value)
    BY <1>8, Registering
  <2>2. /\ op.pc = "register" /\ op' = [op EXCEPT !.pc = "committing"]
        /\ op.receipt = None /\ op.cmd \in {"approve", "manifest"}
        /\ AtWork /\ project \in Kinds
    BY <1>8, SortFacts
       DEF RegisterEvidence, Goto, PromoteInv, CmdInv, AtWork, WorkInv, DocsIn
  <2>3. after \in Kinds
    <3>1. /\ after \in States /\ after[Evidenced] = op.value
          /\ \A g \in {"schema_version", "source", "approved_plan", "master", "qa"} :
               g # Evidenced => after[g] = project[g]
      BY <2>1, RegisterFields
    <3>2. Evidenced = "approved_plan" => op.value \in Plans
      BY <2>2 DEF ValueInv, Evidenced
    <3>3. Evidenced \in {"approved_plan", "release_manifest"}
      BY DEF Evidenced
    <3> HIDE DEF after
    <3> QED BY <2>2, <3>1, <3>2, <3>3 DEF Kinds, Opt
  <2> QED BY <1>6, <2>1, <2>2, <2>3
<1>9. CASE AfterQa
  <2> DEFINE v == [master_sha256 |-> op.state.master.sha256, probe |-> op.probe,
                   loudness |-> op.loudness, engine_sha256 |-> op.engine]
             after == After(project, "QA_PASSED", "qa", v)
  <2>1. Registers("QA_PASSED", "qa", v)
    BY <1>9, Registering
  <2>2. /\ op.pc = "recheck" /\ op' = [op EXCEPT !.pc = "committing"]
        /\ op.receipt = None /\ op.cmd = "qa" /\ AtWork /\ project \in Kinds
        /\ project.stage = "MASTER_READY"
    BY <1>9, SortFacts
       DEF AfterQa, Goto, PromoteInv, CmdInv, AtWork, WorkInv, DocsIn, StageOf
  <2>3. v \in Evaluations
    <3>1. op.state.master.sha256 \in Media
      BY <2>2, WorkFacts DEF Built
    <3>2. /\ op.probe \in Media /\ op.loudness \in Media /\ op.engine \in Engines
      BY <2>2 DEF ValueInv
    <3> QED BY <3>1, <3>2 DEF Evaluations, Opt
  <2>4. after \in Kinds
    <3>1. /\ after \in States /\ after.qa = v
          /\ \A g \in {"schema_version", "source", "approved_plan", "master"} :
               after[g] = project[g]
      BY <2>1, RegisterFields
    <3> HIDE DEF after, v
    <3> QED BY <2>2, <2>3, <3>1 DEF Kinds, Opt
  <2> QED BY <1>6, <2>1, <2>2, <2>4
<1>10. CASE Stop
  <2>1. op' = NoOp /\ tx' = J!Idle /\ UNCHANGED <<project, journal>>
    BY <1>10 DEF Stop
  <2> QED BY <1>2, <2>1, StopKeeps, DocsStore, OpIdle
<1>11. ASSUME NEW id \in Ids, Register(id) PROVE Inv'
  <2>1. /\ op.pc = "rehash" /\ op' = NoOp /\ J!Initialize(NewState(id, op.hash))
        /\ op.hash \in Sources \cup Strays
    BY <1>11 DEF Register, Holds, FileKinds, Opt
  <2>2. NewState(id, op.hash) \in Kinds
    BY <2>1, SortFacts DEF NewState, Kinds, States, Stages, Opt
  <2>3. /\ StoreInv' /\ project' = NewState(id, op.hash) /\ journal' = journal
        /\ journal = None /\ tx.pc = "idle" /\ tx' = tx
    BY <2>1, <2>2, RegisterKeeps DEF Kinds
  <2>4. tx' = J!Idle
    BY <2>1, <2>3 DEF QuietInv
  <2>5. DocsIn(Kinds)'
    BY <2>2, <2>3 DEF DocsIn
  <2> QED BY <1>2, <2>1, <2>3, <2>4, <2>5, OpIdle
<1> QED BY <1>3, <1>4, <1>5, <1>7, <1>8, <1>9, <1>10, <1>11 DEF Stored

-----------------------------------------------------------------------------
(* Steps that write a file, and outside edits *)

KindOf(n) ==
  IF n = "source" THEN Opt(Sources \cup Strays) ELSE
  IF n = "approved_plan" THEN Opt(Plans \cup Strays) ELSE
  IF n \in {"master", "staged"} THEN Opt(Media) ELSE Opt(Digests \cup Manifests)

LEMMA FileWritten ==
  ASSUME FileKinds, NEW n \in Names, NEW c \in KindOf(n),
         files' = [files EXCEPT ![n] = c]
  PROVE  /\ FileKinds' /\ files'[n] = c
         /\ \A m \in Names : m # n => files'[m] = files[m]
<1>1. c \in Opt(Digests \cup Manifests)
  BY SortFacts DEF KindOf, Opt
<1>2. files' \in [Names -> Opt(Digests \cup Manifests)]
  BY <1>1 DEF FileKinds
<1>3. files'[n] = c /\ \A m \in Names : m # n => files'[m] = files[m]
  BY DEF FileKinds
<1> QED BY <1>2, <1>3 DEF FileKinds, KindOf, Names

Wrote ==
  \/ Link \/ DropStaged \/ Replace(Evidenced) \/ RenderStart \/ RenderEnd
  \/ DropReceipt \/ WriteReceipt

LEMMA WroteKeeps == Inv /\ Wrote => Inv'
<1> SUFFICES ASSUME Inv, Wrote PROVE Inv'
  OBVIOUS
<1> USE DEF At
<1>0. UNCHANGED <<project, journal, tx, engine, edits>>
  BY DEF Wrote, Link, DropStaged, Replace, RenderStart, RenderEnd, DropReceipt,
         WriteReceipt, stateVars, editVars
<1>1. /\ op \in OpRecords /\ CmdInv /\ QuietInv /\ WorkInv /\ PromoteInv /\ ValueInv
      /\ StoreInv /\ DocsIn(Kinds) /\ FileKinds
      /\ receipt \in OwnReceipts \cup {None, Garbage} /\ engine \in Engines
  BY DEF Inv, OpInv
<1> USE <1>1
<1>2. ASSUME FileKinds', OpInv', receipt' \in OwnReceipts \cup {None, Garbage}
      PROVE  Inv'
  BY <1>0, <1>2 DEF Inv, StoreInv, DocsIn
<1>3. CASE Link
  <2>1. /\ op.pc = "link" /\ op' = [op EXCEPT !.pc = "dropStaged"]
        /\ "dropStaged" \in OpPcs /\ receipt' = receipt
        /\ files' = [files EXCEPT !["master"] = files["staged"]]
    BY <1>3 DEF Link, Goto, OpPcs
  <2>2. files["staged"] \in KindOf("master") /\ "master" \in Names
    BY DEF FileKinds, KindOf, Names
  <2>3. FileKinds'
    BY <2>1, <2>2, FileWritten
  <2>4. OpInv'
    BY <1>0, <2>1, Gone
       DEF OpInv, CmdInv, QuietInv, WorkInv, PromoteInv, ValueInv, AtWork
  <2> QED BY <1>2, <2>1, <2>3, <2>4
<1>4. CASE DropStaged
  <2>1. /\ op.pc = "dropStaged" /\ op' = [op EXCEPT !.pc = "commit"]
        /\ "commit" \in OpPcs /\ receipt' = receipt
        /\ files' = [files EXCEPT !["staged"] = None]
    BY <1>4 DEF DropStaged, Goto, OpPcs
  <2>2. None \in KindOf("staged") /\ "staged" \in Names
    BY DEF KindOf, Names, Opt
  <2>3. FileKinds'
    BY <2>1, <2>2, FileWritten
  <2>4. OpInv'
    BY <1>0, <2>1, Gone
       DEF OpInv, CmdInv, QuietInv, WorkInv, PromoteInv, ValueInv, AtWork
  <2> QED BY <1>2, <2>1, <2>3, <2>4
<1>5. CASE Replace(Evidenced)
  <2>1. /\ op.pc = "replace" /\ op' = [op EXCEPT !.pc = "register"]
        /\ "register" \in OpPcs /\ receipt' = receipt
        /\ files' = [files EXCEPT ![Evidenced] = op.value]
        /\ op.cmd \in {"approve", "manifest"}
    BY <1>5 DEF Replace, Goto, OpPcs, CmdInv
  <2>2. op.value \in KindOf(Evidenced) /\ Evidenced \in Names
    BY <2>1 DEF KindOf, Names, Opt, Evidenced, ValueInv
  <2>3. FileKinds'
    BY <2>1, <2>2, FileWritten
  <2>4. /\ op' \in OpRecords /\ op'.pc = "register" /\ op'.cmd = op.cmd
        /\ op'.state = op.state /\ op'.value = op.value /\ op'.receipt = op.receipt
    BY <2>1, Gone
  <2>5. CmdInv' /\ QuietInv' /\ WorkInv' /\ PromoteInv'
    BY <1>0, <2>1, <2>4 DEF CmdInv, QuietInv, WorkInv, PromoteInv, AtWork
  <2>6. ValueInv'
    BY <2>1, <2>4 DEF ValueInv, AtWork
  <2>7. OpInv'
    BY <2>4, <2>5, <2>6 DEF OpInv
  <2> QED BY <1>2, <2>1, <2>3, <2>7
<1>6. CASE RenderStart
  <2> DEFINE v == [source |-> files["source"], plan |-> op.state.approved_plan,
                   engine |-> engine]
  <2>1. /\ op.pc = "render" /\ op' = [op EXCEPT !.pc = "rendering", !.value = v]
        /\ receipt' = receipt /\ files["source"] # None
        /\ files' = [files EXCEPT !["staged"] = Partial]
        /\ op.cmd = "build" /\ AtWork
    BY <1>6 DEF RenderStart, CmdInv, AtWork
  <2>2. v \in Renders
    <3>1. project.stage = "PLAN_APPROVED"
      BY <2>1 DEF WorkInv, StageOf
    <3>2. op.state.approved_plan \in Plans
      BY <2>1, <3>1, WorkFacts
    <3>3. files["source"] \in Sources \cup Strays
      BY <2>1 DEF FileKinds, Opt
    <3> QED BY <3>2, <3>3 DEF Renders
  <2> HIDE DEF v
  <2>3. Partial \in KindOf("staged") /\ "staged" \in Names
    BY SortFacts DEF KindOf, Names, Opt
  <2>4. FileKinds'
    BY <2>1, <2>3, FileWritten
  <2>5. /\ op' \in OpRecords /\ op'.pc = "rendering" /\ op'.cmd = op.cmd
        /\ op'.state = op.state /\ op'.value = v /\ op'.receipt = op.receipt
        /\ op'.engine = op.engine
    BY <2>1, <2>2 DEF OpRecords, OpPcs, Opt, Values
  <2>6. OpInv'
    BY <1>0, <2>1, <2>2, <2>5
       DEF OpInv, CmdInv, QuietInv, WorkInv, PromoteInv, ValueInv, AtWork
  <2> QED BY <1>2, <2>1, <2>4, <2>6
<1>7. CASE RenderEnd
  <2>1. /\ op.pc = "rendering" /\ op' = [op EXCEPT !.pc = "hash"]
        /\ "hash" \in OpPcs /\ receipt' = receipt /\ op.value \in Renders
        /\ files' = [files EXCEPT !["staged"] = op.value]
    BY <1>7 DEF RenderEnd, Goto, OpPcs, ValueInv
  <2>2. op.value \in KindOf("staged") /\ "staged" \in Names
    BY <2>1, SortFacts DEF KindOf, Names, Opt
  <2>3. FileKinds'
    BY <2>1, <2>2, FileWritten
  <2>4. OpInv'
    BY <1>0, <2>1, Gone
       DEF OpInv, CmdInv, QuietInv, WorkInv, PromoteInv, ValueInv, AtWork
  <2> QED BY <1>2, <2>1, <2>3, <2>4
<1>8. CASE DropReceipt
  <2>1. /\ op.pc = "dropReceipt" /\ receipt' = None /\ files' = files
        /\ op' = [op EXCEPT !.pc = "main", !.receipt = None]
    BY <1>8 DEF DropReceipt
  <2>2. /\ op' \in OpRecords /\ op'.pc = "main" /\ op'.cmd = op.cmd
        /\ op'.state = op.state /\ op'.receipt = None
    BY <2>1 DEF OpRecords, OpPcs, Opt
  <2>3. OpInv'
    BY <1>0, <2>1, <2>2
       DEF OpInv, CmdInv, QuietInv, WorkInv, PromoteInv, ValueInv, AtWork
  <2> QED BY <1>2, <2>1, <2>3 DEF FileKinds
<1>9. CASE WriteReceipt
  <2>1. /\ op.pc = "writeReceipt" /\ op' = [op EXCEPT !.pc = "link"]
        /\ "link" \in OpPcs /\ receipt' = op.receipt /\ files' = files
        /\ op.receipt # None
    BY <1>9 DEF WriteReceipt, Goto, OpPcs, PromoteInv
  <2>2. receipt' \in OwnReceipts
    BY <2>1 DEF OpRecords, Opt
  <2>3. OpInv'
    BY <1>0, <2>1, Gone
       DEF OpInv, CmdInv, QuietInv, WorkInv, PromoteInv, ValueInv, AtWork
  <2> QED BY <1>2, <2>1, <2>2, <2>3 DEF FileKinds
<1> QED BY <1>3, <1>4, <1>5, <1>6, <1>7, <1>8, <1>9 DEF Wrote

(* An outside edit moves no command and writes a content of the kind. *)
OutsideStep ==
  /\ UNCHANGED <<project, journal, tx, op>>
  /\ FileKinds' /\ edits' \in 0..MaxEdits
  /\ engine' \in Engines
  /\ receipt' \in OwnReceipts \cup {None, Garbage}

LEMMA OutsideTyped == Inv /\ Outside => OutsideStep
<1> SUFFICES ASSUME Inv, Outside PROVE OutsideStep
  OBVIOUS
<1> USE DEF Inv, stateVars
<1>1. ASSUME NEW thing, Edit(thing)
      PROVE  UNCHANGED <<project, journal, tx, op>> /\ edits' \in 0..MaxEdits
  BY <1>1, WorkspaceAssumption DEF Edit
<1>2. CASE EditFile
  <2>1. PICK n \in Names : \E c \in EditContents[n] \ {files[n]} :
          /\ Edit(n) /\ files' = [files EXCEPT ![n] = c]
          /\ UNCHANGED <<receipt, engine>>
    BY <1>2 DEF EditFile
  <2>3. PICK c \in EditContents[n] :
          /\ Edit(n) /\ files' = [files EXCEPT ![n] = c]
          /\ UNCHANGED <<receipt, engine>>
    BY <2>1
  <2>2. c \in KindOf(n)
    BY WorkspaceAssumption DEF KindOf, Names, Opt
  <2> QED BY <1>1, <2>2, <2>3, FileWritten DEF OutsideStep
<1>3. CASE EditReceipt
  BY <1>1, <1>3 DEF EditReceipt, OutsideStep, FileKinds
<1>4. CASE EngineDrift
  BY <1>1, <1>4 DEF EngineDrift, OutsideStep, FileKinds
<1>5. CASE SupplySource
  <2>1. PICK s \in Sources : files' = [files EXCEPT !["source"] = s]
    BY <1>5 DEF SupplySource
  <2>2. s \in KindOf("source") /\ "source" \in Names
    BY DEF KindOf, Names, Opt
  <2>3. FileKinds'
    BY <2>1, <2>2, FileWritten
  <2> QED BY <1>5, <2>3 DEF SupplySource, OutsideStep, editVars
<1> QED BY <1>2, <1>3, <1>4, <1>5 DEF Outside

LEMMA OutsideKeeps == Inv /\ OutsideStep => Inv'
<1> SUFFICES ASSUME Inv, OutsideStep PROVE Inv'
  OBVIOUS
<1>1. UNCHANGED <<project, journal, tx, op>>
  BY DEF OutsideStep
<1>2. StoreInv' /\ DocsIn(Kinds)'
  BY <1>1 DEF Inv, StoreInv, DocsIn
<1>3. OpInv'
  BY <1>1 DEF Inv, OpInv, CmdInv, QuietInv, WorkInv, PromoteInv, ValueInv, AtWork, At
<1> QED BY <1>2, <1>3 DEF Inv, OutsideStep

LEMMA BeginKeeps == ASSUME Inv, NEW cmd \in Commands, Begin(cmd) PROVE Inv' /\ OnlyOp
<1>1. OnlyOp
  BY DEF Begin, OnlyOp, stateVars, diskVars
<1>2. /\ op' \in OpRecords /\ op'.pc \in {"preflight", "recover"} /\ op'.receipt = None
      /\ op'.pc = "preflight" => op'.cmd = "init"
  BY DEF Begin, NoOp, OpRecords, OpPcs, Opt
<1>3. QuietInv'
  BY <1>1, <1>2 DEF Begin, QuietInv, Inv, OpInv, At, OnlyOp
<1>4. OpInv'
  BY <1>2, <1>3 DEF OpInv, CmdInv, WorkInv, PromoteInv, ValueInv, AtWork, At
<1> QED BY <1>1, <1>4, OnlyOpKeeps

LEMMA StutterKeeps ==
  ASSUME Inv, UNCHANGED vars
  PROVE  Inv'
<1>1. OutsideStep
  BY DEF Inv, OutsideStep, vars, stateVars, diskVars, editVars, FileKinds
<1> QED BY <1>1, OutsideKeeps

LEMMA StepKinds ==
  [Next]_vars <=> \/ Looked \/ Stored \/ Wrote
                  \/ \E cmd \in Commands : Begin(cmd)
                  \/ Outside \/ UNCHANGED vars
BY DEF Next, Program, Work, Looked, Stored, Wrote

LEMMA InvStep == Inv /\ [Next]_vars => Inv'
BY StepKinds, LookedKeeps, StoredKeeps, WroteKeeps, BeginKeeps, OutsideTyped,
   OutsideKeeps, StutterKeeps

(* Whatever is edited, wherever a command stops: the store is recoverable,  *)
(* and a command at work holds the project's document.                     *)
THEOREM WorkspaceInvariant == Spec => []Inv
BY InitInv, InvStep, PTL DEF Spec

(* Every file, document and local has its type, the manifest among them    *)
(* when manifests have digests.                                            *)
THEOREM TypesHold ==
  ASSUME Manifests \subseteq Digests
  PROVE  Spec => []TypeOK
<1>1. Inv => TypeOK
  <2> SUFFICES ASSUME Inv PROVE TypeOK
    OBVIOUS
  <2> USE DEF Inv
  <2>1. J!TypeOK
    BY StoreDefinitions, RecordDefinitions
       DEF J!TypeOK, J!Running, StoreInv, Locals, Active
  <2>2. DOMAIN files = Names /\ \A n \in Names : files[n] \in Opt(Digests)
    BY DEF FileKinds, Opt
  <2>3. /\ op.cmd \in Commands \cup {"none"} /\ op.state \in States \cup {None}
        /\ op.receipt \in Receipts \cup {None}
    BY SortFacts DEF OpInv, OpRecords, Opt
  <2>4. tx.pc # "idle" => At("rolling") \/ At("committing")
    BY RecordDefinitions DEF OpInv, QuietInv, At
  <2>5. receipt \in Receipts \cup {None, Garbage}
    BY SortFacts
  <2> QED BY <2>1, <2>2, <2>3, <2>4, <2>5 DEF TypeOK
<1> QED BY <1>1, WorkspaceInvariant, PTL

-----------------------------------------------------------------------------
(* The lifecycle *)

LEMMA AbstractDefinitions ==
  /\ \A s : ValidState(s) <=> J!Abstract!ValidState(s)
  /\ \A s, t : ValidTransition(s, t) <=> J!Abstract!ValidTransition(s, t)
BY DEF ValidTransition, J!Abstract!ValidTransition,
       ValidState, J!Abstract!ValidState, Follows, J!Abstract!Follows,
       ImmutableKept, J!Abstract!ImmutableKept,
       EvidenceKept, J!Abstract!EvidenceKept,
       States, J!Abstract!States, ValidMaster, J!Abstract!ValidMaster,
       ValidQa, J!Abstract!ValidQa, Stages, J!Abstract!Stages,
       Built, J!Abstract!Built, Evidence, J!Abstract!Evidence,
       NextStage, J!Abstract!NextStage, Opt, J!Abstract!Opt,
       Masters, J!Abstract!Masters, Qas, J!Abstract!Qas

LEMMA LifecycleStep ==
  Inv /\ [Next]_vars => [J!Abstract!Next]_(J!Abstract!lvars)
<1> SUFFICES ASSUME Inv, [Next]_vars
             PROVE  \/ J!Abstract!Next
                    \/ J!Committed' = J!Committed /\ project' = project
  BY DEF J!Abstract!lvars
<1>0. StoreInv /\ OpInv
  BY DEF Inv
<1>1. J!Committed = IF journal = None THEN project ELSE journal.after
  BY DEF J!Committed
<1>2. J!Committed' = IF journal' = None THEN project' ELSE journal'.after
  BY DEF J!Committed
<1>3. CASE UNCHANGED <<project, journal>>
  BY <1>1, <1>2, <1>3
<1>4. ASSUME NEW id \in Ids, Register(id) PROVE J!Abstract!Register
  <2>1. J!Initialize(NewState(id, op.hash))
    BY <1>4 DEF Register
  <2>2. /\ project = None /\ journal = None /\ journal' = None
        /\ project' = NewState(id, op.hash) /\ ValidState(project')
    BY <2>1, StoreDefinitions DEF J!Initialize
  <2>3. J!Committed = None /\ J!Committed' = project'
    BY <1>1, <1>2, <2>2
  <2>4. project' = J!Abstract!NewState(project'.content_id, project'.source)
    BY <2>2 DEF NewState, J!Abstract!NewState
  <2> QED BY <2>2, <2>3, <2>4, AbstractDefinitions DEF J!Abstract!Register
<1>5. CASE J!Prepare
  <2>1. /\ journal = None /\ project = tx.before /\ Lawful(tx.before, tx.after)
        /\ project' = project
        /\ journal' = [before |-> tx.before, after |-> tx.after]
    BY <1>0, <1>5 DEF J!Prepare, StoreInv
  <2>2. journal' # None /\ journal'.after = tx.after
    <3>1. journal' \in Sides
      BY <2>1, LawfulSides DEF Sides
    <3> QED BY <1>0, <2>1, <3>1, NotNone
  <2>3. J!Committed = project /\ J!Committed' = tx.after
    BY <1>1, <1>2, <2>1, <2>2
  <2>4. J!Abstract!Commit
    BY <2>1, <2>3, AbstractDefinitions DEF J!Abstract!Commit, Lawful
  <2> QED BY <2>4 DEF J!Abstract!Next
<1>6. CASE J!Compare
  BY <1>3, <1>6 DEF J!Compare
<1>7. CASE J!Apply
  <2>1. /\ journal # None /\ journal.after = tx.after
        /\ project' = tx.after /\ journal' = journal
    BY <1>0, <1>7 DEF J!Apply, StoreInv
  <2>2. J!Abstract!Publish
    BY <1>1, <1>2, <2>1 DEF J!Abstract!Publish
  <2> QED BY <2>2 DEF J!Abstract!Next
<1>8. CASE J!Clear
  <2>1. /\ journal # None /\ journal.after = tx.after /\ project = tx.after
        /\ project' = project /\ journal' = None
    BY <1>0, <1>8 DEF J!Clear, StoreInv
  <2> QED BY <1>1, <1>2, <2>1
<1>9. ASSUME \/ Looked \/ Wrote \/ Outside \/ UNCHANGED vars
             \/ \E cmd \in Commands : Begin(cmd)
      PROVE  UNCHANGED <<project, journal>>
  <2>1. CASE Looked
    BY <2>1, LookedKeeps DEF OnlyOp
  <2>2. CASE Wrote
    BY <2>2 DEF Wrote, Link, DropStaged, Replace, RenderStart, RenderEnd,
                DropReceipt, WriteReceipt, stateVars
  <2>3. CASE Outside
    BY <2>3, OutsideTyped DEF OutsideStep
  <2>4. CASE \E cmd \in Commands : Begin(cmd)
    BY <2>4, BeginKeeps DEF OnlyOp
  <2> QED BY <1>9, <2>1, <2>2, <2>3, <2>4 DEF vars, stateVars
<1>10. ASSUME \/ RecoverJournal \/ StoreReturns \/ CommitMaster
              \/ RegisterEvidence \/ AfterQa \/ Stop
       PROVE  UNCHANGED <<project, journal>>
  BY <1>10 DEF RecoverJournal, J!Recover, J!RollForward, J!FinishClear,
               StoreReturns, J!Return, CommitMaster, RegisterEvidence, AfterQa,
               J!TransactBegin, Stop
<1>11. CASE StoreStep
  BY <1>5, <1>6, <1>7, <1>8, <1>11 DEF StoreStep, J!Step
<1>12. CASE \E id \in Ids : Register(id)
  BY <1>4, <1>12 DEF J!Abstract!Next
<1> QED BY <1>3, <1>9, <1>10, <1>11, <1>12, StepKinds DEF Stored

(* The commands over the store implement the lifecycle, however often they *)
(* are stopped and whatever is edited beside them.                         *)
THEOREM WorkspaceRefinement ==
  ASSUME Legacy = {}
  PROVE  Spec => ImplementsLifecycle
<1>1. Init => J!Abstract!Init
  BY DEF Init, J!Abstract!Init, J!Committed
<1> QED BY <1>1, LifecycleStep, WorkspaceInvariant, PTL
        DEF Spec, ImplementsLifecycle, J!ImplementsLifecycle, J!Abstract!Spec

-----------------------------------------------------------------------------
(* What stays, step by step *)

(* The files a program's step writes, and the locals it keeps.             *)
LEMMA StoredFrame ==
  Stored => UNCHANGED <<files, receipt, engine, edits, touched>>
BY DEF Stored, RecoverJournal, StoreStep, StoreReturns, CommitMaster,
       RegisterEvidence, AfterQa, Stop, Register, diskVars, editVars

LEMMA LookedFrame ==
  Looked => UNCHANGED <<project, journal, tx, files, receipt, engine, edits, touched>>
BY DEF Looked, NothingPending, NoReceipt, FinishedReceipt, RecoverBuild,
       Dispatch, WriteExact, Preflight, ApprovePlan, CreateManifest,
       BuildChecks, Hash, Probe, AfterRender, QaChecks, TechnicalChecks,
       MeasureLoudness, stateVars, diskVars, editVars

LEMMA WroteFrame ==
  Wrote => UNCHANGED <<project, journal, tx, engine, edits, touched>>
BY DEF Wrote, Link, DropStaged, Replace, RenderStart, RenderEnd, DropReceipt,
       WriteReceipt, stateVars, editVars

LEMMA BeginFrame ==
  ASSUME NEW cmd, Begin(cmd)
  PROVE  /\ UNCHANGED <<project, journal, tx, files, receipt, engine, edits>>
         /\ op' = [NoOp EXCEPT !.cmd = cmd,
                               !.pc = IF cmd = "init" THEN "preflight" ELSE "recover"]
BY DEF Begin, stateVars, diskVars

LEMMA VarsFrame ==
  UNCHANGED vars =>
    UNCHANGED <<project, journal, tx, files, receipt, engine, op, edits, touched>>
BY DEF vars, stateVars, diskVars, editVars

(* Where the commands' own documents are in G, all documents stay in G.    *)
LEMMA DocsStep ==
  ASSUME NEW G, Inv, DocsIn(G), [Next]_vars,
         CommitMaster =>
           After(project, "MASTER_READY", "master", op.receipt.master) \in G,
         RegisterEvidence =>
           After(project, IF op.cmd = "approve" THEN "PLAN_APPROVED" ELSE "READY",
                 Evidenced, op.value) \in G,
         AfterQa =>
           After(project, "QA_PASSED", "qa",
                 [master_sha256 |-> op.state.master.sha256, probe |-> op.probe,
                  loudness |-> op.loudness, engine_sha256 |-> op.engine]) \in G,
         \A id \in Ids : Register(id) => NewState(id, op.hash) \in G
  PROVE  DocsIn(G)'
<1>0. StoreInv /\ OpInv
  BY DEF Inv
<1>1. ASSUME NEW stage, NEW f, NEW v, Registers(stage, f, v),
             After(project, stage, f, v) \in G
      PROVE  DocsIn(G)'
  BY <1>0, <1>1, DocsBegin DEF Registers
<1>2. CASE UNCHANGED <<project, journal, tx>>
  BY <1>0, <1>2, DocsStore
<1>3. CASE RecoverJournal \/ StoreStep \/ StoreReturns \/ Stop
  <2>1. \/ J!Recover \/ J!Step \/ J!Return
        \/ tx' = J!Idle /\ UNCHANGED <<project, journal>>
    BY <1>3 DEF RecoverJournal, StoreStep, StoreReturns, Stop
  <2> QED BY <1>0, <2>1, DocsStore
<1>4. CASE CommitMaster \/ RegisterEvidence \/ AfterQa
  BY <1>0, <1>1, <1>4, Registering
<1>5. ASSUME NEW id \in Ids, Register(id) PROVE DocsIn(G)'
  <2>1. J!Initialize(NewState(id, op.hash)) /\ NewState(id, op.hash) \in G
    BY <1>5 DEF Register
  <2>2. /\ project' = NewState(id, op.hash) /\ journal' = None
        /\ tx.pc = "idle" /\ tx' = tx
    BY <2>1 DEF J!Initialize
  <2> QED BY <2>1, <2>2 DEF DocsIn
<1> QED BY <1>2, <1>3, <1>4, <1>5, StepKinds, LookedFrame, WroteFrame, BeginFrame,
           VarsFrame, OutsideTyped DEF Stored, OutsideStep

(* An edit beside a command is of a thing that may be, and is remembered.  *)
Stirred(thing) ==
  /\ thing \in BusyThings
  /\ Restoring \/ thing \notin touched
  /\ <<thing, op.pc>> \notin Blind
  /\ thing \in touched'

LEMMA BusyEdit ==
  ASSUME Inv, Outside, op.pc # "idle"
  PROVE  /\ \A n \in Names : files'[n] # files[n] => Stirred(n)
         /\ engine' # engine => Stirred("engine")
         /\ receipt' # receipt => Stirred("receipt")
         /\ touched \subseteq touched'
         /\ UNCHANGED <<project, journal, tx, op>>
<1>1. ASSUME NEW thing, Edit(thing)
      PROVE  Stirred(thing) /\ touched \subseteq touched'
  BY <1>1 DEF Edit, Stirred, At
<1>2. UNCHANGED <<project, journal, tx, op>>
  BY OutsideTyped DEF OutsideStep
<1>3. CASE EditFile
  <2>1. PICK n \in Names : \E c \in EditContents[n] \ {files[n]} :
          /\ Edit(n) /\ files' = [files EXCEPT ![n] = c]
          /\ UNCHANGED <<receipt, engine>>
    BY <1>3 DEF EditFile
  <2>2. \A m \in Names : m # n => files'[m] = files[m]
    BY <2>1 DEF Inv, FileKinds
  <2> QED BY <1>1, <1>2, <2>1, <2>2
<1>4. CASE EditReceipt
  BY <1>1, <1>2, <1>4 DEF EditReceipt
<1>5. CASE EngineDrift
  BY <1>1, <1>2, <1>5 DEF EngineDrift
<1>6. ~SupplySource
  BY DEF SupplySource, At
<1> QED BY <1>3, <1>4, <1>5, <1>6 DEF Outside

-----------------------------------------------------------------------------
(* The manifest *)

ManifestDocs ==
  {s \in States :
     s.schema_version = 2 /\ s.stage = "READY"
       => s.release_manifest = ManifestOf(s)}

LEMMA ManifestStep ==
  Inv /\ DocsIn(ManifestDocs) /\ [Next]_vars => DocsIn(ManifestDocs)'
<1> SUFFICES ASSUME Inv, DocsIn(ManifestDocs), [Next]_vars
             PROVE  DocsIn(ManifestDocs)'
  OBVIOUS
<1>0. StoreInv /\ OpInv
  BY DEF Inv
<1>1. CommitMaster =>
        After(project, "MASTER_READY", "master", op.receipt.master) \in ManifestDocs
  BY <1>0, Registering, RegisterFields DEF ManifestDocs
<1>2. AfterQa =>
        After(project, "QA_PASSED", "qa",
              [master_sha256 |-> op.state.master.sha256, probe |-> op.probe,
               loudness |-> op.loudness, engine_sha256 |-> op.engine])
          \in ManifestDocs
  BY <1>0, Registering, RegisterFields DEF ManifestDocs
<1>3. ASSUME RegisterEvidence
      PROVE  After(project, IF op.cmd = "approve" THEN "PLAN_APPROVED" ELSE "READY",
                   Evidenced, op.value) \in ManifestDocs
  <2>1. /\ op.pc = "register" /\ op.cmd \in {"approve", "manifest"} /\ AtWork
    BY <1>0, <1>3 DEF RegisterEvidence, At, AtWork, OpInv, CmdInv
  <2>2. CASE op.cmd = "approve"
    BY <1>0, <1>3, <2>2, Registering, RegisterFields DEF ManifestDocs
  <2>3. CASE op.cmd = "manifest"
    <3> DEFINE after == After(project, "READY", "release_manifest", op.value)
    <3>1. Registers("READY", "release_manifest", op.value)
      BY <1>0, <1>3, <2>3, Registering DEF Evidenced
    <3>2. /\ after \in States /\ after.release_manifest = op.value
          /\ \A g \in {"source", "approved_plan", "master", "qa"} :
               after[g] = project[g]
      BY <1>0, <3>1, RegisterFields
    <3>3. op.value = ManifestOf(project)
      BY <1>0, <2>1, <2>3 DEF OpInv, ValueInv, WorkInv
    <3> HIDE DEF after
    <3>4. ManifestOf(after) = ManifestOf(project)
      BY <3>2 DEF ManifestOf
    <3>5. after \in ManifestDocs
      BY <3>2, <3>3, <3>4 DEF ManifestDocs
    <3> QED BY <2>3, <3>5 DEF after, Evidenced
  <2> QED BY <2>1, <2>2, <2>3
<1>4. ASSUME NEW id \in Ids, Register(id)
      PROVE  NewState(id, op.hash) \in ManifestDocs
  <2>1. ValidState(NewState(id, op.hash))
    BY <1>4, StoreDefinitions DEF Register, J!Initialize
  <2>2. NewState(id, op.hash).stage = "REGISTERED"
    BY DEF NewState
  <2> QED BY <2>1, <2>2 DEF ManifestDocs, ValidState
<1> QED BY <1>1, <1>2, <1>3, <1>4, DocsStep

(* A manifest names the registered evidence, whatever is edited while it   *)
(* is made, and whoever writes release_manifest meanwhile.                 *)
THEOREM ManifestsBound == Spec => []ManifestBound
<1>1. Init => DocsIn(ManifestDocs)
  BY LegacyAssumption, RecordDefinitions
     DEF Init, DocsIn, ManifestDocs, ValidState
<1>2. Spec => []DocsIn(ManifestDocs)
  BY <1>1, ManifestStep, WorkspaceInvariant, PTL DEF Spec
<1>3. Inv /\ DocsIn(ManifestDocs) => ManifestBound
  BY NotNone DEF Inv, DocsIn, ManifestDocs, ManifestBound
<1> QED BY <1>2, <1>3, WorkspaceInvariant, PTL

-----------------------------------------------------------------------------
(* Where a command can come from *)

LEMMA Arrivals ==
  ASSUME Inv
  PROVE  /\ NothingPending => op'.pc = "receipt"
         /\ RecoverJournal => op'.pc = "rolling"
         /\ StoreStep => op' = op /\ op.pc \in {"rolling", "committing"}
         /\ StoreReturns => op'.pc \in {"receipt", "dropReceipt", "main"}
         /\ NoReceipt => op'.pc = "main"
         /\ FinishedReceipt => op'.pc = "dropReceipt"
         /\ RecoverBuild => op'.pc \in {"commit", "dropStaged", "link"}
         /\ Link => op'.pc = "dropStaged"
         /\ DropStaged => op'.pc = "commit"
         /\ CommitMaster => op'.pc = "committing"
         /\ DropReceipt => op'.pc = "main"
         /\ Dispatch => op'.pc \in {"idle", "approve", "build", "qa", "manifest"}
         /\ WriteExact(Evidenced) => op'.pc \in {"replace", "register"}
         /\ Replace(Evidenced) => op'.pc = "register"
         /\ RegisterEvidence => op'.pc = "committing"
         /\ Preflight => op'.pc = "hash"
         /\ \A id \in Ids : Register(id) => op'.pc = "idle"
         /\ \A plan \in Plans : ApprovePlan(plan) => op'.pc = "write"
         /\ CreateManifest => op'.pc = "write"
         /\ BuildChecks => op'.pc = "render"
         /\ RenderStart => op'.pc = "rendering"
         /\ RenderEnd => op'.pc = "hash"
         /\ Hash => op'.pc = "probe"
         /\ Probe => op'.pc = "rehash"
         /\ AfterRender => op'.pc = "writeReceipt"
         /\ WriteReceipt => op'.pc = "link"
         /\ QaChecks => op'.pc = "technical"
         /\ TechnicalChecks => op'.pc = "loudness"
         /\ MeasureLoudness => op'.pc = "recheck"
         /\ AfterQa => op'.pc = "committing"
         /\ Stop => op'.pc = "idle"
         /\ \A cmd \in Commands : Begin(cmd) => op'.pc \in {"preflight", "recover"}
<1>1. op \in OpRecords /\ NoOp \in OpRecords /\ NoOp.pc = "idle"
  BY DEF Inv, OpInv, NoOp, OpRecords, OpPcs, Opt
<1>2. ASSUME NEW p, Goto(p) PROVE op'.pc = p
  BY <1>1, <1>2 DEF Goto, OpRecords
<1>3. /\ NothingPending => op'.pc = "receipt"
      /\ RecoverJournal => op'.pc = "rolling"
      /\ StoreStep => op' = op /\ op.pc \in {"rolling", "committing"}
      /\ NoReceipt => op'.pc = "main"
      /\ FinishedReceipt => op'.pc = "dropReceipt"
      /\ Link => op'.pc = "dropStaged"
      /\ DropStaged => op'.pc = "commit"
      /\ CommitMaster => op'.pc = "committing"
      /\ Replace(Evidenced) => op'.pc = "register"
      /\ RegisterEvidence => op'.pc = "committing"
      /\ Preflight => op'.pc = "hash"
      /\ RenderEnd => op'.pc = "hash"
      /\ WriteReceipt => op'.pc = "link"
      /\ AfterQa => op'.pc = "committing"
  BY <1>2 DEF NothingPending, RecoverJournal, StoreStep, NoReceipt,
              FinishedReceipt, Link, DropStaged, CommitMaster, Replace,
              RegisterEvidence, Preflight, RenderEnd, WriteReceipt, AfterQa, At
<1>4. /\ StoreReturns => op'.pc \in {"receipt", "dropReceipt", "main"}
      /\ WriteExact(Evidenced) => op'.pc \in {"replace", "register"}
  BY <1>2 DEF StoreReturns, WriteExact
<1>5. RecoverBuild => op'.pc \in {"commit", "dropStaged", "link"}
  BY <1>1 DEF RecoverBuild, Promotion, OpRecords
<1>6. Dispatch => op'.pc \in {"idle", "approve", "build", "qa", "manifest"}
  BY <1>1 DEF Dispatch, Required, OpRecords
<1>7. /\ DropReceipt => op'.pc = "main"
      /\ \A id \in Ids : Register(id) => op'.pc = "idle"
      /\ \A plan \in Plans : ApprovePlan(plan) => op'.pc = "write"
      /\ CreateManifest => op'.pc = "write"
      /\ BuildChecks => op'.pc = "render"
      /\ RenderStart => op'.pc = "rendering"
      /\ Stop => op'.pc = "idle"
  BY <1>1 DEF DropReceipt, Register, ApprovePlan, CreateManifest, BuildChecks,
              RenderStart, Stop, OpRecords
<1>8. /\ Hash => op'.pc = "probe"
      /\ Probe => op'.pc = "rehash"
      /\ AfterRender => op'.pc = "writeReceipt"
      /\ QaChecks => op'.pc = "technical"
      /\ TechnicalChecks => op'.pc = "loudness"
      /\ MeasureLoudness => op'.pc = "recheck"
  BY <1>1 DEF Hash, Probe, AfterRender, QaChecks, TechnicalChecks,
              MeasureLoudness, OpRecords
<1>9. \A cmd \in Commands : Begin(cmd) => op'.pc \in {"preflight", "recover"}
  BY DEF Begin, NoOp
<1> QED BY <1>3, <1>4, <1>5, <1>6, <1>7, <1>8, <1>9

(* A step that moves no command. *)
Still == op' = op /\ (Outside \/ UNCHANGED vars)

(* The one way in to each point of build, qa and the promotion. *)
LEMMA Entered ==
  ASSUME Inv, [Next]_vars
  PROVE  /\ op'.pc = "replace" => WriteExact(Evidenced) \/ Still
         /\ op'.pc = "render" => BuildChecks \/ Still
         /\ op'.pc = "rendering" => RenderStart \/ Still
         /\ op'.pc = "hash" => RenderEnd \/ Preflight \/ Still
         /\ op'.pc = "probe" => Hash \/ Still
         /\ op'.pc = "rehash" => Probe \/ Still
         /\ op'.pc = "writeReceipt" => AfterRender \/ Still
         /\ op'.pc = "link" => WriteReceipt \/ RecoverBuild \/ Still
         /\ op'.pc = "dropStaged" => Link \/ RecoverBuild \/ Still
         /\ op'.pc = "commit" => DropStaged \/ RecoverBuild \/ Still
         /\ op'.pc = "committing"
              => \/ CommitMaster \/ RegisterEvidence \/ AfterQa
                 \/ StoreStep \/ Still
         /\ op'.pc = "dropReceipt" => FinishedReceipt \/ StoreReturns \/ Still
         /\ op'.pc = "technical" => QaChecks \/ Still
         /\ op'.pc = "loudness" => TechnicalChecks \/ Still
         /\ op'.pc = "recheck" => MeasureLoudness \/ Still
<1>1. \/ Work \/ Stop \/ Still \/ \E cmd \in Commands : Begin(cmd)
  BY OutsideTyped DEF Next, Program, Still, OutsideStep, vars
<1>2. CASE Still
  BY <1>2
<1>3. CASE Stop \/ \E cmd \in Commands : Begin(cmd)
  BY <1>3, Arrivals
<1>4. CASE Work
  BY <1>4, Arrivals DEF Work
<1> QED BY <1>1, <1>2, <1>3, <1>4

(* Unless an edit may be undone, what changes beside a command is edited for *)
(* the first time.                                                         *)
LEMMA StillEdits ==
  ASSUME Inv, Still, op'.pc # "idle", ~Restoring
  PROVE  /\ UNCHANGED <<project, journal, tx, op>> /\ touched \subseteq touched'
         /\ \A n \in Names : files'[n] # files[n]
              => n \notin touched /\ n \in touched' /\ <<n, op.pc>> \notin Blind
         /\ engine' # engine => "engine" \notin touched /\ "engine" \in touched'
<1>1. CASE Outside
  BY <1>1, BusyEdit DEF Still, Stirred
<1>2. CASE UNCHANGED vars
  BY <1>2, VarsFrame
<1> QED BY <1>1, <1>2 DEF Still

(* Edited since the command began, and not what it was. *)
Moved(n, c) == n \in touched /\ files[n] # c

LEMMA MovedStays ==
  ASSUME Inv, Still, op'.pc # "idle", ~Restoring, NEW n \in Names, NEW c
  PROVE  /\ Moved(n, c) => Moved(n, c)'
         /\ files[n] = c \/ n \in touched => files'[n] = c \/ n \in touched'
BY StillEdits DEF Moved

-----------------------------------------------------------------------------
(* The evidence of qa *)

QaDocs ==
  {s \in States :
     s.schema_version = 2 /\ s.stage \in {"QA_PASSED", "READY"}
       => s.qa.probe = s.master.sha256 /\ s.qa.loudness = s.master.sha256}

(* A measurement of other bytes is of a master that has been edited, and    *)
(* so does not hold the registered bytes when qa looks again.              *)
MeasureInv ==
  LET sha == op.state.master.sha256
  IN /\ op.pc \in {"technical", "loudness", "recheck"}
          => files["master"] = sha \/ "master" \in touched
     /\ op.pc \in {"loudness", "recheck"} => op.probe = sha \/ Moved("master", sha)
     /\ At("recheck") => op.loudness = sha \/ Moved("master", sha)

LEMMA MeasureStep ==
  ASSUME ~Restoring
  PROVE  Inv /\ MeasureInv /\ [Next]_vars => MeasureInv'
<1> SUFFICES ASSUME Inv, MeasureInv, [Next]_vars PROVE MeasureInv'
  OBVIOUS
<1> USE DEF At
<1> DEFINE sha == op.state.master.sha256
<1>0. op \in OpRecords /\ "master" \in Names
  BY DEF Inv, OpInv, Names
<1>1. ASSUME QaChecks PROVE MeasureInv'
  <2>1. /\ op'.pc = "technical" /\ op'.state = op.state
        /\ files["master"] = sha /\ files' = files
    BY <1>0, <1>1 DEF QaChecks, Holds, OpRecords, diskVars
  <2> QED BY <2>1 DEF MeasureInv
<1>2. ASSUME TechnicalChecks PROVE MeasureInv'
  <2>1. /\ op.pc = "technical" /\ op'.pc = "loudness" /\ op'.state = op.state
        /\ op'.probe = files["master"] /\ files' = files /\ touched' = touched
    BY <1>0, <1>2 DEF TechnicalChecks, OpRecords, diskVars, editVars
  <2> QED BY <2>1 DEF MeasureInv, Moved
<1>3. ASSUME MeasureLoudness PROVE MeasureInv'
  <2>1. /\ op.pc = "loudness" /\ op'.pc = "recheck" /\ op'.state = op.state
        /\ op'.probe = op.probe /\ op'.loudness = files["master"]
        /\ files' = files /\ touched' = touched
    BY <1>0, <1>3 DEF MeasureLoudness, OpRecords, diskVars, editVars
  <2> QED BY <2>1 DEF MeasureInv, Moved
<1>4. ASSUME Still, op'.pc # "idle" PROVE MeasureInv'
  <2>1. op' = op
    BY <1>4 DEF Still
  <2>2. /\ Moved("master", sha) => Moved("master", sha)'
        /\ files["master"] = sha \/ "master" \in touched
             => files'["master"] = sha \/ "master" \in touched'
    BY <1>0, <1>4, <2>1, MovedStays DEF Moved
  <2> QED BY <2>1, <2>2 DEF MeasureInv, Moved
<1>5. CASE op'.pc \notin {"technical", "loudness", "recheck"}
  BY <1>5 DEF MeasureInv
<1> QED BY <1>1, <1>2, <1>3, <1>4, <1>5, Entered

LEMMA QaDocsStep ==
  Inv /\ MeasureInv /\ DocsIn(QaDocs) /\ [Next]_vars => DocsIn(QaDocs)'
<1> SUFFICES ASSUME Inv, MeasureInv, DocsIn(QaDocs), [Next]_vars
             PROVE  DocsIn(QaDocs)'
  OBVIOUS
<1> USE DEF At
<1>0. StoreInv /\ OpInv
  BY DEF Inv
<1>1. CommitMaster =>
        After(project, "MASTER_READY", "master", op.receipt.master) \in QaDocs
  BY <1>0, Registering, RegisterFields DEF QaDocs
<1>2. ASSUME AfterQa
      PROVE  After(project, "QA_PASSED", "qa",
                   [master_sha256 |-> op.state.master.sha256, probe |-> op.probe,
                    loudness |-> op.loudness, engine_sha256 |-> op.engine])
               \in QaDocs
  <2> DEFINE v == [master_sha256 |-> op.state.master.sha256, probe |-> op.probe,
                   loudness |-> op.loudness, engine_sha256 |-> op.engine]
             after == After(project, "QA_PASSED", "qa", v)
  <2>1. op.pc = "recheck" /\ files["master"] = op.state.master.sha256
    BY <1>2 DEF AfterQa, Holds
  <2>2. op.state = project
    BY <1>0, <2>1 DEF OpInv, WorkInv, AtWork
  <2>3. op.probe = project.master.sha256 /\ op.loudness = project.master.sha256
    BY <2>1, <2>2 DEF MeasureInv, Moved
  <2>4. after \in States /\ after.qa = v /\ after.master = project.master
    BY <1>0, <1>2, Registering, RegisterFields
  <2>5. v.probe = op.probe /\ v.loudness = op.loudness
    OBVIOUS
  <2> HIDE DEF after, v
  <2>6. after \in QaDocs
    BY <2>3, <2>4, <2>5 DEF QaDocs
  <2> QED BY <2>6 DEF after, v
<1>3. ASSUME RegisterEvidence
      PROVE  After(project, IF op.cmd = "approve" THEN "PLAN_APPROVED" ELSE "READY",
                   Evidenced, op.value) \in QaDocs
  <2> DEFINE after == After(project, IF op.cmd = "approve" THEN "PLAN_APPROVED"
                                     ELSE "READY", Evidenced, op.value)
  <2>1. /\ op.pc = "register" /\ op.cmd \in {"approve", "manifest"}
        /\ project.stage = StageOf(op.cmd) /\ project \in QaDocs
    BY <1>0, <1>3, SentinelsAssumption
       DEF RegisterEvidence, OpInv, CmdInv, WorkInv, AtWork, DocsIn
  <2>2. /\ after \in States
        /\ after.stage = IF op.cmd = "approve" THEN "PLAN_APPROVED" ELSE "READY"
        /\ after.schema_version = project.schema_version
        /\ after.qa = project.qa /\ after.master = project.master
    BY <1>0, <1>3, Registering, RegisterFields DEF Evidenced
  <2> HIDE DEF after
  <2>3. after \in QaDocs
    BY <2>1, <2>2 DEF QaDocs, StageOf
  <2> QED BY <2>3 DEF after
<1>4. ASSUME NEW id \in Ids, Register(id)
      PROVE  NewState(id, op.hash) \in QaDocs
  <2>1. ValidState(NewState(id, op.hash))
    BY <1>4, StoreDefinitions DEF Register, J!Initialize
  <2>2. NewState(id, op.hash).stage = "REGISTERED"
    BY DEF NewState
  <2> QED BY <2>1, <2>2 DEF QaDocs, ValidState
<1> QED BY <1>1, <1>2, <1>3, <1>4, DocsStep

(* QA evidence is of the registered master, however the master is swapped   *)
(* while it is measured, unless the swap is undone before qa looks again.  *)
THEOREM QaMeasuresTheMaster ==
  ASSUME ~Restoring
  PROVE  Spec => []QaOfMaster
<1> DEFINE QInv == MeasureInv /\ DocsIn(QaDocs)
<1>1. Init => QInv
  BY LegacyAssumption, RecordDefinitions
     DEF Init, NoOp, MeasureInv, At, DocsIn, QaDocs, ValidState
<1>2. Inv /\ QInv /\ [Next]_vars => QInv'
  BY MeasureStep, QaDocsStep
<1>3. Inv /\ QInv => QaOfMaster
  BY NotNone DEF Inv, DocsIn, QaDocs, QaOfMaster
<1> HIDE DEF QInv
<1> QED BY <1>1, <1>2, <1>3, WorkspaceInvariant, PTL DEF Spec

-----------------------------------------------------------------------------
(* The provenance of the master *)

Faithful(m) ==
  /\ m.sha256 = [source |-> m.source_sha256, plan |-> m.plan_sha256,
                 engine |-> m.engine]
  /\ m.probe = m.sha256

FaithfulDocs ==
  {s \in States : s.schema_version = 2 /\ s.master # None => Faithful(s.master)}

Rendered ==
  \/ At("rendering")
  \/ op.pc \in {"hash", "probe", "rehash"} /\ op.cmd = "build"

(* What build reads at different times was all read of the same files, or   *)
(* one of them was edited and is not what the last check will look for.    *)
RenderInv ==
  /\ At("render") => /\ files["source"] = op.state.source \/ "source" \in touched
                     /\ engine = op.engine \/ "engine" \in touched
  /\ Rendered =>
       /\ op.value \in Renders /\ op.value.plan = op.state.approved_plan
       /\ op.value.source = op.state.source \/ Moved("source", op.state.source)
       /\ \/ op.value.engine = op.engine
          \/ "engine" \in touched /\ engine # op.engine

StagedInv ==
  op.cmd = "build" =>
    /\ At("hash") => files["staged"] = op.value
    /\ op.pc \in {"probe", "rehash"} => op.hash = op.value
    /\ At("probe") => files["staged"] = op.hash \/ "staged" \in touched
    /\ At("rehash") => op.probe = op.hash \/ Moved("staged", op.hash)

ReceiptsFaithful ==
  /\ op.receipt # None => Faithful(op.receipt.master)
  /\ receipt \notin {None, Garbage} => Faithful(receipt.master)

LEMMA RenderStep ==
  ASSUME ~Restoring
  PROVE  Inv /\ RenderInv /\ [Next]_vars => RenderInv'
<1> SUFFICES ASSUME Inv, RenderInv, [Next]_vars PROVE RenderInv'
  OBVIOUS
<1> USE DEF At
<1>0. op \in OpRecords /\ OpInv /\ "source" \in Names
  BY DEF Inv, OpInv, Names
<1>1. ASSUME BuildChecks PROVE RenderInv'
  <2>1. /\ op'.pc = "render" /\ op'.state = op.state /\ op'.engine = engine
        /\ files["source"] = op.state.source /\ files' = files /\ engine' = engine
    BY <1>0, <1>1 DEF BuildChecks, InputsHold, Holds, OpRecords, diskVars
  <2> QED BY <2>1 DEF RenderInv, Rendered
<1>2. ASSUME RenderStart PROVE RenderInv'
  <2> DEFINE v == [source |-> files["source"], plan |-> op.state.approved_plan,
                   engine |-> engine]
  <2>1. /\ op.pc = "render" /\ op'.pc = "rendering" /\ op'.state = op.state
        /\ op'.value = v /\ op'.engine = op.engine
        /\ files' = [files EXCEPT !["staged"] = Partial]
        /\ engine' = engine /\ touched' = touched
    BY <1>0, <1>2 DEF RenderStart, OpRecords, editVars
  <2>2. files'["source"] = files["source"]
    BY <2>1 DEF Inv, FileKinds
  <2>3. /\ v.source = files["source"] /\ v.plan = op.state.approved_plan
        /\ v.engine = engine
    OBVIOUS
  <2>5. Inv'
    BY InvStep
  <2>4. op'.value \in Renders
    BY <2>1, <2>5 DEF Inv, OpInv, ValueInv
  <2> HIDE DEF v
  <2> QED BY <2>1, <2>2, <2>3, <2>4 DEF RenderInv, Rendered, Moved
<1>3. ASSUME RenderEnd PROVE RenderInv'
  <2>1. /\ op.pc = "rendering" /\ op' = [op EXCEPT !.pc = "hash"]
        /\ files' = [files EXCEPT !["staged"] = op.value]
        /\ engine' = engine /\ touched' = touched /\ "hash" \in OpPcs
    BY <1>3 DEF RenderEnd, Goto, editVars, OpPcs
  <2>2. files'["source"] = files["source"]
    BY <2>1 DEF Inv, FileKinds
  <2> QED BY <1>0, <2>1, <2>2, Gone DEF RenderInv, Rendered, Moved
<1>4. ASSUME Preflight PROVE RenderInv'
  <2>1. op'.pc = "hash" /\ op'.cmd = "init"
    BY <1>0, <1>4 DEF Preflight, Goto, OpInv, CmdInv, OpRecords
  <2> QED BY <2>1 DEF RenderInv, Rendered
<1>5. ASSUME Hash \/ Probe PROVE RenderInv'
  <2>1. /\ op.pc \in {"hash", "probe"} /\ op'.pc \in {"probe", "rehash"}
        /\ op'.state = op.state /\ op'.value = op.value /\ op'.engine = op.engine
        /\ op'.cmd = op.cmd
        /\ files' = files /\ engine' = engine /\ touched' = touched
    BY <1>0, <1>5 DEF Hash, Probe, OpRecords, editVars, diskVars
  <2> QED BY <2>1 DEF RenderInv, Rendered, Moved
<1>6. ASSUME Still, op'.pc # "idle" PROVE RenderInv'
  <2>1. op' = op
    BY <1>6 DEF Still
  <2>2. \A c : /\ Moved("source", c) => Moved("source", c)'
               /\ files["source"] = c \/ "source" \in touched
                    => files'["source"] = c \/ "source" \in touched'
    BY <1>0, <1>6, MovedStays DEF Moved
  <2>3. /\ "engine" \in touched => engine' = engine /\ "engine" \in touched'
        /\ engine' # engine => "engine" \in touched'
    BY <1>6, StillEdits
  <2> QED BY <2>1, <2>2, <2>3 DEF RenderInv, Rendered, Moved
<1>7. CASE op'.pc \notin {"render", "rendering", "hash", "probe", "rehash"}
  BY <1>7 DEF RenderInv, Rendered
<1> QED BY <1>1, <1>2, <1>3, <1>4, <1>5, <1>6, <1>7, Entered

LEMMA StagedStep ==
  ASSUME ~Restoring, <<"staged", "hash">> \in Blind
  PROVE  Inv /\ StagedInv /\ [Next]_vars => StagedInv'
<1> SUFFICES ASSUME Inv, StagedInv, [Next]_vars PROVE StagedInv'
  OBVIOUS
<1> USE DEF At
<1>0. op \in OpRecords /\ OpInv /\ "staged" \in Names
  BY DEF Inv, OpInv, Names
<1>3. ASSUME RenderEnd PROVE StagedInv'
  <2>1. /\ op' = [op EXCEPT !.pc = "hash"] /\ "hash" \in OpPcs
        /\ files' = [files EXCEPT !["staged"] = op.value]
    BY <1>3 DEF RenderEnd, Goto, OpPcs
  <2>2. files'["staged"] = op.value
    BY <1>0, <2>1 DEF Inv, FileKinds
  <2> QED BY <1>0, <2>1, <2>2, Gone DEF StagedInv
<1>4. ASSUME Preflight PROVE StagedInv'
  <2>1. op'.pc = "hash" /\ op'.cmd = "init"
    BY <1>0, <1>4 DEF Preflight, Goto, OpInv, CmdInv, OpRecords
  <2> QED BY <2>1 DEF StagedInv
<1>5. ASSUME Hash PROVE StagedInv'
  <2>1. /\ op.pc = "hash" /\ op'.pc = "probe" /\ op'.cmd = op.cmd
        /\ op'.value = op.value /\ files' = files /\ touched' = touched
        /\ op.cmd = "build" => op'.hash = files["staged"]
    BY <1>0, <1>5 DEF Hash, Probed, OpRecords, editVars, diskVars
  <2> QED BY <2>1 DEF StagedInv
<1>8. ASSUME Probe PROVE StagedInv'
  <2>1. /\ op.pc = "probe" /\ op'.pc = "rehash" /\ op'.cmd = op.cmd
        /\ op'.value = op.value /\ op'.hash = op.hash
        /\ files' = files /\ touched' = touched
        /\ op.cmd = "build" => op'.probe = files["staged"]
    BY <1>0, <1>8 DEF Probe, Probed, OpRecords, editVars, diskVars
  <2> QED BY <2>1 DEF StagedInv, Moved
<1>6. ASSUME Still, op'.pc # "idle" PROVE StagedInv'
  <2>1. op' = op
    BY <1>6 DEF Still
  <2>2. \A c : /\ Moved("staged", c) => Moved("staged", c)'
               /\ files["staged"] = c \/ "staged" \in touched
                    => files'["staged"] = c \/ "staged" \in touched'
    BY <1>0, <1>6, MovedStays DEF Moved
  <2>3. op.pc = "hash" => files'["staged"] = files["staged"]
    BY <1>0, <1>6, StillEdits
  <2> QED BY <2>1, <2>2, <2>3 DEF StagedInv, Moved
<1>7. CASE op'.pc \notin {"hash", "probe", "rehash"}
  BY <1>7 DEF StagedInv
<1> QED BY <1>3, <1>4, <1>5, <1>6, <1>7, <1>8, Entered

LEMMA FaithfulReceipt ==
  ASSUME Inv, RenderInv, StagedInv, AfterRender
  PROVE  Faithful(op'.receipt.master)
<1> USE DEF At
<1>0. op \in OpRecords
  BY DEF Inv, OpInv
<1>1. /\ op.pc = "rehash" /\ op.cmd = "build" /\ files["staged"] = op.hash
      /\ files["source"] = op.state.source /\ engine = op.engine
      /\ op'.receipt.master = BuildIdentity
  BY <1>0 DEF AfterRender, Holds, InputsHold, EngineIs, OpRecords
<1>2. /\ op.value \in Renders /\ op.value.plan = op.state.approved_plan
      /\ op.value.source = op.state.source /\ op.value.engine = op.engine
  BY <1>1 DEF RenderInv, Rendered, Moved
<1>3. op.hash = op.value /\ op.probe = op.hash
  BY <1>1 DEF StagedInv, Moved
<1>4. op.value = [source |-> op.state.source, plan |-> op.state.approved_plan,
                  engine |-> op.engine]
  BY <1>2 DEF Renders
<1> QED BY <1>1, <1>3, <1>4 DEF Faithful, BuildIdentity

LEMMA ReceiptStep ==
  Inv /\ RenderInv /\ StagedInv /\ ReceiptsFaithful /\ [Next]_vars
    => ReceiptsFaithful'
<1> SUFFICES ASSUME Inv, RenderInv, StagedInv, ReceiptsFaithful, [Next]_vars
             PROVE  ReceiptsFaithful'
  OBVIOUS
<1>0. op \in OpRecords /\ OpInv
  BY DEF Inv, OpInv
<1>1. CASE AfterRender
  <2>1. receipt' = receipt
    BY <1>1 DEF AfterRender, diskVars
  <2> QED BY <1>1, <2>1, FaithfulReceipt DEF ReceiptsFaithful
<1>2. CASE RecoverBuild
  <2>1. /\ op'.receipt = receipt /\ receipt' = receipt /\ receipt \in Receipts
    BY <1>0, <1>2 DEF RecoverBuild, ReceiptBinds, OpRecords, diskVars
  <2> QED BY <2>1, SortFacts DEF ReceiptsFaithful
<1>3. CASE WriteReceipt
  <2>1. op'.receipt = op.receipt /\ receipt' = op.receipt
    BY <1>0, <1>3 DEF WriteReceipt, Goto, OpRecords
  <2> QED BY <2>1 DEF ReceiptsFaithful
<1>4. CASE op'.receipt \in {None, op.receipt} /\ receipt' \in {None, Garbage, receipt}
  BY <1>4 DEF ReceiptsFaithful
<1>5. ASSUME ~AfterRender, ~RecoverBuild, ~WriteReceipt
      PROVE  op'.receipt \in {None, op.receipt} /\ receipt' \in {None, Garbage, receipt}
  <2>1. CASE Looked
    <3>1. Dispatch => op'.receipt \in {None, op.receipt}
      BY <1>0 DEF Dispatch, NoOp, OpRecords
    <3>2. NothingPending \/ NoReceipt \/ FinishedReceipt \/ Preflight
          \/ WriteExact(Evidenced) => op'.receipt = op.receipt
      BY <1>0 DEF NothingPending, NoReceipt, FinishedReceipt, Preflight, WriteExact,
                  Goto, OpRecords
    <3>3. (\E plan \in Plans : ApprovePlan(plan)) \/ CreateManifest \/ BuildChecks
            => op'.receipt = op.receipt
      BY <1>0 DEF ApprovePlan, CreateManifest, BuildChecks, OpRecords
    <3>4. Hash \/ Probe \/ QaChecks \/ TechnicalChecks \/ MeasureLoudness
            => op'.receipt = op.receipt
      BY <1>0 DEF Hash, Probe, QaChecks, TechnicalChecks, MeasureLoudness, OpRecords
    <3>5. op'.receipt \in {None, op.receipt}
      BY <1>5, <2>1, <3>1, <3>2, <3>3, <3>4 DEF Looked
    <3> QED BY <2>1, <3>5, LookedFrame
  <2>2. CASE Stored
    <3>1. op'.receipt \in {None, op.receipt}
      BY <1>0, <2>2
         DEF Stored, RecoverJournal, StoreStep, StoreReturns, CommitMaster,
             RegisterEvidence, AfterQa, Stop, Register, Goto, NoOp, OpRecords
    <3> QED BY <2>2, <3>1, StoredFrame
  <2>3. CASE Wrote
    BY <1>0, <1>5, <2>3
       DEF Wrote, Link, DropStaged, Replace, RenderStart, RenderEnd, DropReceipt,
           Goto, OpRecords
  <2>4. CASE \E cmd \in Commands : Begin(cmd)
    BY <2>4, BeginFrame DEF NoOp
  <2>5. CASE Outside
    <3>1. op' = op
      BY <2>5, OutsideTyped DEF OutsideStep
    <3>2. receipt' \in {None, Garbage, receipt}
      BY <2>5 DEF Outside, EditFile, EditReceipt, EngineDrift, SupplySource
    <3> QED BY <3>1, <3>2
  <2>6. CASE UNCHANGED vars
    BY <2>6, VarsFrame
  <2> QED BY <2>1, <2>2, <2>3, <2>4, <2>5, <2>6, StepKinds
<1> QED BY <1>1, <1>2, <1>3, <1>4, <1>5

LEMMA FaithfulDocsStep ==
  Inv /\ ReceiptsFaithful /\ DocsIn(FaithfulDocs) /\ [Next]_vars
    => DocsIn(FaithfulDocs)'
<1> SUFFICES ASSUME Inv, ReceiptsFaithful, DocsIn(FaithfulDocs), [Next]_vars
             PROVE  DocsIn(FaithfulDocs)'
  OBVIOUS
<1>0. StoreInv /\ OpInv
  BY DEF Inv
<1>1. ASSUME NEW stage, NEW f, NEW v, Registers(stage, f, v),
             f = "master" => Faithful(v)
      PROVE  After(project, stage, f, v) \in FaithfulDocs
  <2> DEFINE after == After(project, stage, f, v)
  <2>1. /\ after \in States /\ project \in States /\ f \in Evidence
        /\ after[f] = v /\ after.schema_version = project.schema_version
        /\ f # "master" => after.master = project.master
    BY <1>0, <1>1, RegisterFields DEF Registers, Evidence
  <2>2. project \in FaithfulDocs
    BY <2>1, SentinelsAssumption DEF DocsIn
  <2> HIDE DEF after
  <2>3. after \in FaithfulDocs
    BY <1>1, <2>1, <2>2 DEF FaithfulDocs
  <2> QED BY <2>3 DEF after
<1>2. ASSUME CommitMaster
      PROVE  After(project, "MASTER_READY", "master", op.receipt.master)
               \in FaithfulDocs
  <2>1. op.receipt # None
    BY <1>0, <1>2 DEF CommitMaster, At, OpInv, PromoteInv
  <2> QED BY <1>0, <1>1, <1>2, <2>1, Registering DEF ReceiptsFaithful
<1>3. RegisterEvidence =>
        After(project, IF op.cmd = "approve" THEN "PLAN_APPROVED" ELSE "READY",
              Evidenced, op.value) \in FaithfulDocs
  BY <1>0, <1>1, Registering DEF Evidenced
<1>4. AfterQa =>
        After(project, "QA_PASSED", "qa",
              [master_sha256 |-> op.state.master.sha256, probe |-> op.probe,
               loudness |-> op.loudness, engine_sha256 |-> op.engine])
          \in FaithfulDocs
  BY <1>0, <1>1, Registering
<1>5. ASSUME NEW id \in Ids, Register(id)
      PROVE  NewState(id, op.hash) \in FaithfulDocs
  <2>1. ValidState(NewState(id, op.hash))
    BY <1>5, StoreDefinitions DEF Register, J!Initialize
  <2>2. NewState(id, op.hash).master = None
    BY DEF NewState
  <2> QED BY <2>1, <2>2 DEF FaithfulDocs, ValidState
<1> QED BY <1>2, <1>3, <1>4, <1>5, DocsStep

(* The registered master is the render of the registered source by the      *)
(* registered plan and engine, whatever is edited while build runs, unless *)
(* an edit is undone before build looks again, or the staged bytes are     *)
(* swapped between the end of ffmpeg and their first hash.                 *)
THEOREM MastersAreRenders ==
  ASSUME ~Restoring, <<"staged", "hash">> \in Blind
  PROVE  Spec => []Provenance
<1> DEFINE PInv == /\ RenderInv /\ StagedInv /\ ReceiptsFaithful
                   /\ DocsIn(FaithfulDocs)
<1>1. Init => PInv
  BY LegacyAssumption, RecordDefinitions
     DEF Init, NoOp, RenderInv, Rendered, StagedInv, ReceiptsFaithful, At, DocsIn,
         FaithfulDocs, ValidState
<1>2. Inv /\ PInv /\ [Next]_vars => PInv'
  BY RenderStep, StagedStep, ReceiptStep, FaithfulDocsStep
<1>3. ASSUME Inv, PInv PROVE Provenance
  <2> SUFFICES ASSUME ValidState(project), project.schema_version = 2,
                      project.stage \in Built
               PROVE  /\ project.master.sha256 =
                           [source |-> project.source, plan |-> project.approved_plan,
                            engine |-> project.master.engine]
                      /\ project.master.probe = project.master.sha256
    BY DEF Provenance
  <2>1. ValidMaster(project) /\ project # None
    BY <1>3, NotNone DEF ValidState, Inv
  <2>2. Faithful(project.master)
    BY <1>3, <2>1 DEF DocsIn, FaithfulDocs, ValidMaster
  <2> QED BY <2>1, <2>2 DEF ValidMaster, Faithful
<1> HIDE DEF PInv
<1>4. Inv /\ PInv => Provenance
  BY <1>3
<1> QED BY <1>1, <1>2, <1>4, WorkspaceInvariant, PTL DEF Spec

-----------------------------------------------------------------------------
(* The promotion, undisturbed *)

(* Every promoted master, and with no outside edit what stands under the    *)
(* names of a promotion.                                                   *)
PromotedInv ==
  edits = 0 =>
    /\ op.pc \in {"render", "writeReceipt"} \/ Rendered => files["master"] = None
    /\ op.pc \in {"writeReceipt", "link"}
         => files["staged"] = op.receipt.master.sha256
    /\ op.receipt # None /\ op.pc # "writeReceipt" => receipt = op.receipt
    /\ op.receipt # None /\ op.pc \notin {"writeReceipt", "link"}
         => files["master"] = op.receipt.master.sha256
    /\ At("dropReceipt") => project.master.sha256 = files["master"]

(* The registered master of a store stays the registered master.           *)
LEMMA MasterStays ==
  ASSUME Inv, J!Step, project \in States, project.stage \in Built
  PROVE  ValidState(project') /\ project'.stage \in Built
         /\ project'.master = project.master
<1>1. StoreInv /\ StoreInv' /\ ValidState(project) /\ project.master # None
  BY StepKeeps, NotNone DEF Inv, ValidState, ValidMaster
<1>2. CASE UNCHANGED project
  BY <1>1, <1>2
<1>3. CASE journal # None /\ project = journal.before /\ project' = journal.after
  <2>1. ValidTransition(project, project')
    BY <1>1, <1>3 DEF StoreInv, Lawful
  <2>2. ValidState(project') /\ Follows(project.stage, project'.stage)
        /\ project'.master = project.master
    BY <1>1, <2>1 DEF ValidTransition, EvidenceKept, Evidence
  <2>3. project'.stage \in Built
    BY <2>2 DEF Built, Follows, NextStage
  <2> QED BY <2>2, <2>3
<1> QED BY <1>1, <1>2, <1>3, StepKeeps

LEMMA Undisturbed ==
  ASSUME Inv, [Next]_vars, edits' = 0
  PROVE  /\ edits = 0
         /\ Still /\ op'.pc # "idle" =>
              UNCHANGED <<project, journal, tx, files, receipt, op>>
         /\ Outside => UNCHANGED <<project, journal, tx, receipt, op>>
                       /\ \A n \in Names \ {"source"} : files'[n] = files[n]
<1>1. ASSUME NEW thing, Edit(thing) PROVE FALSE
  BY <1>1, WorkspaceAssumption DEF Edit, Inv
<1>2. Outside => SupplySource
  BY <1>1 DEF Outside, EditFile, EditReceipt, EngineDrift
<1>3. edits = 0
  BY <1>2, StepKinds, LookedFrame, StoredFrame, WroteFrame, BeginFrame, VarsFrame
     DEF SupplySource, editVars
<1>4. SupplySource => UNCHANGED <<project, journal, tx, receipt, op>>
                      /\ \A n \in Names \ {"source"} : files'[n] = files[n]
  BY DEF SupplySource, stateVars, Inv, FileKinds
<1>5. Still /\ op'.pc # "idle" => UNCHANGED vars
  BY <1>2 DEF Still, SupplySource, At
<1> QED BY <1>2, <1>3, <1>4, <1>5, VarsFrame

LEMMA PromotedStep == Inv /\ PromotedInv /\ [Next]_vars => PromotedInv'
<1> SUFFICES ASSUME Inv, PromotedInv, [Next]_vars, edits' = 0 PROVE PromotedInv'
  BY DEF PromotedInv
<1> USE DEF At
<1>0. /\ op \in OpRecords /\ PromoteInv /\ PromoteInv' /\ CmdInv /\ edits = 0
      /\ "staged" \in Names /\ "master" \in Names /\ files \in [Names -> Opt(Digests \cup Manifests)]
  BY InvStep, Undisturbed DEF Inv, OpInv, Names, FileKinds
<1>1. CASE Still /\ op'.pc # "idle"
  BY <1>1, Undisturbed DEF PromotedInv, Rendered
<1>2. CASE BuildChecks
  <2>1. /\ op.pc = "build" /\ op'.pc = "render" /\ op'.receipt = op.receipt
        /\ files["master"] = None /\ files' = files
    BY <1>0, <1>2 DEF BuildChecks, OpRecords, diskVars
  <2> QED BY <1>0, <2>1 DEF PromotedInv, PromoteInv, Rendered
<1>3. CASE RenderStart \/ RenderEnd
  <2>1. /\ op.pc \in {"render", "rendering"} /\ op'.pc \in {"rendering", "hash"}
        /\ op'.receipt = op.receipt /\ op'.cmd = op.cmd
        /\ files'["master"] = files["master"]
    BY <1>0, <1>3 DEF RenderStart, RenderEnd, Goto, OpRecords
  <2> QED BY <1>0, <2>1 DEF PromotedInv, PromoteInv, Rendered, CmdInv
<1>4. CASE Preflight
  <2>1. /\ op.pc = "preflight" /\ op'.pc = "hash" /\ op'.receipt = op.receipt
        /\ op'.cmd = op.cmd
    BY <1>0, <1>4 DEF Preflight, Goto, OpRecords
  <2> QED BY <1>0, <2>1 DEF PromotedInv, PromoteInv, CmdInv, Rendered
<1>5. CASE Hash \/ Probe
  <2>1. /\ op.pc \in {"hash", "probe"} /\ op'.pc \in {"probe", "rehash"}
        /\ op'.receipt = op.receipt /\ op'.cmd = op.cmd /\ files' = files
    BY <1>0, <1>5 DEF Hash, Probe, OpRecords, diskVars
  <2> QED BY <1>0, <2>1 DEF PromotedInv, PromoteInv, Rendered
<1>6. CASE AfterRender
  <2>1. /\ op.pc = "rehash" /\ op.cmd = "build" /\ op'.pc = "writeReceipt"
        /\ files["staged"] = op.hash /\ op'.receipt.master = BuildIdentity
        /\ files' = files
    BY <1>0, <1>6 DEF AfterRender, Holds, OpRecords, diskVars
  <2>2. BuildIdentity.sha256 = op.hash
    BY DEF BuildIdentity
  <2> QED BY <1>0, <2>1, <2>2 DEF PromotedInv, Rendered
<1>7. CASE WriteReceipt
  <2>1. /\ op.pc = "writeReceipt" /\ op'.pc = "link" /\ op'.receipt = op.receipt
        /\ receipt' = op.receipt /\ files' = files
    BY <1>0, <1>7 DEF WriteReceipt, Goto, OpRecords
  <2> QED BY <1>0, <2>1 DEF PromotedInv, Rendered
<1>8. CASE RecoverBuild
  <2>1. /\ op'.pc \in {"commit", "dropStaged", "link"} /\ op'.receipt = receipt
        /\ op'.pc = Promotion(receipt.master) /\ receipt' = receipt
        /\ files' = files
    BY <1>0, <1>8, Arrivals DEF RecoverBuild, OpRecords, diskVars
  <2>2. /\ op'.pc = "link" => files["staged"] = receipt.master.sha256
        /\ op'.pc # "link" => files["master"] = receipt.master.sha256
    BY <2>1 DEF Promotion, Holds
  <2> QED BY <2>1, <2>2 DEF PromotedInv, Rendered
<1>9. CASE Link
  <2>1. /\ op.pc = "link" /\ op'.pc = "dropStaged" /\ op'.receipt = op.receipt
        /\ files'["master"] = files["staged"] /\ receipt' = receipt
    BY <1>0, <1>9 DEF Link, Goto, OpRecords
  <2> QED BY <1>0, <2>1 DEF PromotedInv, PromoteInv, Rendered
<1>10. CASE DropStaged
  <2>1. /\ op.pc = "dropStaged" /\ op'.pc = "commit" /\ op'.receipt = op.receipt
        /\ files'["master"] = files["master"] /\ receipt' = receipt
    BY <1>0, <1>10 DEF DropStaged, Goto, OpRecords
  <2> QED BY <1>0, <2>1 DEF PromotedInv, PromoteInv, Rendered
<1>11. CASE CommitMaster \/ RegisterEvidence \/ AfterQa \/ StoreStep
  <2>1. /\ op.pc \in {"commit", "register", "recheck", "rolling", "committing"}
        /\ op'.pc \in {"rolling", "committing"} /\ op'.receipt = op.receipt
        /\ files' = files /\ receipt' = receipt
    BY <1>0, <1>11
       DEF CommitMaster, RegisterEvidence, AfterQa, StoreStep, Goto, OpRecords,
           diskVars
  <2> QED BY <1>0, <2>1 DEF PromotedInv, PromoteInv, Rendered
<1>12. CASE FinishedReceipt
  <2>1. /\ op.pc = "receipt" /\ op'.pc = "dropReceipt" /\ op'.receipt = op.receipt
        /\ files["master"] = project.master.sha256
        /\ files' = files /\ project' = project
    BY <1>0, <1>12
       DEF FinishedReceipt, ClosesBuild, Holds, Goto, OpRecords, stateVars, diskVars
  <2> QED BY <1>0, <2>1 DEF PromotedInv, PromoteInv, Rendered
<1>13. CASE StoreReturns /\ op'.pc = "dropReceipt"
  <2>1. /\ op.pc = "committing" /\ op.receipt # None /\ op'.receipt = op.receipt
        /\ files' = files /\ receipt' = receipt
    BY <1>0, <1>13 DEF StoreReturns, Goto, OpRecords, diskVars
  <2>2. project'.master = op'.receipt.master
    BY <1>0, <1>13, <2>1 DEF PromoteInv
  <2> QED BY <1>0, <1>13, <2>1, <2>2 DEF PromotedInv, Rendered
<1>14. CASE op'.pc \notin {"render", "rendering", "hash", "probe", "rehash",
                           "writeReceipt", "link", "dropStaged", "commit",
                           "committing", "dropReceipt"}
  BY <1>0, <1>14 DEF PromotedInv, PromoteInv, Rendered
<1> QED BY <1>1, <1>2, <1>3, <1>4, <1>5, <1>6, <1>7, <1>8, <1>9, <1>10, <1>11,
           <1>12, <1>13, <1>14, Entered

LEMMA AccountedStep ==
  Inv /\ PromotedInv /\ MasterAccounted /\ [Next]_vars => MasterAccounted'
<1> SUFFICES ASSUME Inv, PromotedInv, MasterAccounted, [Next]_vars, edits' = 0,
                    files'["master"] # None
             PROVE  MasterAccounted'
  BY DEF MasterAccounted
<1> USE DEF At
<1>0. /\ op \in OpRecords /\ PromoteInv /\ CmdInv /\ edits = 0 /\ StoreInv
      /\ files \in [Names -> Opt(Digests \cup Manifests)]
      /\ "staged" \in Names /\ "master" \in Names
  BY Undisturbed DEF Inv, OpInv, Names, FileKinds
<1>1. CASE UNCHANGED <<project, receipt>> /\ files'["master"] = files["master"]
  BY <1>0, <1>1 DEF MasterAccounted
<1>2. CASE Link
  <2>1. /\ files'["master"] = op.receipt.master.sha256 /\ receipt' = op.receipt
        /\ op.receipt # None
    BY <1>0, <1>2 DEF Link, PromotedInv, PromoteInv
  <2>2. op.receipt \in Receipts
    BY <1>0, <2>1, SortFacts DEF OpRecords, Opt
  <2> QED BY <2>1, <2>2 DEF MasterAccounted
<1>3. CASE DropReceipt
  <2>1. /\ project \in States /\ project.stage \in Built /\ project' = project
        /\ files["master"] = project.master.sha256 /\ files' = files
    BY <1>0, <1>3 DEF DropReceipt, PromotedInv, PromoteInv, stateVars
  <2> QED BY <1>0, <2>1, NotNone DEF MasterAccounted
<1>4. CASE WriteReceipt
  BY <1>0, <1>4 DEF WriteReceipt, PromotedInv
<1>5. CASE StoreStep
  <2>1. J!Step /\ UNCHANGED <<files, receipt>>
    BY <1>5 DEF StoreStep, diskVars
  <2> QED BY <1>0, <2>1, MasterStays DEF MasterAccounted, ValidState
<1>6. ASSUME NEW id \in Ids, Register(id) PROVE MasterAccounted'
  <2>1. project = None /\ UNCHANGED <<files, receipt>>
    BY <1>6 DEF Register, J!Initialize, diskVars
  <2> QED BY <1>0, <2>1, NotNone DEF MasterAccounted
<1>7. ASSUME Stored, ~StoreStep, ~\E id \in Ids : Register(id)
      PROVE  UNCHANGED <<project, receipt, files>>
  BY <1>7, StoredFrame
     DEF Stored, RecoverJournal, J!Recover, J!RollForward, J!FinishClear,
         StoreReturns, J!Return, CommitMaster, RegisterEvidence, AfterQa,
         J!TransactBegin, Stop
<1>8. ASSUME Wrote, ~Link, ~DropReceipt, ~WriteReceipt
      PROVE  UNCHANGED <<project, receipt>> /\ files'["master"] = files["master"]
  BY <1>0, <1>8
     DEF Wrote, DropStaged, Replace, Evidenced, RenderStart, RenderEnd, stateVars
<1> QED BY <1>1, <1>2, <1>3, <1>4, <1>5, <1>6, <1>7, <1>8, StepKinds, LookedFrame,
           BeginFrame, VarsFrame, Undisturbed, <1>0

(* With no outside edit every promoted master is accounted for, at every    *)
(* point where a command may be stopped, for workspaces of either version. *)
THEOREM MastersAccounted == Spec => []MasterAccounted
<1>1. Init => PromotedInv
  BY DEF Init, NoOp, PromotedInv, Rendered, At
<1>2. Spec => []PromotedInv
  BY <1>1, PromotedStep, WorkspaceInvariant, PTL DEF Spec
<1>3. ASSUME Init PROVE MasterAccounted
  <2>1. CASE project = None
    BY <1>3, <2>1 DEF Init, MasterAccounted, Names
  <2>2. CASE project # None
    <3>1. project \in Legacy /\ files = RegisteredFiles(project)
      BY <1>3, <2>2 DEF Init
    <3>2. files["master"] = IF project.master # None THEN project.master.sha256
                            ELSE None
      BY <3>1, LegacyAssumption DEF RegisteredFiles, Names, ValidState, States
    <3> QED BY <3>1, <3>2, LegacyAssumption DEF MasterAccounted
  <2> QED BY <2>1, <2>2
<1>4. Init => MasterAccounted
  BY <1>3
<1> QED BY <1>2, <1>4, AccountedStep, WorkspaceInvariant, PTL DEF Spec

-----------------------------------------------------------------------------
(* What a command never changes *)

(* The look before the write still stands when the write is made.          *)
AbsentInv == At("replace") => files[Evidenced] = None

LEMMA AbsentStep ==
  ASSUME <<"approved_plan", "replace">> \in Blind,
         <<"release_manifest", "replace">> \in Blind
  PROVE  Inv /\ AbsentInv /\ [Next]_vars => AbsentInv'
<1> SUFFICES ASSUME Inv, AbsentInv, [Next]_vars, op'.pc = "replace"
             PROVE  files'[Evidenced'] = None
  BY DEF AbsentInv, At
<1> USE DEF At
<1>0. op \in OpRecords /\ Evidenced \in Names
  BY DEF Inv, OpInv, Evidenced, Names
<1>1. CASE WriteExact(Evidenced)
  <2>1. PICK p \in {"replace", "register"} : Goto(p)
    BY <1>1 DEF WriteExact
  <2>2. op'.cmd = op.cmd /\ op'.pc = p
    BY <1>0, <2>1 DEF Goto, OpRecords
  <2>3. files[Evidenced] = None /\ files' = files
    BY <1>0, <1>1, <2>2 DEF WriteExact, Goto, OpRecords, diskVars
  <2> QED BY <2>2, <2>3 DEF Evidenced
<1>2. CASE Still
  <2>1. op' = op /\ op.pc = "replace" /\ files[Evidenced] = None
    BY <1>2 DEF Still, AbsentInv
  <2>2. <<Evidenced, op.pc>> \in Blind
    BY <2>1 DEF Evidenced
  <2>3. files'[Evidenced] = files[Evidenced]
    BY <1>0, <1>2, <2>1, <2>2, BusyEdit, VarsFrame DEF Still, Stirred
  <2> QED BY <2>1, <2>3 DEF Evidenced
<1> QED BY <1>1, <1>2, Entered

(* No command changes or removes a source, a plan, a master or a manifest   *)
(* that exists: what it may do to its staged file, and a file that appears *)
(* between the look and the rename, are set aside.                         *)
THEOREM ExistingFilesKept ==
  ASSUME <<"approved_plan", "replace">> \in Blind,
         <<"release_manifest", "replace">> \in Blind
  PROVE  Spec => NoClobber
<1> DEFINE Kept == \A n \in Names \ {"staged"} :
                     files[n] # None => files'[n] = files[n]
<1>1. Init => AbsentInv
  BY DEF Init, NoOp, AbsentInv, At
<1>2. Inv /\ AbsentInv /\ Program => Kept
  <2> SUFFICES ASSUME Inv, AbsentInv, Program PROVE Kept
    OBVIOUS
  <2>0. files \in [Names -> Opt(Digests \cup Manifests)]
    BY DEF Inv, FileKinds
  <2>1. CASE Looked \/ Stored \/ \E cmd \in Commands : Begin(cmd)
    BY <2>1, LookedFrame, StoredFrame, BeginFrame
  <2>2. CASE Wrote
    BY <2>0, <2>2
       DEF Wrote, Link, DropStaged, Replace, AbsentInv, At, RenderStart, RenderEnd,
           DropReceipt, WriteReceipt
  <2> QED BY <2>1, <2>2 DEF Program, Work, Looked, Stored, Wrote
<1>3. Inv /\ AbsentInv /\ [Next]_vars => [Program => Kept]_vars
  BY <1>2
<1>4. Spec => []AbsentInv
  BY <1>1, AbsentStep, WorkspaceInvariant, PTL DEF Spec
<1> QED BY <1>3, <1>4, WorkspaceInvariant, PTL DEF Spec, NoClobber

(* The receipt on disk is the one the command holds.                       *)
HeldInv ==
  /\ op.receipt # None /\ op.pc # "writeReceipt" => receipt = op.receipt
  /\ At("dropReceipt") /\ receipt # None
       => receipt \in Receipts /\ project.master = receipt.master

LEMMA HeldStep ==
  ASSUME "receipt" \notin BusyThings
  PROVE  Inv /\ HeldInv /\ [Next]_vars => HeldInv'
<1> SUFFICES ASSUME Inv, HeldInv, [Next]_vars PROVE HeldInv'
  OBVIOUS
<1> USE DEF At
<1>0. /\ op \in OpRecords /\ PromoteInv /\ PromoteInv' /\ op' \in OpRecords
  BY InvStep DEF Inv, OpInv
<1>1. CASE Still /\ op'.pc # "idle"
  <2>1. op' = op /\ UNCHANGED <<project, receipt>>
    BY <1>1, BusyEdit, VarsFrame DEF Still, Stirred
  <2> QED BY <2>1 DEF HeldInv
<1>2. CASE AfterRender
  BY <1>2, Arrivals DEF HeldInv
<1>3. CASE WriteReceipt \/ RecoverBuild
  <2>1. /\ op'.pc \in {"link", "dropStaged", "commit"} /\ op'.receipt = receipt'
    BY <1>0, <1>3, Arrivals
       DEF WriteReceipt, RecoverBuild, Goto, OpRecords, diskVars
  <2> QED BY <2>1 DEF HeldInv
<1>4. CASE Link \/ DropStaged \/ CommitMaster \/ RegisterEvidence \/ AfterQa
           \/ StoreStep
  <2>1. /\ op'.receipt = op.receipt /\ receipt' = receipt
        /\ op.pc # "writeReceipt" /\ op'.pc # "dropReceipt"
    BY <1>0, <1>4
       DEF Link, DropStaged, CommitMaster, RegisterEvidence, AfterQa, StoreStep,
           Goto, OpRecords, diskVars
  <2> QED BY <2>1 DEF HeldInv
<1>5. CASE FinishedReceipt
  <2>1. /\ op'.receipt = op.receipt /\ op.pc = "receipt"
        /\ receipt \in Receipts /\ project.master = receipt.master
        /\ receipt' = receipt /\ project' = project
    BY <1>0, <1>5
       DEF FinishedReceipt, ClosesBuild, Goto, OpRecords, stateVars, diskVars
  <2> QED BY <1>0, <2>1 DEF HeldInv, PromoteInv
<1>6. CASE StoreReturns /\ op'.pc = "dropReceipt"
  <2>1. /\ op.pc = "committing" /\ op.receipt # None /\ op'.receipt = op.receipt
        /\ receipt' = receipt
    BY <1>0, <1>6 DEF StoreReturns, Goto, OpRecords, diskVars
  <2>2. receipt' = op'.receipt /\ project'.master = op'.receipt.master
    BY <1>0, <1>6, <2>1 DEF PromoteInv, HeldInv
  <2>3. op'.receipt \in Receipts
    BY <1>0, <2>1, SortFacts DEF OpRecords, Opt
  <2> QED BY <2>2, <2>3 DEF HeldInv
<1>7. CASE op'.pc \notin {"writeReceipt", "link", "dropStaged", "commit",
                          "committing", "dropReceipt"}
  BY <1>0, <1>7 DEF HeldInv, PromoteInv
<1> QED BY <1>1, <1>2, <1>3, <1>4, <1>5, <1>6, <1>7, Entered

(* A receipt is removed only once its master is registered, while nobody   *)
(* else removes or spoils it under the command.                            *)
THEOREM ReceiptsOutliveBuilds ==
  ASSUME "receipt" \notin BusyThings
  PROVE  Spec => ReceiptOutlivesBuild
<1> DEFINE Closed == /\ receipt \in Receipts
                     /\ project.stage \in Built
                     /\ project.master = receipt.master
<1>1. Init => HeldInv
  BY DEF Init, NoOp, HeldInv, At
<1>2. Inv /\ HeldInv /\ Program /\ receipt # None /\ receipt' = None => Closed
  <2> SUFFICES ASSUME Inv, HeldInv, Program, receipt # None, receipt' = None
               PROVE  Closed
    OBVIOUS
  <2>1. CASE DropReceipt
    BY <2>1 DEF DropReceipt, At, HeldInv, Inv, OpInv, PromoteInv
  <2>2. CASE WriteReceipt
    BY <2>2 DEF WriteReceipt, At, Inv, OpInv, PromoteInv
  <2>3. ASSUME Wrote, ~DropReceipt, ~WriteReceipt PROVE receipt' = receipt
    BY <2>3 DEF Wrote, Link, DropStaged, Replace, RenderStart, RenderEnd
  <2>4. Looked \/ Stored \/ Wrote \/ \E cmd \in Commands : Begin(cmd)
    BY DEF Program, Work, Looked, Stored, Wrote
  <2> QED BY <2>1, <2>2, <2>3, <2>4, LookedFrame, StoredFrame, BeginFrame
<1>3. Inv /\ HeldInv /\ [Next]_vars
        => [Program /\ receipt # None /\ receipt' = None => Closed]_vars
  BY <1>2
<1>4. Spec => []HeldInv
  BY <1>1, HeldStep, WorkspaceInvariant, PTL DEF Spec
<1> QED BY <1>3, <1>4, WorkspaceInvariant, PTL DEF Spec, ReceiptOutlivesBuild

-----------------------------------------------------------------------------
(* status: its locals, and what moves while it looks *)

ViewPcs == {"idle", "journal", "receipt", "master", "staging", "artifact", "hash",
            "reported"}

Watched == Names \cup {"engine", "receipt"}

Words ==
  Labels \cup
  {"RECOVERY_REQUIRED", "UNREGISTERED_MASTER", "UNREGISTERED_STAGING", "MISSING",
   "SIZE_MISMATCH", "HASH_MISMATCH", "LEGACY_EVIDENCE_REBUILD_REQUIRED",
   "ENGINE_CONTRACT_DRIFT", "ENGINE_CONTRACT_UNAVAILABLE",
   "ENGINE_VERIFICATION_REQUIRED"}

Blockers == Seq(Words)

ViewRecords ==
  [pc : ViewPcs, verify : BOOLEAN, state : Opt(States),
   blockers : SUBSET Blockers, todo : Seq(Labels), seen : SUBSET Watched,
   calm : BOOLEAN, pending : BOOLEAN]

(* The labels still to be looked at are of identities the document has.    *)
Among(l, s) == \E i \in 1..Len(s) : s[i] = l

ViewType ==
  /\ view \in ViewRecords
  /\ view.pc # "idle" => /\ ValidState(view.state) /\ project # None
                         /\ \A l \in Labels : Among(l, view.todo)
                              => Identity(view.state, l) # None
  /\ Looking("hash") => view.verify /\ view.todo # <<>>
  /\ Looking("reported") => view.todo = <<>>

LEMMA AmongTail ==
  ASSUME NEW s \in Seq(Labels), s # <<>>
  PROVE  /\ Head(s) \in Labels /\ Tail(s) \in Seq(Labels) /\ Among(Head(s), s)
         /\ \A l \in Labels : Among(l, s) <=> l = Head(s) \/ Among(l, Tail(s))
<1>1. /\ Len(s) \in Nat \ {0} /\ Head(s) = s[1] /\ Head(s) \in Labels
      /\ Tail(s) \in Seq(Labels) /\ Len(Tail(s)) = Len(s) - 1
      /\ \A i \in 1..Len(s) - 1 : Tail(s)[i] = s[i + 1]
  OBVIOUS
<1>2. ASSUME NEW l \in Labels, Among(l, s), l # Head(s) PROVE Among(l, Tail(s))
  <2>1. PICK i \in 1..Len(s) : s[i] = l
    BY <1>2 DEF Among
  <2>2. i - 1 \in 1..Len(s) - 1 /\ Tail(s)[i - 1] = l
    BY <1>1, <1>2, <2>1
  <2> QED BY <1>1, <2>2 DEF Among
<1>3. ASSUME NEW l \in Labels, Among(l, Tail(s)) PROVE Among(l, s)
  <2>1. PICK i \in 1..Len(s) - 1 : Tail(s)[i] = l
    BY <1>1, <1>3 DEF Among
  <2>2. i + 1 \in 1..Len(s) /\ s[i + 1] = l
    BY <1>1, <2>1
  <2> QED BY <2>2 DEF Among
<1>4. Among(Head(s), s)
  BY <1>1 DEF Among
<1> QED BY <1>1, <1>2, <1>3, <1>4

LEMMA AmongJoined ==
  ASSUME NEW s \in Seq(Labels), NEW t \in Seq(Labels)
  PROVE  /\ s \o t \in Seq(Labels)
         /\ \A l \in Labels : Among(l, s \o t) <=> Among(l, s) \/ Among(l, t)
<1>1. /\ Len(s) \in Nat /\ Len(t) \in Nat /\ Len(s \o t) = Len(s) + Len(t)
      /\ s \o t \in Seq(Labels)
      /\ \A i \in 1..Len(s) + Len(t) :
           (s \o t)[i] = IF i <= Len(s) THEN s[i] ELSE t[i - Len(s)]
  OBVIOUS
<1>2. ASSUME NEW l \in Labels, Among(l, s \o t) PROVE Among(l, s) \/ Among(l, t)
  <2>1. PICK i \in 1..Len(s) + Len(t) : (s \o t)[i] = l
    BY <1>1, <1>2 DEF Among
  <2>2. CASE i <= Len(s)
    <3>1. i \in 1..Len(s) /\ s[i] = l
      BY <1>1, <2>1, <2>2
    <3> QED BY <3>1 DEF Among
  <2>3. CASE ~(i <= Len(s))
    <3>1. i - Len(s) \in 1..Len(t) /\ t[i - Len(s)] = l
      BY <1>1, <2>1, <2>3
    <3> QED BY <3>1 DEF Among
  <2> QED BY <2>2, <2>3
<1>3. ASSUME NEW l \in Labels, Among(l, s) PROVE Among(l, s \o t)
  <2>1. PICK i \in 1..Len(s) : s[i] = l
    BY <1>3 DEF Among
  <2>2. i \in 1..Len(s) + Len(t) /\ (s \o t)[i] = l
    BY <1>1, <2>1
  <2> QED BY <1>1, <2>2 DEF Among
<1>4. ASSUME NEW l \in Labels, Among(l, t) PROVE Among(l, s \o t)
  <2>1. PICK i \in 1..Len(t) : t[i] = l
    BY <1>4 DEF Among
  <2>2. i + Len(s) \in 1..Len(s) + Len(t) /\ (s \o t)[i + Len(s)] = l
    BY <1>1, <2>1
  <2> QED BY <1>1, <2>2 DEF Among
<1> QED BY <1>1, <1>2, <1>3, <1>4

(* status looks at each identity the document has, and at no other.        *)
LEMMA RegisteredLabels ==
  ASSUME NEW s
  PROVE  /\ Registered(s) \in Seq(Labels)
         /\ \A l \in Labels : Among(l, Registered(s)) <=> Identity(s, l) # None
<1>1. ASSUME NEW l \in Labels
      PROVE  /\ IfPresent(s, l) \in Seq(Labels)
             /\ \A k \in Labels : Among(k, IfPresent(s, l))
                                   <=> k = l /\ Identity(s, l) # None
  BY DEF IfPresent, Among
<1>2. Labels = {"source", "approved_plan", "master", "release_manifest"}
  BY DEF Labels
<1> DEFINE a == IfPresent(s, "source")  b == IfPresent(s, "approved_plan")
           c == IfPresent(s, "master")  d == IfPresent(s, "release_manifest")
<1>3. /\ a \in Seq(Labels) /\ b \in Seq(Labels) /\ c \in Seq(Labels)
      /\ d \in Seq(Labels)
      /\ \A k \in Labels :
           /\ Among(k, a) <=> k = "source" /\ Identity(s, k) # None
           /\ Among(k, b) <=> k = "approved_plan" /\ Identity(s, k) # None
           /\ Among(k, c) <=> k = "master" /\ Identity(s, k) # None
           /\ Among(k, d) <=> k = "release_manifest" /\ Identity(s, k) # None
  BY <1>1, <1>2
<1>4. Registered(s) = a \o b \o c \o d
  BY DEF Registered
<1> HIDE DEF a, b, c, d
<1>5. a \o b \in Seq(Labels) /\ a \o b \o c \in Seq(Labels)
      /\ a \o b \o c \o d \in Seq(Labels)
  BY <1>3, AmongJoined
<1>6. \A k \in Labels : /\ Among(k, a \o b) <=> Among(k, a) \/ Among(k, b)
                        /\ Among(k, a \o b \o c) <=> Among(k, a \o b) \/ Among(k, c)
                        /\ Among(k, a \o b \o c \o d)
                             <=> Among(k, a \o b \o c) \/ Among(k, d)
  BY <1>3, <1>5, AmongJoined
<1> QED BY <1>2, <1>3, <1>4, <1>5, <1>6

LEMMA ProjectSteps ==
  ASSUME Inv, [Next]_vars, project # None
  PROVE  /\ project' # None
         /\ project' # project => ValidTransition(project, project')
<1>0. StoreInv /\ OpInv
  BY DEF Inv
<1>1. CASE StoreStep
  <2>1. J!Step
    BY <1>1 DEF StoreStep
  <2>2. CASE UNCHANGED project
    BY <2>2
  <2>3. CASE /\ journal # None /\ project = journal.before
             /\ project' = journal.after
    <3>1. Lawful(project, project')
      BY <1>0, <2>3 DEF StoreInv
    <3> QED BY <3>1, LawfulSides DEF Lawful
  <2> QED BY <1>0, <2>1, <2>2, <2>3, StepKeeps
<1>2. \A id \in Ids : ~Register(id)
  BY DEF Register, J!Initialize
<1>3. ASSUME Stored, ~StoreStep PROVE UNCHANGED project
  BY <1>2, <1>3
     DEF Stored, RecoverJournal, J!Recover, J!RollForward, J!FinishClear,
         StoreReturns, J!Return, CommitMaster, RegisterEvidence, AfterQa,
         J!TransactBegin, Stop
<1>4. CASE UNCHANGED project
  BY <1>4
<1> QED BY <1>1, <1>3, <1>4, StepKinds, LookedFrame, WroteFrame, BeginFrame,
           VarsFrame, OutsideTyped DEF OutsideStep

(* What a step of the workspace notes in the locals of status.             *)
LEMMA WatchFields ==
  ASSUME view \in ViewRecords, Watch, view.pc # "idle"
  PROVE  /\ view' \in ViewRecords
         /\ \A f \in {"pc", "verify", "state", "blockers", "todo"} :
              view'[f] = view[f]
         /\ view.seen \subseteq view'.seen
         /\ edits' # edits => Changed \subseteq view'.seen
         /\ view'.calm => view.calm /\ op' = op /\ tx' = tx
         /\ view'.pending => view.pending /\ (Pending)'
<1> DEFINE seen == IF edits' # edits THEN view.seen \cup Changed ELSE view.seen
           calm == view.calm /\ op' = op /\ tx' = tx
           pending == view.pending /\ (Pending)'
<1>1. view' = [view EXCEPT !.seen = seen, !.calm = calm, !.pending = pending]
  BY DEF Watch, Looking
<1>2. Changed \subseteq Watched
  BY DEF Changed, Watched
<1>3. /\ seen \subseteq Watched /\ view.seen \subseteq seen
      /\ edits' # edits => Changed \subseteq seen
  BY <1>2 DEF ViewRecords
<1>4. calm \in BOOLEAN /\ pending \in BOOLEAN
  BY DEF ViewRecords
<1>5. /\ calm => view.calm /\ op' = op /\ tx' = tx
      /\ pending => view.pending /\ (Pending)'
  OBVIOUS
<1> HIDE DEF seen, calm, pending
<1>6. /\ view' \in ViewRecords
      /\ view'.seen = seen /\ view'.calm = calm /\ view'.pending = pending
      /\ \A f \in {"pc", "verify", "state", "blockers", "todo"} :
           view'[f] = view[f]
  BY <1>1, <1>3, <1>4 DEF ViewRecords
<1> QED BY <1>3, <1>5, <1>6

LEMMA ViewSteps ==
  [ViewNext]_viewVars
    <=> \/ \E verify \in BOOLEAN : StatusStart(verify)
        \/ LookJournal \/ LookReceipt \/ LookMaster \/ LookStaging
        \/ LookArtifact \/ LookHash \/ LookEngine
        \/ StatusEnd \/ (Next /\ Watch) \/ UNCHANGED viewVars
BY DEF ViewNext, Read

LEMMA ViewStutters ==
  /\ [ViewNext]_viewVars => [Next]_vars
  /\ \/ \E verify \in BOOLEAN : StatusStart(verify)
     \/ LookJournal \/ LookReceipt \/ LookMaster \/ LookStaging
     \/ LookArtifact \/ LookHash \/ LookEngine \/ StatusEnd
     => UNCHANGED <<project, journal, tx, files, receipt, engine, op, edits, touched>>
<1>1. \/ \E verify \in BOOLEAN : StatusStart(verify)
      \/ LookJournal \/ LookReceipt \/ LookMaster \/ LookStaging
      \/ LookArtifact \/ LookHash \/ LookEngine \/ StatusEnd
      => UNCHANGED vars
  BY DEF StatusStart, LookJournal, LookReceipt, LookMaster, LookStaging,
         LookArtifact, LookHash, LookEngine, StatusEnd
<1> QED BY <1>1, VarsFrame, ViewSteps DEF viewVars

(* Beside status the workspace is what it is without.                      *)
LEMMA ViewWorkspace == ViewSpec => []Inv
<1>1. ViewInit => Init
  BY DEF ViewInit
<1> QED BY <1>1, InitInv, InvStep, ViewStutters, PTL DEF ViewSpec

(* An operator who only follows the reports takes steps of the workspace.  *)
LEMMA GuidedIsNext == [GuidedNext]_viewVars => [Next]_vars
<1>1. (Ask \/ Looks) => UNCHANGED vars
  BY DEF Ask, Looks, LookJournal, LookReceipt, LookMaster, LookStaging,
         LookArtifact, LookHash, LookEngine
<1>2. \A cmd \in Commands : Follow(cmd) => Next
  BY DEF Follow, Next, Program
<1>3. Work \/ Refuse \/ SupplySource \/ Stop => Next
  BY DEF Refuse, Next, Program, Outside
<1> QED BY <1>1, <1>2, <1>3 DEF GuidedNext, Alone, viewVars

(* Status changes nothing: what is proved of the workspace holds beside    *)
(* any number of reports, and for the operator who only follows them.      *)
THEOREM StatusChangesNothing == (ViewSpec => Spec) /\ (GuidedSpec => Spec)
<1>1. ViewInit => Init
  BY DEF ViewInit
<1>2. ViewSpec => Spec
  BY <1>1, ViewStutters, PTL DEF ViewSpec, Spec
<1>3. GuidedSpec => Spec
  BY <1>1, GuidedIsNext, PTL DEF GuidedSpec, Spec
<1> QED BY <1>2, <1>3

LEMMA BlockerForms ==
  ASSUME NEW word \in Words
  PROVE  /\ {<<word>>} \in SUBSET Blockers
         /\ \A label \in Labels : {<<word, label>>} \in SUBSET Blockers
BY DEF Blockers, Words

(* What one look adds to the blockers. *)
Adds(blockers, pc, todo) ==
  /\ view' \in ViewRecords /\ view'.pc = pc /\ view'.todo = todo
  /\ view'.blockers = view.blockers \cup blockers
  /\ \A f \in {"verify", "state", "seen", "calm", "pending"} : view'[f] = view[f]

LEMMA BlockAdds ==
  ASSUME view \in ViewRecords, NEW blockers \in SUBSET Blockers,
         NEW pc \in ViewPcs, Block(blockers, pc)
  PROVE  Adds(blockers, pc, view.todo)
<1>1. view' = [view EXCEPT !.blockers = view.blockers \cup blockers, !.pc = pc]
  BY DEF Block
<1>2. view.blockers \cup blockers \in SUBSET Blockers
  BY DEF ViewRecords
<1> QED BY <1>1, <1>2 DEF Adds, ViewRecords

LEMMA StartFields ==
  ASSUME Inv, NEW verify \in BOOLEAN, StatusStart(verify)
  PROVE  /\ view' \in ViewRecords /\ view'.pc = "journal" /\ view'.verify = verify
         /\ view'.state = project /\ ValidState(project) /\ project # None
         /\ view'.todo = Registered(project) /\ view'.blockers = {}
         /\ view'.seen = {} /\ view'.pending = Pending /\ view'.calm = TRUE
<1>1. ValidState(project) /\ project \in States /\ project # None
  BY NotNone DEF StatusStart, ValidState, Inv
<1>2. Pending \in BOOLEAN
  BY DEF Pending
<1>3. view' = [pc |-> "journal", verify |-> verify, state |-> project,
               blockers |-> {}, todo |-> Registered(project), seen |-> {},
               calm |-> TRUE, pending |-> Pending]
  BY DEF StatusStart, NoView
<1>4. Registered(project) \in Seq(Labels)
  BY RegisteredLabels
<1>5. "journal" \in ViewPcs /\ project \in Opt(States)
  BY <1>1 DEF ViewPcs, Opt
<1> HIDE DEF Pending, Registered
<1> QED BY <1>1, <1>2, <1>3, <1>4, <1>5 DEF ViewRecords

LEMMA LookFields ==
  ASSUME ViewType
  PROVE  /\ LookJournal => /\ view.pc = "journal"
                           /\ \/ journal # None
                                 /\ Adds({<<"RECOVERY_REQUIRED">>}, "artifact", view.todo)
                              \/ journal = None /\ Adds({}, "receipt", view.todo)
         /\ LookReceipt => /\ view.pc = "receipt"
                           /\ \/ receipt # None
                                 /\ Adds({<<"RECOVERY_REQUIRED">>}, "artifact", view.todo)
                              \/ receipt = None /\ Adds({}, "master", view.todo)
         /\ LookMaster =>
              /\ view.pc = "master"
              /\ \/ /\ view.state.master = None /\ files["master"] # None
                    /\ Adds({<<"UNREGISTERED_MASTER">>}, "staging", view.todo)
                 \/ Adds({}, "staging", view.todo)
         /\ LookStaging =>
              /\ view.pc = "staging"
              /\ \/ /\ files["staged"] # None
                    /\ Adds({<<"UNREGISTERED_STAGING">>}, "artifact", view.todo)
                 \/ Adds({}, "artifact", view.todo)
<1> USE DEF ViewType, Looking
<1>1. /\ {<<"RECOVERY_REQUIRED">>} \in SUBSET Blockers
      /\ {<<"UNREGISTERED_MASTER">>} \in SUBSET Blockers
      /\ {<<"UNREGISTERED_STAGING">>} \in SUBSET Blockers
      /\ {} \in SUBSET Blockers
  BY BlockerForms DEF Words
<1>2. {"receipt", "master", "staging", "artifact"} \subseteq ViewPcs
  BY DEF ViewPcs
<1>3. \A blockers \in SUBSET Blockers, pc \in ViewPcs :
        Block(blockers, pc) => Adds(blockers, pc, view.todo)
  BY BlockAdds
<1>4. ASSUME LookJournal
      PROVE  /\ view.pc = "journal"
             /\ \/ journal # None
                   /\ Adds({<<"RECOVERY_REQUIRED">>}, "artifact", view.todo)
                \/ journal = None /\ Adds({}, "receipt", view.todo)
  BY <1>1, <1>2, <1>3, <1>4 DEF LookJournal
<1>5. ASSUME LookReceipt
      PROVE  /\ view.pc = "receipt"
             /\ \/ receipt # None
                   /\ Adds({<<"RECOVERY_REQUIRED">>}, "artifact", view.todo)
                \/ receipt = None /\ Adds({}, "master", view.todo)
  BY <1>1, <1>2, <1>3, <1>5 DEF LookReceipt
<1>6. ASSUME LookMaster
      PROVE  /\ view.pc = "master"
             /\ \/ /\ view.state.master = None /\ files["master"] # None
                   /\ Adds({<<"UNREGISTERED_MASTER">>}, "staging", view.todo)
                \/ Adds({}, "staging", view.todo)
  BY <1>1, <1>2, <1>3, <1>6 DEF LookMaster
<1>7. ASSUME LookStaging
      PROVE  /\ view.pc = "staging"
             /\ \/ /\ files["staged"] # None
                   /\ Adds({<<"UNREGISTERED_STAGING">>}, "artifact", view.todo)
                \/ Adds({}, "artifact", view.todo)
  BY <1>1, <1>2, <1>3, <1>7 DEF LookStaging
<1> QED BY <1>4, <1>5, <1>6, <1>7

(* One label: passed on to its hash, or done with.                         *)
LEMMA ArtifactFields ==
  ASSUME ViewType, LookArtifact
  PROVE  /\ view.pc = "artifact" /\ view.todo # <<>>
         /\ LET label == Head(view.todo)
            IN \/ view.verify /\ Adds({}, "hash", view.todo)
               \/ ~view.verify /\ Adds({}, "artifact", Tail(view.todo))
               \/ \E kind \in {"MISSING", "SIZE_MISMATCH"} :
                    /\ ~Holds(label, Identity(view.state, label))
                    /\ Adds({<<kind, label>>}, "artifact", Tail(view.todo))
<1> DEFINE label == Head(view.todo)
           found == files[label]
           kind == CASE found = None -> "MISSING"
                     [] found # None /\ Size(found) # Size(Identity(view.state, label))
                        -> "SIZE_MISMATCH"
                     [] OTHER -> "none"
           more == IF kind = "none" THEN {} ELSE {<<kind, label>>}
<1>0. view.pc = "artifact" /\ view.todo # <<>>
  BY DEF LookArtifact, Looking
<1>1. view \in ViewRecords /\ label \in Labels /\ Tail(view.todo) \in Seq(Labels)
      /\ Identity(view.state, label) # None
  BY <1>0, AmongTail DEF ViewType, ViewRecords
<1>2. IF kind = "none" /\ view.verify THEN Block({}, "hash")
      ELSE view' = [view EXCEPT !.blockers = view.blockers \cup more,
                                !.todo = Tail(view.todo)]
  BY DEF LookArtifact
<1>3. /\ kind \in {"MISSING", "SIZE_MISMATCH", "none"}
      /\ kind # "none" => ~Holds(label, Identity(view.state, label))
  BY DEF Holds
<1>4. more \in SUBSET Blockers
  BY <1>1, <1>3, BlockerForms DEF Words
<1>5. kind = "none" => more = {}
  OBVIOUS
<1>6. kind # "none" => more = {<<kind, label>>}
  OBVIOUS
<1> HIDE DEF label, kind, more
<1>7. CASE kind = "none" /\ view.verify
  <2>1. Adds({}, "hash", view.todo)
    BY <1>1, <1>2, <1>7, BlockAdds DEF ViewPcs
  <2> QED BY <1>0, <1>7, <2>1
<1>8. CASE ~(kind = "none" /\ view.verify)
  <2>1. Adds(more, "artifact", Tail(view.todo))
    <3>1. view.blockers \cup more \in SUBSET Blockers
      BY <1>1, <1>4 DEF ViewRecords
    <3> QED BY <1>0, <1>1, <1>2, <1>8, <3>1 DEF Adds, ViewRecords
  <2> QED BY <1>0, <1>3, <1>5, <1>6, <1>8, <2>1 DEF label
<1> QED BY <1>7, <1>8

LEMMA HashFields ==
  ASSUME ViewType, LookHash
  PROVE  /\ view.pc = "hash" /\ view.verify /\ view.todo # <<>>
         /\ LET label == Head(view.todo)
            IN \/ /\ Holds(label, Identity(view.state, label))
                  /\ Adds({}, "artifact", Tail(view.todo))
               \/ /\ ~Holds(label, Identity(view.state, label))
                  /\ Adds({<<"HASH_MISMATCH", label>>}, "artifact", Tail(view.todo))
<1> DEFINE label == Head(view.todo)
           holds == Holds(label, Identity(view.state, label))
           more == IF holds THEN {} ELSE {<<"HASH_MISMATCH", label>>}
<1>0. view.pc = "hash" /\ view.verify /\ view.todo # <<>>
  BY DEF LookHash, ViewType, Looking
<1>1. view \in ViewRecords /\ label \in Labels /\ Tail(view.todo) \in Seq(Labels)
  BY <1>0, AmongTail DEF ViewType, ViewRecords
<1>2. view' = [view EXCEPT !.blockers = view.blockers \cup more,
                           !.todo = Tail(view.todo), !.pc = "artifact"]
  BY DEF LookHash
<1>3. more \in SUBSET Blockers
  BY <1>1, BlockerForms DEF Words
<1>4. IF holds THEN more = {} ELSE more = {<<"HASH_MISMATCH", label>>}
  OBVIOUS
<1> HIDE DEF label, holds, more
<1>5. Adds(more, "artifact", Tail(view.todo))
  <2>1. view.blockers \cup more \in SUBSET Blockers
    BY <1>1, <1>3 DEF ViewRecords
  <2> QED BY <1>0, <1>1, <1>2, <2>1 DEF Adds, ViewRecords, ViewPcs
<1> QED BY <1>0, <1>4, <1>5 DEF label, holds

LEMMA EngineFields ==
  ASSUME ViewType, LookEngine
  PROVE  /\ view.pc = "artifact" /\ view.todo = <<>>
         /\ LET s == view.state
            IN \/ /\ s.schema_version = 2 /\ s.master # None /\ view.verify
                  /\ EngineIs(s.master.engine)
                  /\ Adds({}, "reported", view.todo)
               \/ /\ ~(s.master # None /\ (view.verify \/ s.stage = "READY"))
                  /\ Adds({}, "reported", view.todo)
               \/ /\ s.schema_version # 2
                  /\ Adds({<<"LEGACY_EVIDENCE_REBUILD_REQUIRED">>}, "reported",
                          view.todo)
               \/ /\ s.master # None /\ view.verify
                  /\ \E kind \in {"ENGINE_CONTRACT_DRIFT",
                                  "ENGINE_CONTRACT_UNAVAILABLE"} :
                       Adds({<<kind>>}, "reported", view.todo)
               \/ /\ s.master # None /\ s.stage = "READY"
                  /\ Adds({<<"ENGINE_VERIFICATION_REQUIRED">>}, "reported",
                          view.todo)
<1>1. /\ {<<"LEGACY_EVIDENCE_REBUILD_REQUIRED">>} \in SUBSET Blockers
      /\ {<<"ENGINE_CONTRACT_DRIFT">>} \in SUBSET Blockers
      /\ {<<"ENGINE_CONTRACT_UNAVAILABLE">>} \in SUBSET Blockers
      /\ {<<"ENGINE_VERIFICATION_REQUIRED">>} \in SUBSET Blockers
      /\ {} \in SUBSET Blockers /\ "reported" \in ViewPcs
  BY BlockerForms DEF ViewPcs, Words
<1>2. \A blockers \in SUBSET Blockers, pc \in ViewPcs :
        Block(blockers, pc) => Adds(blockers, pc, view.todo)
  BY BlockAdds DEF ViewType
<1>3. view.pc = "artifact" /\ view.todo = <<>>
  BY DEF LookEngine, Looking
<1>4. CASE view.state.schema_version # 2
  BY <1>1, <1>2, <1>3, <1>4 DEF LookEngine
<1>5. CASE /\ view.state.schema_version = 2 /\ view.state.master # None
           /\ view.verify
  BY <1>1, <1>2, <1>3, <1>5 DEF LookEngine
<1>6. CASE /\ view.state.schema_version = 2
           /\ ~(view.state.master # None /\ view.verify)
  BY <1>1, <1>2, <1>3, <1>6 DEF LookEngine
<1> QED BY <1>4, <1>5, <1>6

LEMMA IdleView == view' = NoView => ViewType' /\ view'.pc = "idle"
<1>1. ASSUME view' = NoView PROVE ViewType' /\ view'.pc = "idle"
  <2>1. /\ view' \in ViewRecords /\ view'.pc = "idle"
    BY <1>1 DEF NoView, ViewRecords, ViewPcs, Opt
  <2> QED BY <2>1 DEF ViewType, Looking
<1> QED BY <1>1

LEMMA AddsTyped ==
  ASSUME ViewType, view.pc # "idle", UNCHANGED project,
         NEW blockers, NEW pc, NEW todo, Adds(blockers, pc, todo),
         \A l \in Labels : Among(l, todo) => Among(l, view.todo),
         pc = "hash" => view.verify /\ todo # <<>>,
         pc = "reported" => todo = <<>>
  PROVE  ViewType'
BY DEF ViewType, Adds, Looking

LEMMA ViewTypeStep == Inv /\ ViewType /\ [ViewNext]_viewVars => ViewType'
<1> SUFFICES ASSUME Inv, ViewType, [ViewNext]_viewVars PROVE ViewType'
  OBVIOUS
<1>0. view \in ViewRecords /\ [Next]_vars
  BY ViewStutters DEF ViewType
<1>1. ASSUME NEW verify \in BOOLEAN, StatusStart(verify) PROVE ViewType'
  <2>1. UNCHANGED project
    BY <1>1, ViewStutters
  <2>2. \A l \in Labels : Among(l, Registered(project))
                            <=> Identity(project, l) # None
    BY RegisteredLabels
  <2> QED BY <1>1, <2>1, <2>2, StartFields DEF ViewType, Looking
<1>2. CASE LookJournal \/ LookReceipt \/ LookMaster \/ LookStaging
  <2>1. UNCHANGED project /\ view.pc # "idle"
    BY <1>2, ViewStutters, LookFields
  <2>2. ASSUME NEW blockers, NEW pc \in {"receipt", "artifact", "master", "staging"},
               Adds(blockers, pc, view.todo)
        PROVE  ViewType'
    BY <2>1, <2>2, AddsTyped
  <2> QED BY <1>2, <2>2, LookFields
<1>3. CASE LookArtifact
  <2>1. /\ UNCHANGED project /\ view.pc # "idle" /\ view.todo # <<>>
        /\ \A l \in Labels : Among(l, Tail(view.todo)) => Among(l, view.todo)
    BY <1>0, <1>3, ViewStutters, ArtifactFields, AmongTail DEF ViewRecords
  <2>2. CASE view.verify /\ Adds({}, "hash", view.todo)
    BY <2>1, <2>2, AddsTyped
  <2>3. ASSUME NEW blockers, Adds(blockers, "artifact", Tail(view.todo))
        PROVE  ViewType'
    BY <2>1, <2>3, AddsTyped
  <2> QED BY <1>3, <2>2, <2>3, ArtifactFields
<1>4. CASE LookHash
  <2>1. /\ UNCHANGED project /\ view.pc # "idle" /\ view.todo # <<>>
        /\ \A l \in Labels : Among(l, Tail(view.todo)) => Among(l, view.todo)
    BY <1>0, <1>4, ViewStutters, HashFields, AmongTail DEF ViewRecords
  <2>3. ASSUME NEW blockers, Adds(blockers, "artifact", Tail(view.todo))
        PROVE  ViewType'
    BY <2>1, <2>3, AddsTyped
  <2> QED BY <1>4, <2>3, HashFields
<1>5. CASE LookEngine
  <2>1. UNCHANGED project /\ view.pc # "idle" /\ view.todo = <<>>
    BY <1>5, ViewStutters, EngineFields
  <2>2. PICK blockers : Adds(blockers, "reported", view.todo)
    BY <1>5, EngineFields
  <2> QED BY <2>1, <2>2, AddsTyped
<1>6. CASE StatusEnd
  BY <1>6, IdleView DEF StatusEnd
<1>7. CASE Next /\ Watch /\ view.pc # "idle"
  BY <1>0, <1>7, WatchFields, ProjectSteps DEF ViewType, Looking
<1>8. CASE UNCHANGED view /\ view.pc = "idle"
  BY <1>8 DEF ViewType, Looking
<1>9. CASE UNCHANGED viewVars
  <2>1. UNCHANGED <<project, view>>
    BY <1>9, VarsFrame DEF viewVars
  <2> QED BY <2>1 DEF ViewType, Looking
<1> QED BY <1>1, <1>2, <1>3, <1>4, <1>5, <1>6, <1>7, <1>8, <1>9, ViewSteps
        DEF Watch, Looking

LEMMA ViewTyped == ViewSpec => []ViewType
<1>1. ViewInit => ViewType
  BY DEF ViewInit, NoView, ViewType, ViewRecords, ViewPcs, Opt, Looking
<1> QED BY <1>1, ViewTypeStep, ViewWorkspace, PTL DEF ViewSpec

LEMMA OutsideCounts ==
  ASSUME Inv, Outside, edits' = edits
  PROVE  SupplySource
<1>1. ASSUME NEW thing PROVE ~Edit(thing)
  <2>1. edits + 1 # edits
    BY WorkspaceAssumption DEF Inv
  <2> QED BY <2>1 DEF Edit
<1> QED BY <1>1 DEF Outside, EditFile, EditReceipt, EngineDrift

-----------------------------------------------------------------------------
(* A pending recovery *)

RecoveryBlocked == <<"RECOVERY_REQUIRED">> \in view.blockers

(* Once the journal is seen gone only the receipt can be what is pending,   *)
(* and it goes only when nothing is.                                       *)
PendingInv ==
  view.pc # "idle" /\ view.pending /\ "receipt" \notin view.seen =>
    /\ Pending
    /\ Looking("receipt") => receipt # None
    /\ view.pc \notin {"journal", "receipt"} => RecoveryBlocked

LEMMA PendingStep ==
  Inv /\ ViewType /\ PendingInv /\ [ViewNext]_viewVars => PendingInv'
<1> SUFFICES ASSUME Inv, ViewType, PendingInv, [ViewNext]_viewVars
             PROVE  PendingInv'
  OBVIOUS
<1> USE DEF Looking
<1>0. view \in ViewRecords /\ [Next]_vars
  BY ViewStutters DEF ViewType
<1>1. ASSUME NEW verify \in BOOLEAN, StatusStart(verify) PROVE PendingInv'
  <2>1. UNCHANGED <<journal, receipt>>
    BY <1>1, ViewStutters
  <2> QED BY <1>1, <2>1, StartFields DEF PendingInv, Pending
<1>2. CASE LookJournal \/ LookReceipt
  <2>1. UNCHANGED <<journal, receipt>>
    BY <1>2, ViewStutters
  <2>2. CASE LookJournal
    BY <2>1, <2>2, LookFields DEF PendingInv, Pending, RecoveryBlocked, Adds
  <2>3. CASE LookReceipt
    BY <2>1, <2>3, LookFields DEF PendingInv, Pending, RecoveryBlocked, Adds
  <2> QED BY <1>2, <2>2, <2>3
<1>3. ASSUME NEW blockers, NEW pc, NEW todo, Adds(blockers, pc, todo),
             UNCHANGED <<journal, receipt>>,
             view.pc \notin {"idle", "journal", "receipt"},
             pc \notin {"idle", "journal", "receipt"}
      PROVE  PendingInv'
  BY <1>3 DEF PendingInv, Pending, RecoveryBlocked, Adds
<1>4. CASE LookMaster \/ LookStaging
  BY <1>3, <1>4, ViewStutters, LookFields
<1>5. CASE LookArtifact
  BY <1>3, <1>5, ViewStutters, ArtifactFields
<1>6. CASE LookHash
  BY <1>3, <1>6, ViewStutters, HashFields
<1>7. CASE LookEngine
  BY <1>3, <1>7, ViewStutters, EngineFields
<1>8. CASE StatusEnd
  BY <1>8, IdleView DEF StatusEnd, PendingInv
<1>9. CASE Next /\ Watch /\ view.pc # "idle"
  <2> SUFFICES ASSUME view'.pending, "receipt" \notin view'.seen
               PROVE  PendingInv'
    BY DEF PendingInv
  <2>1. /\ view.pending /\ "receipt" \notin view.seen /\ (Pending)'
        /\ view'.pc = view.pc /\ view'.blockers = view.blockers
        /\ edits' # edits => receipt' = receipt
    BY <1>0, <1>9, WatchFields DEF Changed
  <2>2. receipt # None => receipt' # None
    <3>1. CASE Outside
      <4>1. edits' = edits => receipt' = receipt
        BY <3>1, OutsideCounts DEF SupplySource
      <4> QED BY <2>1, <4>1
    <3>2. CASE DropReceipt
      <4>1. op.pc = "dropReceipt" /\ receipt' = None /\ journal' = journal
        BY <3>2 DEF DropReceipt, At, stateVars
      <4>2. journal = None
        BY <4>1 DEF Inv, OpInv, QuietInv
      <4> QED BY <2>1, <4>1, <4>2 DEF Pending
    <3>3. CASE WriteReceipt
      BY <3>3 DEF WriteReceipt, At, Inv, OpInv, PromoteInv
    <3>4. ASSUME Wrote, ~DropReceipt, ~WriteReceipt PROVE receipt' = receipt
      BY <3>4 DEF Wrote, Link, DropStaged, Replace, RenderStart, RenderEnd
    <3> QED BY <1>0, <3>1, <3>2, <3>3, <3>4, StepKinds, LookedFrame, StoredFrame,
               BeginFrame, VarsFrame
  <2> QED BY <1>9, <2>1, <2>2 DEF PendingInv, RecoveryBlocked
<1>10. CASE UNCHANGED view /\ view.pc = "idle"
  BY <1>10 DEF PendingInv
<1>11. CASE UNCHANGED viewVars
  <2>1. UNCHANGED <<journal, receipt, view>>
    BY <1>11, VarsFrame DEF viewVars
  <2> QED BY <2>1 DEF PendingInv, Pending, RecoveryBlocked
<1> QED BY <1>1, <1>2, <1>4, <1>5, <1>6, <1>7, <1>8, <1>9, <1>10, <1>11, ViewSteps
        DEF Watch

(* What was found pending is in the report, whatever else was. *)
LEMMA PendingShown == PendingInv => PendingReported
<1> SUFFICES ASSUME PendingInv, Reported, view.pending,
                    "receipt" \notin view.seen
             PROVE  NextAction = "recover"
  BY DEF PendingReported
<1>1. <<"RECOVERY_REQUIRED">> \in view.blockers /\ view.blockers # {}
  BY DEF PendingInv, RecoveryBlocked, Reported, Looking
<1>2. view.blockers # {<<"ENGINE_VERIFICATION_REQUIRED">>}
  <2>1. <<"RECOVERY_REQUIRED">> # <<"ENGINE_VERIFICATION_REQUIRED">>
    OBVIOUS
  <2> QED BY <1>1, <2>1
<1> QED BY <1>1, <1>2 DEF NextAction

(* A recovery that stays pending while status runs is reported, whatever   *)
(* the commands beside it do between its looks.                            *)
THEOREM PendingIsReported == ViewSpec => []PendingReported
<1>1. ViewInit => PendingInv
  BY DEF ViewInit, NoView, PendingInv
<1>2. ViewSpec => []PendingInv
  BY <1>1, PendingStep, ViewWorkspace, ViewTyped, PTL DEF ViewSpec
<1> QED BY <1>2, PendingShown, PTL

-----------------------------------------------------------------------------
(* ready *)

(* No command writes a media, plan or manifest file of a READY project.    *)
LEMMA ReadyFrame ==
  ASSUME Inv, [Next]_vars, project # None, project.stage = "READY"
  PROVE  /\ project' = project
         /\ UNCHANGED <<files, engine>> \/ (Outside /\ edits' # edits)
<1>0. OpInv /\ project \in States
  BY NotNone DEF Inv
<1>1. project' = project
  <2>1. ~ValidTransition(project, project')
    BY DEF ValidTransition, Follows, NextStage
  <2> QED BY <2>1, ProjectSteps
<1>2. /\ op.pc \notin {"link", "dropStaged", "render", "rendering"}
      /\ op.pc # "replace"
  <2>1. op.pc \notin {"link", "dropStaged"}
    BY <1>0 DEF OpInv, PromoteInv
  <2>2. ~AtWork
    BY <1>0 DEF OpInv, WorkInv, StageOf
  <2> QED BY <2>1, <2>2 DEF AtWork
<1>3. Wrote => UNCHANGED <<files, engine>>
  BY <1>2 DEF Wrote, Link, DropStaged, Replace, RenderStart, RenderEnd,
              DropReceipt, WriteReceipt, At
<1>4. Outside => edits' # edits
  BY OutsideCounts DEF SupplySource
<1> QED BY <1>1, <1>3, <1>4, StepKinds, LookedFrame, StoredFrame, BeginFrame,
           VarsFrame

(* A label is still to be looked at, or was found as registered, or was    *)
(* edited since; and a report without a blocker has looked at the engine.  *)
ReadyInv ==
  view.pc # "idle" /\ view.state.stage = "READY" =>
    /\ project = view.state
    /\ view.verify /\ view.blockers = {} =>
         \A l \in Labels :
           \/ Among(l, view.todo)
           \/ Holds(l, Identity(view.state, l))
           \/ l \in view.seen
    /\ Looking("reported") /\ view.blockers = {} =>
         /\ view.verify /\ view.state.schema_version = 2
         /\ EngineIs(view.state.master.engine) \/ "engine" \in view.seen

LEMMA ReadyIdentities ==
  ASSUME NEW s, ValidState(s), s.stage = "READY"
  PROVE  s.master # None /\ \A l \in Labels : Identity(s, l) # None
<1>1. /\ s.source # None /\ s.approved_plan # None /\ s.master # None
      /\ s.release_manifest # None /\ s \in States
  BY DEF ValidState, ValidMaster, Built
<1>2. s.master.sha256 # None
  BY <1>1, SortFacts DEF States, Opt, Masters
<1> QED BY <1>1, <1>2 DEF Identity, Labels

LEMMA ReadyStep ==
  Inv /\ ViewType /\ ReadyInv /\ [ViewNext]_viewVars => ReadyInv'
<1> SUFFICES ASSUME Inv, ViewType, ReadyInv, [ViewNext]_viewVars,
                    view'.pc # "idle", view'.state.stage = "READY"
             PROVE  ReadyInv'
  BY DEF ReadyInv
<1> USE DEF Looking
<1>0. view \in ViewRecords /\ [Next]_vars
  BY ViewStutters DEF ViewType
<1>1. ASSUME NEW verify \in BOOLEAN, StatusStart(verify) PROVE ReadyInv'
  <2>1. UNCHANGED <<project, files>>
    BY <1>1, ViewStutters
  <2>2. \A l \in Labels : Among(l, Registered(project))
    BY <1>1, StartFields, ReadyIdentities, RegisteredLabels
  <2> QED BY <1>1, <2>1, <2>2, StartFields DEF ReadyInv
<1>2. ASSUME NEW blockers, NEW pc, NEW todo, Adds(blockers, pc, todo),
             UNCHANGED <<project, files, engine>>,
             \A l \in Labels : Among(l, view.todo) =>
               \/ Among(l, todo) \/ blockers # {} \/ ~view.verify
               \/ Holds(l, Identity(view.state, l)),
             view.pc # "idle",
             pc = "reported" /\ blockers = {} =>
               /\ view.verify /\ view.state.schema_version = 2
               /\ EngineIs(view.state.master.engine)
      PROVE  ReadyInv'
  <2>1. /\ view'.verify = view.verify /\ view'.state = view.state
        /\ view'.seen = view.seen /\ view'.todo = todo /\ view'.pc = pc
        /\ view'.blockers = view.blockers \cup blockers
    BY <1>2 DEF Adds
  <2>2. project' = view'.state
    BY <1>2, <2>1 DEF ReadyInv
  <2>3. ASSUME view'.verify, view'.blockers = {}, NEW l \in Labels
        PROVE  \/ Among(l, view'.todo)
               \/ Holds(l, Identity(view.state, l))
               \/ l \in view'.seen
    BY <1>2, <2>1, <2>3 DEF ReadyInv
  <2>4. \A l \in Labels : Holds(l, Identity(view.state, l))
                            => Holds(l, Identity(view.state, l))'
    BY <1>2, <2>1 DEF Holds, Identity
  <2>5. view'.pc = "reported" /\ view'.blockers = {} =>
          /\ view'.verify /\ view'.state.schema_version = 2
          /\ EngineIs(view.state.master.engine)'
    BY <1>2, <2>1 DEF EngineIs
  <2> QED BY <2>2, <2>3, <2>4, <2>5 DEF ReadyInv
<1>3. CASE LookJournal \/ LookReceipt \/ LookMaster \/ LookStaging
  BY <1>2, <1>3, ViewStutters, LookFields
<1>4. CASE LookArtifact
  <2>1. /\ UNCHANGED <<project, files, engine>> /\ view.pc # "idle"
        /\ \A l \in Labels : Among(l, view.todo)
             => l = Head(view.todo) \/ Among(l, Tail(view.todo))
    BY <1>0, <1>4, ViewStutters, ArtifactFields, AmongTail DEF ViewRecords
  <2>2. ASSUME NEW kind, Adds({<<kind, Head(view.todo)>>}, "artifact", Tail(view.todo))
        PROVE  ReadyInv'
    <3>1. {<<kind, Head(view.todo)>>} # {}
      OBVIOUS
    <3> QED BY <1>2, <2>1, <2>2, <3>1
  <2>3. CASE Adds({}, "hash", view.todo)
    BY <1>2, <2>1, <2>3
  <2>4. CASE ~view.verify /\ Adds({}, "artifact", Tail(view.todo))
    BY <1>2, <2>1, <2>4
  <2> QED BY <1>4, <2>2, <2>3, <2>4, ArtifactFields
<1>5. CASE LookHash
  <2>1. /\ UNCHANGED <<project, files, engine>> /\ view.pc # "idle"
        /\ \A l \in Labels : Among(l, view.todo)
             => l = Head(view.todo) \/ Among(l, Tail(view.todo))
    BY <1>0, <1>5, ViewStutters, HashFields, AmongTail DEF ViewRecords
  <2>2. CASE Adds({<<"HASH_MISMATCH", Head(view.todo)>>}, "artifact", Tail(view.todo))
    <3>1. {<<"HASH_MISMATCH", Head(view.todo)>>} # {}
      OBVIOUS
    <3> QED BY <1>2, <2>1, <2>2, <3>1
  <2>3. CASE /\ Holds(Head(view.todo), Identity(view.state, Head(view.todo)))
             /\ Adds({}, "artifact", Tail(view.todo))
    BY <1>2, <2>1, <2>3
  <2> QED BY <1>5, <2>2, <2>3, HashFields
<1>6. CASE LookEngine
  <2>1. /\ UNCHANGED <<project, files, engine>> /\ view.pc # "idle"
    BY <1>6, ViewStutters, EngineFields
  <2>2. ASSUME NEW blockers, blockers # {}, Adds(blockers, "reported", view.todo)
        PROVE  ReadyInv'
    BY <1>2, <2>1, <2>2
  <2>3. CASE /\ view.state.schema_version = 2 /\ view.verify
             /\ EngineIs(view.state.master.engine)
             /\ Adds({}, "reported", view.todo)
    BY <1>2, <2>1, <2>3
  <2>4. ASSUME ~(view.state.master # None
                   /\ (view.verify \/ view.state.stage = "READY")),
               Adds({}, "reported", view.todo)
        PROVE  FALSE
    <3>1. view.state.stage = "READY"
      BY <2>4 DEF Adds
    <3> QED BY <2>1, <2>4, <3>1, ReadyIdentities DEF ViewType
  <2>5. \A word \in Words : {<<word>>} # {}
    OBVIOUS
  <2>6. /\ "LEGACY_EVIDENCE_REBUILD_REQUIRED" \in Words
        /\ "ENGINE_CONTRACT_DRIFT" \in Words
        /\ "ENGINE_CONTRACT_UNAVAILABLE" \in Words
        /\ "ENGINE_VERIFICATION_REQUIRED" \in Words
    BY DEF Words
  <2> QED BY <1>6, <2>2, <2>3, <2>4, <2>5, <2>6, EngineFields
<1>7. ~StatusEnd
  BY IdleView DEF StatusEnd
<1>8. CASE Next /\ Watch /\ view.pc # "idle"
  <2>1. /\ view'.pc = view.pc /\ view'.verify = view.verify
        /\ view'.state = view.state /\ view'.blockers = view.blockers
        /\ view'.todo = view.todo /\ view.seen \subseteq view'.seen
        /\ edits' # edits => Changed \subseteq view'.seen
    BY <1>0, <1>8, WatchFields
  <2>2. project = view.state /\ project # None /\ project.stage = "READY"
    BY <1>8, <2>1 DEF ReadyInv, ViewType
  <2>3. /\ project' = project
        /\ UNCHANGED <<files, engine>> \/ edits' # edits
    BY <1>0, <2>2, ReadyFrame
  <2>4. \A l \in Labels : files'[l] = files[l] \/ l \in view'.seen
    BY <2>1, <2>3 DEF Changed, Names, Labels
  <2>5. engine' = engine \/ "engine" \in view'.seen
    BY <2>1, <2>3 DEF Changed
  <2>6. ASSUME view'.verify, view'.blockers = {}, NEW l \in Labels
        PROVE  \/ Among(l, view'.todo)
               \/ Holds(l, Identity(view.state, l))'
               \/ l \in view'.seen
    <3>1. \/ Among(l, view.todo)
          \/ Holds(l, Identity(view.state, l))
          \/ l \in view.seen
      BY <1>8, <2>1, <2>6 DEF ReadyInv
    <3> QED BY <2>1, <2>4, <3>1 DEF Holds, Identity
  <2>7. view'.pc = "reported" /\ view'.blockers = {} =>
          /\ view'.verify /\ view'.state.schema_version = 2
          /\ EngineIs(view.state.master.engine)' \/ "engine" \in view'.seen
    BY <1>8, <2>1, <2>5 DEF ReadyInv, EngineIs
  <2> QED BY <2>1, <2>2, <2>3, <2>6, <2>7 DEF ReadyInv
<1>9. CASE UNCHANGED viewVars
  <2>1. UNCHANGED <<project, files, engine, view>>
    BY <1>9, VarsFrame DEF viewVars
  <2> QED BY <2>1 DEF ReadyInv, Holds, EngineIs
<1> QED BY <1>1, <1>3, <1>4, <1>5, <1>6, <1>7, <1>8, <1>9, ViewSteps DEF Watch

(* No blocker, and nothing left to look at. *)
LEMMA ReadyShown == ViewType /\ ReadyInv => ReadyHolds
<1> SUFFICES ASSUME ViewType, ReadyInv, Reported, Ready PROVE ReadyHolds
  BY DEF ReadyHolds
<1>1. /\ view.pc = "reported" /\ view.state.stage = "READY"
      /\ view.blockers = {} /\ view.todo = <<>>
  BY DEF Reported, Ready, Looking, ViewType
<1>2. \A l : ~Among(l, view.todo)
  BY <1>1 DEF Among
<1> QED BY <1>1, <1>2 DEF ReadyInv, ReadyHolds, Looking

(* A verified report says ready only of a READY project whose registered    *)
(* files and engine hold, but for what is edited while it looks.           *)
THEOREM ReadyIsReady == ViewSpec => []ReadyHolds
<1>1. ViewInit => ReadyInv
  BY DEF ViewInit, NoView, ReadyInv
<1>2. ViewSpec => []ReadyInv
  BY <1>1, ReadyStep, ViewWorkspace, ViewTyped, PTL DEF ViewSpec
<1> QED BY <1>2, ReadyShown, ViewTyped, PTL

-----------------------------------------------------------------------------
(* The advice *)

(* Every step of a command can be told by its control or by the store's.   *)
LEMMA Moves ==
  ASSUME Inv, Program \/ Stop
  PROVE  op' # op \/ tx' # tx
<1> USE DEF At
<1>1. CASE StoreStep
  BY <1>1, StepKeeps DEF StoreStep, Inv
<1>2. CASE Stop
  BY <1>2, Arrivals DEF Stop
<1>3. ASSUME NEW cmd \in Commands, Begin(cmd) PROVE op' # op
  <2>1. op.pc = "idle"
    BY <1>3 DEF Begin
  <2>2. op'.pc \in {"preflight", "recover"}
    BY <1>3, Arrivals
  <2> QED BY <2>1, <2>2
<1>4. ASSUME NEW id \in Ids, Register(id) PROVE op' # op
  <2>1. op.pc = "rehash"
    BY <1>4 DEF Register
  <2>2. op'.pc = "idle"
    BY <1>4, Arrivals
  <2> QED BY <2>1, <2>2
<1>5. ASSUME NEW plan \in Plans, ApprovePlan(plan) PROVE op' # op
  <2>1. op.pc = "approve"
    BY <1>5 DEF ApprovePlan
  <2>2. op'.pc = "write"
    BY <1>5, Arrivals
  <2> QED BY <2>1, <2>2
<1>6. CASE \/ NothingPending \/ RecoverJournal \/ StoreReturns \/ NoReceipt
           \/ FinishedReceipt \/ RecoverBuild \/ Dispatch
  BY <1>6, Arrivals DEF NothingPending, RecoverJournal, StoreReturns, NoReceipt,
                        FinishedReceipt, RecoverBuild, Dispatch
<1>7. CASE \/ Link \/ DropStaged \/ CommitMaster \/ DropReceipt
           \/ WriteExact(Evidenced) \/ Replace(Evidenced) \/ RegisterEvidence
           \/ Preflight \/ CreateManifest
  BY <1>7, Arrivals DEF Link, DropStaged, CommitMaster, DropReceipt, WriteExact,
                        Replace, RegisterEvidence, Preflight, CreateManifest
<1>8. CASE \/ BuildChecks \/ RenderStart \/ RenderEnd \/ Hash \/ Probe
           \/ AfterRender \/ WriteReceipt
           \/ QaChecks \/ TechnicalChecks \/ MeasureLoudness \/ AfterQa
  BY <1>8, Arrivals DEF BuildChecks, RenderStart, RenderEnd, Hash, Probe,
                        AfterRender, WriteReceipt, QaChecks, TechnicalChecks,
                        MeasureLoudness, AfterQa
<1> QED BY <1>1, <1>2, <1>3, <1>4, <1>5, <1>6, <1>7, <1>8 DEF Program, Work

(* While no command moves and no edit is noted, nothing changes.           *)
LEMMA CalmFrame ==
  ASSUME Inv, ViewType, Next, Watch, view.pc # "idle", view'.calm, view'.seen = {}
  PROVE  /\ view.calm /\ view.seen = {}
         /\ UNCHANGED <<project, journal, receipt, engine>>
         /\ \A n \in Names : files'[n] = files[n]
<1>1. /\ view.calm /\ view.seen = {} /\ op' = op /\ tx' = tx
      /\ edits' # edits => Changed = {}
  BY WatchFields DEF ViewType
<1>2. Outside
  BY <1>1, Moves DEF Next
<1>3. edits' # edits
  BY <1>2, OutsideCounts DEF SupplySource, ViewType
<1>4. /\ receipt' = receipt /\ engine' = engine
      /\ \A n \in Names : files'[n] = files[n]
  BY <1>1, <1>3 DEF Changed
<1>5. UNCHANGED <<project, journal>>
  BY <1>2, OutsideTyped DEF OutsideStep
<1> QED BY <1>1, <1>4, <1>5

(* What an operator is called to review. *)
ToReview ==
  \/ files["staged"] # None
  \/ project.schema_version # 2
  \/ project.master = None /\ files["master"] # None
  \/ \E l \in Labels :
       Identity(project, l) # None /\ ~Holds(l, Identity(project, l))
  \/ project.master # None /\ view.verify

Justified(blocker) ==
  CASE blocker = <<"RECOVERY_REQUIRED">> -> Pending
    [] blocker = <<"ENGINE_VERIFICATION_REQUIRED">> -> TRUE
    [] OTHER -> ToReview

AdviceInv ==
  view.pc # "idle" /\ view.calm /\ view.seen = {} =>
    /\ project = view.state
    /\ view.pc \in {"receipt", "master", "staging"} => journal = None
    /\ view.pc \in {"master", "staging"} => receipt = None
    /\ view.pc \in {"artifact", "hash", "reported"} /\ Pending => RecoveryBlocked
    /\ \A blocker \in view.blockers : Justified(blocker)

LEMMA AdviceStep ==
  Inv /\ ViewType /\ AdviceInv /\ [ViewNext]_viewVars => AdviceInv'
<1> SUFFICES ASSUME Inv, ViewType, AdviceInv, [ViewNext]_viewVars,
                    view'.pc # "idle", view'.calm, view'.seen = {}
             PROVE  AdviceInv'
  BY DEF AdviceInv
<1> USE DEF Looking
<1>0. view \in ViewRecords /\ [Next]_vars
  BY ViewStutters DEF ViewType
<1>1. ASSUME NEW verify \in BOOLEAN, StatusStart(verify) PROVE AdviceInv'
  <2>1. UNCHANGED project
    BY <1>1, ViewStutters
  <2> QED BY <1>1, <2>1, StartFields DEF AdviceInv
<1>2. ASSUME NEW blockers, NEW pc, NEW todo, Adds(blockers, pc, todo),
             UNCHANGED <<project, journal, receipt, files>>,
             view.pc # "idle",
             view.calm /\ view.seen = {} /\ project = view.state
               => \A b \in blockers : Justified(b),
             pc \in {"receipt", "master", "staging"} => journal = None,
             pc \in {"master", "staging"} => receipt = None,
             pc \in {"artifact", "hash", "reported"} /\ Pending =>
               \/ view.pc \in {"artifact", "hash", "reported"}
               \/ <<"RECOVERY_REQUIRED">> \in blockers
      PROVE  AdviceInv'
  <2>1. /\ view'.verify = view.verify /\ view'.state = view.state
        /\ view'.seen = view.seen /\ view'.calm = view.calm /\ view'.pc = pc
        /\ view'.blockers = view.blockers \cup blockers
    BY <1>2 DEF Adds
  <2>2. /\ project = view.state
        /\ view.pc \in {"artifact", "hash", "reported"} /\ Pending => RecoveryBlocked
        /\ \A b \in view'.blockers : Justified(b)
    BY <1>2, <2>1 DEF AdviceInv
  <2>3. ASSUME NEW b, Justified(b) PROVE Justified(b)'
    BY <1>2, <2>1, <2>3 DEF Justified, ToReview, Pending, Holds
  <2>4. \A b \in view'.blockers : Justified(b)'
    BY <2>2, <2>3
  <2>5. (Pending)' <=> Pending
    BY <1>2 DEF Pending
  <2>6. pc \in {"artifact", "hash", "reported"} /\ Pending => RecoveryBlocked'
    BY <1>2, <2>1, <2>2 DEF RecoveryBlocked
  <2> QED BY <1>2, <2>1, <2>2, <2>4, <2>5, <2>6 DEF AdviceInv
<1>3. /\ view.calm /\ view.seen = {} /\ view.pc # "idle" => project = view.state
      /\ \A word, label : \A b \in {<<word, label>>} : ToReview => Justified(b)
      /\ \A word \in Words \ {"RECOVERY_REQUIRED", "ENGINE_VERIFICATION_REQUIRED"} :
           ToReview => \A b \in {<<word>>} : Justified(b)
      /\ Pending => \A b \in {<<"RECOVERY_REQUIRED">>} : Justified(b)
      /\ \A b \in {<<"ENGINE_VERIFICATION_REQUIRED">>} : Justified(b)
  <2>1. ASSUME NEW word, NEW label
        PROVE  /\ <<word, label>> # <<"RECOVERY_REQUIRED">>
               /\ <<word, label>> # <<"ENGINE_VERIFICATION_REQUIRED">>
    OBVIOUS
  <2>2. <<"ENGINE_VERIFICATION_REQUIRED">> # <<"RECOVERY_REQUIRED">>
    OBVIOUS
  <2>3. ASSUME NEW word \in Words \ {"RECOVERY_REQUIRED",
                                     "ENGINE_VERIFICATION_REQUIRED"}
        PROVE  /\ <<word>> # <<"RECOVERY_REQUIRED">>
               /\ <<word>> # <<"ENGINE_VERIFICATION_REQUIRED">>
    OBVIOUS
  <2> QED BY <2>1, <2>2, <2>3 DEF Justified, AdviceInv
<1>4. CASE LookJournal
  <2>1. UNCHANGED <<project, journal, receipt, files>>
    BY <1>4, ViewStutters
  <2>2. journal # None => Pending
    BY DEF Pending
  <2> QED BY <1>2, <1>3, <1>4, <2>1, <2>2, LookFields
<1>5. CASE LookReceipt
  <2>1. UNCHANGED <<project, journal, receipt, files>>
    BY <1>5, ViewStutters
  <2>2. receipt # None => Pending
    BY DEF Pending
  <2>3. journal = None
    <3>1. view.pc = "receipt" /\ view.calm /\ view.seen = {}
      BY <1>5, LookFields DEF Adds
    <3> QED BY <3>1 DEF AdviceInv
  <2> QED BY <1>2, <1>3, <1>5, <2>1, <2>2, <2>3, LookFields
<1>6. CASE LookMaster \/ LookStaging
  <2>1. UNCHANGED <<project, journal, receipt, files>>
    BY <1>6, ViewStutters
  <2>2. journal = None /\ receipt = None /\ project = view.state
    <3>1. view.pc \in {"master", "staging"} /\ view.calm /\ view.seen = {}
      BY <1>6, LookFields DEF Adds
    <3> QED BY <3>1 DEF AdviceInv
  <2>3. /\ ~Pending
        /\ view.state.master = None /\ files["master"] # None => ToReview
        /\ files["staged"] # None => ToReview
    BY <2>2 DEF Pending, ToReview
  <2>4. /\ "UNREGISTERED_MASTER" \in Words \ {"RECOVERY_REQUIRED",
                                              "ENGINE_VERIFICATION_REQUIRED"}
        /\ "UNREGISTERED_STAGING" \in Words \ {"RECOVERY_REQUIRED",
                                               "ENGINE_VERIFICATION_REQUIRED"}
    BY DEF Words
  <2>5. CASE LookMaster
    BY <1>2, <1>3, <2>1, <2>2, <2>3, <2>4, <2>5, LookFields
  <2>6. CASE LookStaging
    BY <1>2, <1>3, <2>1, <2>2, <2>3, <2>4, <2>6, LookFields
  <2> QED BY <1>6, <2>5, <2>6
<1>7. CASE LookArtifact \/ LookHash
  <2>1. /\ UNCHANGED <<project, journal, receipt, files>> /\ view.todo # <<>>
        /\ view.pc \in {"artifact", "hash"}
    BY <1>7, ViewStutters, ArtifactFields, HashFields
  <2>2. /\ Head(view.todo) \in Labels
        /\ Identity(view.state, Head(view.todo)) # None
    BY <1>0, <2>1, AmongTail DEF ViewType, ViewRecords
  <2>3. project = view.state
          /\ ~Holds(Head(view.todo), Identity(view.state, Head(view.todo)))
            => ToReview
    BY <2>2 DEF ToReview
  <2>4. ASSUME NEW pc \in {"artifact", "hash"}, NEW todo, Adds({}, pc, todo)
        PROVE  AdviceInv'
    BY <1>2, <2>1, <2>4
  <2>5. ASSUME NEW word, Adds({<<word, Head(view.todo)>>}, "artifact", Tail(view.todo)),
               ~Holds(Head(view.todo), Identity(view.state, Head(view.todo)))
        PROVE  AdviceInv'
    BY <1>2, <1>3, <2>1, <2>3, <2>5
  <2> QED BY <1>7, <2>4, <2>5, ArtifactFields, HashFields
<1>8. CASE LookEngine
  <2>1. /\ UNCHANGED <<project, journal, receipt, files>> /\ view.pc = "artifact"
    BY <1>8, ViewStutters, EngineFields
  <2>2. /\ "LEGACY_EVIDENCE_REBUILD_REQUIRED" \in Words
        /\ "ENGINE_CONTRACT_DRIFT" \in Words
        /\ "ENGINE_CONTRACT_UNAVAILABLE" \in Words
    BY DEF Words
  <2>3. /\ project = view.state /\ view.state.schema_version # 2 => ToReview
        /\ project = view.state /\ view.state.master # None /\ view.verify
             => ToReview
    BY DEF ToReview
  <2>4. ASSUME NEW blockers, Adds(blockers, "reported", view.todo),
               view.calm /\ view.seen = {} /\ project = view.state
                 => \A b \in blockers : Justified(b)
        PROVE  AdviceInv'
    BY <1>2, <2>1, <2>4
  <2>5. CASE Adds({}, "reported", view.todo)
    BY <2>4, <2>5
  <2>6. CASE Adds({<<"ENGINE_VERIFICATION_REQUIRED">>}, "reported", view.todo)
    BY <1>3, <2>4, <2>6
  <2>7. CASE /\ view.state.schema_version # 2
             /\ Adds({<<"LEGACY_EVIDENCE_REBUILD_REQUIRED">>}, "reported", view.todo)
    BY <1>3, <2>2, <2>3, <2>4, <2>7
  <2>8. ASSUME view.state.master # None, view.verify,
               NEW kind \in {"ENGINE_CONTRACT_DRIFT", "ENGINE_CONTRACT_UNAVAILABLE"},
               Adds({<<kind>>}, "reported", view.todo)
        PROVE  AdviceInv'
    BY <1>3, <2>2, <2>3, <2>4, <2>8
  <2> QED BY <1>8, <2>5, <2>6, <2>7, <2>8, EngineFields
<1>9. ~StatusEnd
  BY IdleView DEF StatusEnd
<1>10. CASE Next /\ Watch /\ view.pc # "idle"
  <2>1. /\ view.calm /\ view.seen = {} /\ UNCHANGED <<project, journal, receipt>>
        /\ \A n \in Names : files'[n] = files[n]
    BY <1>10, CalmFrame
  <2>2. /\ view'.pc = view.pc /\ view'.verify = view.verify
        /\ view'.state = view.state /\ view'.blockers = view.blockers
    BY <1>0, <1>10, WatchFields
  <2>3. /\ files'["staged"] = files["staged"] /\ files'["master"] = files["master"]
        /\ \A l \in Labels : files'[l] = files[l]
    BY <2>1 DEF Names, Labels
  <2>4. ASSUME NEW b, Justified(b) PROVE Justified(b)'
    BY <2>1, <2>2, <2>3, <2>4 DEF Justified, ToReview, Pending, Holds
  <2>5. (Pending)' <=> Pending
    BY <2>1 DEF Pending
  <2> QED BY <1>10, <2>1, <2>2, <2>4, <2>5 DEF AdviceInv, RecoveryBlocked
<1>11. CASE UNCHANGED viewVars
  <2>1. UNCHANGED <<project, journal, receipt, files, view>>
    BY <1>11, VarsFrame DEF viewVars
  <2> QED BY <2>1 DEF AdviceInv, Justified, ToReview, Pending, Holds, RecoveryBlocked
<1> QED BY <1>1, <1>4, <1>5, <1>6, <1>7, <1>8, <1>9, <1>10, <1>11, ViewSteps
        DEF Watch

(* The advice by what the blockers are. *)
LEMMA AdviceShown == ViewType /\ AdviceInv => AdviceFits
<1>1. ASSUME ViewType, AdviceInv, Reported, view.calm, view.seen = {}
      PROVE  /\ NextAction \in DOMAIN Required => Required[NextAction] = project.stage
             /\ NextAction = "recover" <=> Pending
             /\ NextAction = "operator-review" => ToReview
  <2>1. /\ project = view.state /\ project.stage \in Stages
        /\ Pending => RecoveryBlocked
        /\ \A b \in view.blockers : Justified(b)
    BY <1>1 DEF AdviceInv, ViewType, Reported, Looking, ValidState, States
  <2>2. RecoveryBlocked => Pending
    BY <2>1 DEF RecoveryBlocked, Justified
  <2>3. CASE view.blockers = {}
    <3>1. NextAction = NextActions[project.stage] /\ ~RecoveryBlocked
      BY <2>1, <2>3 DEF NextAction, RecoveryBlocked
    <3> QED BY <2>1, <2>2, <3>1 DEF NextActions, Stages, Required
  <2>4. CASE RecoveryBlocked
    <3>1. NextAction = "recover"
      <4>1. view.blockers # {}
        BY <2>4 DEF RecoveryBlocked
      <4>2. view.blockers # {<<"ENGINE_VERIFICATION_REQUIRED">>}
        <5>1. <<"RECOVERY_REQUIRED">> # <<"ENGINE_VERIFICATION_REQUIRED">>
          OBVIOUS
        <5> QED BY <2>4, <5>1 DEF RecoveryBlocked
      <4> QED BY <2>4, <4>1, <4>2 DEF NextAction, RecoveryBlocked
    <3> QED BY <2>2, <2>4, <3>1 DEF Required
  <2>5. CASE view.blockers = {<<"ENGINE_VERIFICATION_REQUIRED">>} /\ ~RecoveryBlocked
    <3>1. NextAction = "verify"
      BY <2>5 DEF NextAction, RecoveryBlocked
    <3> QED BY <2>1, <2>5, <3>1 DEF Required
  <2>6. CASE /\ view.blockers # {} /\ ~RecoveryBlocked
             /\ view.blockers # {<<"ENGINE_VERIFICATION_REQUIRED">>}
    <3>1. NextAction = "operator-review"
      BY <2>6 DEF NextAction, RecoveryBlocked
    <3>2. PICK b \in view.blockers : b # <<"ENGINE_VERIFICATION_REQUIRED">>
      BY <2>6
    <3>3. ToReview
      BY <2>1, <2>6, <3>2 DEF Justified, RecoveryBlocked
    <3> QED BY <2>1, <2>6, <3>1, <3>3 DEF Required
  <2> QED BY <2>3, <2>4, <2>5, <2>6
<1> QED BY <1>1 DEF AdviceFits, ToReview

(* While nothing moves, the command status names is the one the lifecycle   *)
(* has next, recover exactly when something is pending, and the operator is *)
(* called for a reason.                                                    *)
THEOREM AdviceIsFit == ViewSpec => []AdviceFits
<1>1. ViewInit => AdviceInv
  BY DEF ViewInit, NoView, AdviceInv
<1>2. ViewSpec => []AdviceInv
  BY <1>1, AdviceStep, ViewWorkspace, ViewTyped, PTL DEF ViewSpec
<1> QED BY <1>2, AdviceShown, ViewTyped, PTL

-----------------------------------------------------------------------------
(* The operator who follows the advice *)

(* A command that works or stops is running. *)
LEMMA WorkIsBusy == Work \/ Stop => op.pc # "idle"
<1> SUFFICES ASSUME Work \/ Stop PROVE op.pc # "idle"
  OBVIOUS
<1> USE DEF At
<1>1. CASE \/ NothingPending \/ RecoverJournal \/ StoreStep \/ StoreReturns
           \/ NoReceipt \/ FinishedReceipt \/ RecoverBuild \/ Dispatch \/ Stop
  BY <1>1 DEF NothingPending, RecoverJournal, StoreStep, StoreReturns, NoReceipt,
              FinishedReceipt, RecoverBuild, Dispatch, Stop
<1>2. CASE \/ Link \/ DropStaged \/ CommitMaster \/ DropReceipt
           \/ WriteExact(Evidenced) \/ Replace(Evidenced) \/ RegisterEvidence
           \/ Preflight \/ CreateManifest \/ \E id \in Ids : Register(id)
           \/ \E plan \in Plans : ApprovePlan(plan)
  BY <1>2 DEF Link, DropStaged, CommitMaster, DropReceipt, WriteExact, Replace,
              RegisterEvidence, Preflight, CreateManifest, Register, ApprovePlan
<1>3. CASE \/ BuildChecks \/ RenderStart \/ RenderEnd \/ Hash \/ Probe
           \/ AfterRender \/ WriteReceipt
           \/ QaChecks \/ TechnicalChecks \/ MeasureLoudness \/ AfterQa
  BY <1>3 DEF BuildChecks, RenderStart, RenderEnd, Hash, Probe, AfterRender,
              WriteReceipt, QaChecks, TechnicalChecks, MeasureLoudness, AfterQa
<1> QED BY <1>1, <1>2, <1>3 DEF Work

(* While the operator looks, nobody else moves.                            *)
Attentive == view.pc # "idle" => op.pc = "idle" /\ view.calm /\ view.seen = {}

GuidedInv ==
  /\ Inv /\ ViewType /\ PendingInv /\ ReadyInv /\ AdviceInv
  /\ Attentive

LEMMA AskFields ==
  ASSUME Inv, ViewType, Ask
  PROVE  /\ view' \in ViewRecords /\ view'.pc = "journal"
         /\ view'.state = project /\ ValidState(project) /\ project # None
         /\ view'.todo = Registered(project) /\ view'.blockers = {}
         /\ view'.seen = {} /\ view'.pending = Pending /\ view'.calm = TRUE
<1>1. ValidState(project) /\ project \in States /\ project # None
  BY NotNone DEF Ask, ValidState, Inv
<1>2. Pending \in BOOLEAN /\ Reported \in BOOLEAN
  BY DEF Pending, Reported, Looking
<1>3. view' = [pc |-> "journal", verify |-> Reported, state |-> project,
               blockers |-> {}, todo |-> Registered(project), seen |-> {},
               calm |-> TRUE, pending |-> Pending]
  BY DEF Ask, NoView
<1>4. Registered(project) \in Seq(Labels)
  BY RegisteredLabels
<1>5. "journal" \in ViewPcs /\ project \in Opt(States)
  BY <1>1 DEF ViewPcs, Opt
<1> HIDE DEF Pending, Registered, Reported
<1> QED BY <1>1, <1>2, <1>3, <1>4, <1>5 DEF ViewRecords

LEMMA AskKeeps ==
  ASSUME GuidedInv, Ask
  PROVE  ViewType' /\ PendingInv' /\ ReadyInv' /\ AdviceInv' /\ Attentive'
<1> USE DEF Looking
<1>1. UNCHANGED <<project, journal, receipt, op>> /\ op.pc = "idle"
  BY VarsFrame DEF Ask, At
<1>2. /\ view' \in ViewRecords /\ view'.pc = "journal"
      /\ view'.state = project /\ ValidState(project) /\ project # None
      /\ view'.todo = Registered(project) /\ view'.blockers = {}
      /\ view'.seen = {} /\ view'.pending = Pending /\ view'.calm = TRUE
  BY AskFields DEF GuidedInv
<1>3. \A l \in Labels : Among(l, Registered(project))
                          <=> Identity(project, l) # None
  BY RegisteredLabels
<1>4. ViewType'
  BY <1>1, <1>2, <1>3 DEF ViewType
<1>5. PendingInv'
  BY <1>1, <1>2 DEF PendingInv, Pending
<1>6. ReadyInv'
  BY <1>1, <1>2, <1>3, ReadyIdentities DEF ReadyInv
<1>7. AdviceInv' /\ Attentive'
  BY <1>1, <1>2 DEF AdviceInv, Attentive
<1> QED BY <1>4, <1>5, <1>6, <1>7

LEMMA GuidedStep == GuidedInv /\ [GuidedNext]_viewVars => GuidedInv'
<1> SUFFICES ASSUME GuidedInv, [GuidedNext]_viewVars PROVE GuidedInv'
  OBVIOUS
<1> USE DEF Looking
<1>0. Inv'
  BY InvStep, GuidedIsNext DEF GuidedInv
<1>1. ASSUME [ViewNext]_viewVars, Attentive' PROVE GuidedInv'
  BY <1>0, <1>1, ViewTypeStep, PendingStep, ReadyStep, AdviceStep DEF GuidedInv
<1>2. CASE Ask
  BY <1>0, <1>2, AskKeeps DEF GuidedInv
<1>3. CASE Looks
  <2>1. [ViewNext]_viewVars /\ UNCHANGED op
    BY <1>3, ViewStutters, ViewSteps DEF Looks
  <2>2. /\ view.pc # "idle" /\ view'.calm = view.calm /\ view'.seen = view.seen
    BY <1>3, LookFields, ArtifactFields, HashFields, EngineFields
       DEF Looks, Adds, GuidedInv
  <2> QED BY <1>1, <2>1, <2>2 DEF Attentive, GuidedInv
<1>4. ASSUME view' = NoView PROVE GuidedInv'
  BY <1>0, <1>4, IdleView
     DEF GuidedInv, PendingInv, ReadyInv, AdviceInv, Attentive
<1>5. CASE (Work \/ Refuse \/ SupplySource \/ Stop) /\ UNCHANGED view
  <2>1. view.pc = "idle"
    <3>1. SupplySource => project = None
      BY DEF SupplySource
    <3>2. Refuse => Stop
      BY DEF Refuse
    <3> QED BY <1>5, <3>1, <3>2, WorkIsBusy DEF GuidedInv, Attentive, ViewType
  <2>2. [ViewNext]_viewVars
    BY <1>5, <2>1 DEF ViewNext, Watch, Next, Program, Outside, Refuse
  <2> QED BY <1>1, <1>5, <2>1, <2>2 DEF Attentive
<1>6. CASE UNCHANGED viewVars
  <2>1. UNCHANGED <<view, op>>
    BY <1>6, VarsFrame DEF viewVars
  <2> QED BY <1>1, <1>6, <2>1 DEF GuidedInv, Attentive
<1>7. ASSUME NEW cmd \in Commands, Follow(cmd) PROVE GuidedInv'
  BY <1>4, <1>7 DEF Follow
<1> QED BY <1>2, <1>3, <1>5, <1>6, <1>7 DEF GuidedNext, Alone

LEMMA GuidedHolds == GuidedSpec => []GuidedInv
<1>1. ViewInit => GuidedInv
  BY InitInv DEF ViewInit, NoView, GuidedInv, ViewType, ViewRecords, ViewPcs, Opt,
                 Looking, PendingInv, ReadyInv, AdviceInv, Attentive
<1> QED BY <1>1, GuidedStep, PTL DEF GuidedSpec

(* What reports promise beside any command they promise the operator who    *)
(* acts on them, too.                                                      *)
THEOREM GuidedReportsFit ==
  GuidedSpec => [](PendingReported /\ ReadyHolds /\ AdviceFits)
<1>1. GuidedInv => PendingReported /\ ReadyHolds /\ AdviceFits
  BY PendingShown, ReadyShown, AdviceShown DEF GuidedInv
<1> QED BY <1>1, GuidedHolds, PTL

(* A command that the operator starts on a report is one that the project   *)
(* admits: recover exactly when something is pending, and any other at the *)
(* stage it requires.                                                      *)
THEOREM AdviceLeadsOn ==
  GuidedSpec =>
    [][\A cmd \in Commands :
         Follow(cmd) /\ Reported =>
           /\ cmd = "recover" <=> Pending
           /\ cmd \in DOMAIN Required => project.stage = Required[cmd]]_viewVars
<1> DEFINE Led == \A cmd \in Commands :
                   Follow(cmd) /\ Reported =>
                     /\ cmd = "recover" <=> Pending
                     /\ cmd \in DOMAIN Required => project.stage = Required[cmd]
<1>1. ASSUME GuidedInv, NEW cmd \in Commands, Follow(cmd), Reported
      PROVE  /\ cmd = "recover" <=> Pending
             /\ cmd \in DOMAIN Required => project.stage = Required[cmd]
  <2>1. view.pc # "idle" /\ NextAction = cmd
    BY <1>1 DEF Follow, Advised, Reported, Looking
  <2>2. At("idle") /\ view.calm /\ view.seen = {} /\ AdviceFits
    BY <1>1, <2>1, AdviceShown DEF GuidedInv, Attentive, At
  <2> QED BY <1>1, <2>1, <2>2 DEF AdviceFits
<1>2. GuidedInv => Led
  BY <1>1
<1> HIDE DEF Led
<1>3. GuidedSpec => [][Led]_viewVars
  BY <1>2, GuidedHolds, PTL
<1> QED BY <1>3 DEF Led

=============================================================================
