----------------------------- MODULE Workspace ------------------------------
(***************************************************************************)
(* One project workspace (pipeline.py): the commands init, approve-plan,   *)
(* build, qa, manifest and recover over the files they read and write.     *)
(* The project lease (FileLease) admits one command at a time, so one      *)
(* control state `op' is enough; project.json is written through Journal.  *)
(*                                                                         *)
(* A step is one write, or a run of checks against documents already in    *)
(* memory.  Any failed check, failing tool, timeout or kill is Stop: no    *)
(* handler of the code touches the workspace, so all of them leave the     *)
(* files as they are.                                                      *)
(*                                                                         *)
(* Rendered bytes are named by what made them; a file cut short by a       *)
(* stopped encoder is Partial.                                             *)
(***************************************************************************)
EXTENDS ProjectState

CONSTANTS Sources, Plans, Strays,  \* contents of source videos, plans, others
          Partial,                 \* a render that was cut short
          Legacy,                  \* v0.1 documents a workspace may start with
          MaxEdits,                \* bound on outside edits
          EditContents,            \* what an outside edit may leave in each file
          BusyThings,              \* what is edited while a command runs
          Blind,                   \* <<thing, pc>>: no edit of it there
          Restoring                \* may one command see two edits of a thing?

Renders == [source : Sources \cup Strays, plan : Plans, engine : Engines]

Media == Sources \cup Strays \cup Renders \cup {Partial}

Artifacts == [sha256 : Media, probe : Media, source_sha256 : Media,
              plan_sha256 : Plans \cup Strays, engine : Opt(Engines)]

Evaluations == [master_sha256 : Media, probe : Media, loudness : Opt(Media),
                engine_sha256 : Opt(Engines)]

Manifests == [source : Media, approved_plan : Plans \cup Strays,
              artifact : Artifacts, qa : Evaluations]

VARIABLES project, journal, tx,  \* the journalled state
          files,                 \* the media, plan and manifest files
          receipt,               \* build-receipt.json
          engine,                \* the installed ffmpeg and ffprobe
          op,                    \* the running command and its locals
          edits, touched         \* edits so far, and what this command saw edited

J == INSTANCE Journal
       WITH Mutations <- {}, ForeignStates <- {}, ForeignRecords <- {},
            EditPcs <- {}

stateVars == <<project, journal, tx>>
diskVars == <<files, receipt, engine>>
editVars == <<edits, touched>>
vars == <<stateVars, diskVars, op, editVars>>

Names == {"source", "approved_plan", "master", "staged", "release_manifest"}

Receipts == [source_sha256 : Digests, plan_sha256 : Digests, master : Masters]

(* Whatever is neither a plan nor a rendered file is one of the Strays. *)
ASSUME WorkspaceAssumption ==
  /\ Media \cup Plans \subseteq Digests
  /\ MaxEdits \in Nat
  /\ Restoring \in BOOLEAN
  /\ EditContents["source"] \subseteq Opt(Sources \cup Strays)
  /\ EditContents["approved_plan"] \subseteq Opt(Plans \cup Strays)
  /\ EditContents["master"] \cup EditContents["staged"] \subseteq Opt(Media)
  /\ EditContents["release_manifest"] \subseteq Opt(Digests)
  /\ None \notin J!Records /\ Garbage \notin J!Records
  /\ None \notin Receipts /\ Garbage \notin Receipts

(* v0.1 wrote the same stages, and its evidence with the stage it is for. *)
ASSUME LegacyAssumption ==
  \A s \in Legacy :
    /\ ValidState(s) /\ s.schema_version = 1
    /\ s.source \in Sources \cup Strays
    /\ s.approved_plan \in Opt(Plans \cup Strays)
    /\ s.master # None => s.stage \in Built /\ s.master.sha256 \in Media

Commands == {"init", "approve", "build", "qa", "manifest", "recover"}

(* The stage a command's own work starts from. *)
Required ==
  [approve |-> "REGISTERED", build |-> "PLAN_APPROVED",
   qa |-> "MASTER_READY", manifest |-> "QA_PASSED"]

NoOp == [cmd |-> "none", pc |-> "idle", state |-> None, engine |-> None,
         hash |-> None, probe |-> None, loudness |-> None,
         value |-> None, receipt |-> None]

(* A v0.1 workspace has what its project registered. *)
RegisteredFiles(s) ==
  [n \in Names |->
     CASE n = "master" /\ s.master # None -> s.master.sha256
       [] n \in {"source", "approved_plan", "release_manifest"} -> s[n]
       [] OTHER -> None]

Init ==
  /\ project \in {None} \cup Legacy
  /\ journal = None /\ tx = J!Idle
  /\ files = IF project = None THEN [n \in Names |-> None]
                               ELSE RegisteredFiles(project)
  /\ receipt = None
  /\ engine \in Engines
  /\ op = NoOp
  /\ edits = 0 /\ touched = {}

-----------------------------------------------------------------------------
(* Checks *)

At(pc) == op.pc = pc

Goto(pc) == op' = [op EXCEPT !.pc = pc]

(* require_identity: the file holds the registered bytes. *)
Holds(name, digest) == digest # None /\ files[name] = digest

InputsHold(s) ==
  Holds("source", s.source) /\ Holds("approved_plan", s.approved_plan)

EngineIs(expected) == expected # None /\ engine = expected

CurrentEngine(s) == s.schema_version = 2 /\ EngineIs(s.master.engine)

-----------------------------------------------------------------------------
(* The preamble of every command but init: _recover_locked *)

Begin(cmd) ==
  /\ At("idle")
  /\ op' = [NoOp EXCEPT !.cmd = cmd,
                        !.pc = IF cmd = "init" THEN "preflight" ELSE "recover"]
  /\ touched' = {}
  /\ UNCHANGED <<stateVars, diskVars, edits>>

NothingPending ==
  /\ At("recover") /\ journal = None
  /\ Goto("receipt")
  /\ UNCHANGED <<stateVars, diskVars, editVars>>

RecoverJournal ==
  /\ At("recover")
  /\ J!Recover
  /\ Goto("rolling")
  /\ UNCHANGED <<diskVars, editVars>>

(* The steps of the store, on behalf of whatever command began them. *)
StoreStep ==
  /\ At("rolling") \/ At("committing")
  /\ J!Step
  /\ UNCHANGED <<diskVars, op, editVars>>

StoreReturns ==
  /\ At("rolling") \/ At("committing")
  /\ tx.pc = "done"
  /\ J!Return
  /\ Goto(CASE At("rolling") -> "receipt"
           [] At("committing") /\ op.receipt # None -> "dropReceipt"
           [] OTHER -> "main")
  /\ UNCHANGED <<diskVars, editVars>>

NoReceipt ==
  /\ At("receipt") /\ ValidState(project) /\ receipt = None
  /\ Goto("main")
  /\ UNCHANGED <<stateVars, diskVars, editVars>>

(* The receipt outlived the registration of its master. *)
ClosesBuild(s) ==
  /\ receipt \in Receipts
  /\ receipt.source_sha256 = s.source
  /\ receipt.plan_sha256 = s.approved_plan
  /\ receipt.master = s.master
  /\ CurrentEngine(s)
  /\ Holds("master", s.master.sha256)
  /\ files["staged"] = None

FinishedReceipt ==
  /\ At("receipt") /\ ValidState(project)
  /\ project.stage \in Built
  /\ ClosesBuild(project)
  /\ Goto("dropReceipt")
  /\ UNCHANGED <<stateVars, diskVars, editVars>>

-----------------------------------------------------------------------------
(* _recover_build_locked, from the preamble or from build itself *)

ReceiptBinds(s) ==
  /\ receipt \in Receipts
  /\ receipt.source_sha256 = s.source
  /\ receipt.plan_sha256 = s.approved_plan
  /\ receipt.master.source_sha256 = s.source
  /\ receipt.master.plan_sha256 = s.approved_plan

PromotionOfOneCopy(m) ==
  CASE Holds("master", m.sha256) /\ files["staged"] = None -> "commit"
    [] files["master"] = None /\ Holds("staged", m.sha256) -> "link"
    [] OTHER -> "refused"

(* Which half of the promotion is left to do; neither copy is a failure. *)
Promotion(m) ==
  CASE Holds("master", m.sha256) /\ files["staged"] = None -> "commit"
    [] Holds("master", m.sha256) /\ Holds("staged", m.sha256) -> "dropStaged"
    [] files["master"] = None /\ Holds("staged", m.sha256) -> "link"
    [] OTHER -> "refused"

RecoverBuild ==
  /\ At("receipt") \/ At("build")
  /\ ValidState(project) /\ project.stage = "PLAN_APPROVED"
  /\ project.schema_version = 2
  /\ ReceiptBinds(project)
  /\ InputsHold(project)
  /\ EngineIs(receipt.master.engine)
  /\ Promotion(receipt.master) # "refused"
  /\ op' = [op EXCEPT !.pc = Promotion(receipt.master), !.receipt = receipt]
  /\ UNCHANGED <<stateVars, diskVars, editVars>>

LinkReplacing ==
  /\ At("link") /\ files["staged"] # None
  /\ files' = [files EXCEPT !["master"] = files["staged"]]
  /\ Goto("dropStaged")
  /\ UNCHANGED <<stateVars, receipt, engine, editVars>>

(* os.link fails when the final name exists. *)
Link ==
  /\ At("link")
  /\ files["master"] = None /\ files["staged"] # None
  /\ files' = [files EXCEPT !["master"] = files["staged"]]
  /\ Goto("dropStaged")
  /\ UNCHANGED <<stateVars, receipt, engine, editVars>>

CleanBeforeCommit ==
  /\ At("dropStaged") /\ files["staged"] # None
  /\ files' = [files EXCEPT !["staged"] = None]
  /\ Goto("dropReceipt")
  /\ UNCHANGED <<stateVars, receipt, engine, editVars>>

DropStaged ==
  /\ At("dropStaged") /\ files["staged"] # None
  /\ files' = [files EXCEPT !["staged"] = None]
  /\ Goto("commit")
  /\ UNCHANGED <<stateVars, receipt, engine, editVars>>

(* _commit_master_locked *)
CommitMaster ==
  /\ At("commit")
  /\ Holds("master", op.receipt.master.sha256)
  /\ CanAdvance(project, "MASTER_READY")
  /\ J!TransactBegin([Advance(project, "MASTER_READY")
                        EXCEPT !.master = op.receipt.master])
  /\ Goto("committing")
  /\ UNCHANGED <<diskVars, editVars>>

(* Back to the command, which has nothing left to do unless this was its   *)
(* preamble.                                                               *)
DropReceipt ==
  /\ At("dropReceipt")
  /\ receipt' = None
  /\ op' = [op EXCEPT !.pc = "main", !.receipt = None]
  /\ UNCHANGED <<stateVars, files, engine, editVars>>

-----------------------------------------------------------------------------
(* Each command's own work *)

Dispatch ==
  /\ At("main") /\ ValidState(project)
  /\ op' = IF /\ op.cmd \in DOMAIN Required
              /\ project.stage = Required[op.cmd]
              /\ project.schema_version = 2
           THEN [op EXCEPT !.pc = op.cmd, !.state = project]
           ELSE NoOp
  /\ UNCHANGED <<stateVars, diskVars, editVars>>

(* _write_exact_json: the look, the write, the look again. *)
WriteExact(name) ==
  /\ At("write")
  /\ files[name] \in {None, op.value}
  /\ Goto(IF files[name] = None THEN "replace" ELSE "register")
  /\ UNCHANGED <<stateVars, diskVars, editVars>>

Replace(name) ==
  /\ At("replace")
  /\ files' = [files EXCEPT ![name] = op.value]
  /\ Goto("register")
  /\ UNCHANGED <<stateVars, receipt, engine, editVars>>

Evidenced == IF op.cmd = "approve" THEN "approved_plan" ELSE "release_manifest"

RegisterUnverified ==
  /\ At("register")
  /\ LET target == IF op.cmd = "approve" THEN "PLAN_APPROVED" ELSE "READY"
     IN /\ CanAdvance(project, target)
        /\ J!TransactBegin([Advance(project, target)
                              EXCEPT ![Evidenced] = files[Evidenced]])
  /\ Goto("committing")
  /\ UNCHANGED <<diskVars, editVars>>

RegisterEvidence ==
  /\ At("register")
  /\ Holds(Evidenced, op.value)
  /\ LET target == IF op.cmd = "approve" THEN "PLAN_APPROVED" ELSE "READY"
     IN /\ CanAdvance(project, target)
        /\ J!TransactBegin([Advance(project, target)
                              EXCEPT ![Evidenced] = op.value])
  /\ Goto("committing")
  /\ UNCHANGED <<diskVars, editVars>>

(* initialize *)
Preflight ==
  /\ At("preflight")
  /\ project = None /\ journal = None /\ receipt = None
  /\ \A n \in Names \ {"source"} : files[n] = None
  /\ Goto("hash")
  /\ UNCHANGED <<stateVars, diskVars, editVars>>

Register(id) ==
  /\ At("rehash") /\ op.cmd = "init"
  /\ Holds("source", op.hash)
  /\ J!Initialize(NewState(id, op.hash))
  /\ op' = NoOp
  /\ UNCHANGED <<diskVars, editVars>>

ApprovePlan(plan) ==
  /\ At("approve")
  /\ Holds("source", op.state.source)
  /\ op' = [op EXCEPT !.pc = "write", !.value = plan]
  /\ UNCHANGED <<stateVars, diskVars, editVars>>

(* The manifest copies the registered evidence. *)
ManifestOf(s) ==
  [source |-> s.source, approved_plan |-> s.approved_plan,
   artifact |-> s.master, qa |-> s.qa]

CreateManifest ==
  /\ At("manifest")
  /\ CurrentEngine(op.state)
  /\ InputsHold(op.state)
  /\ Holds("master", op.state.master.sha256)
  /\ op' = [op EXCEPT !.pc = "write", !.value = ManifestOf(op.state)]
  /\ UNCHANGED <<stateVars, diskVars, editVars>>

-----------------------------------------------------------------------------
(* build *)

BuildChecks ==
  /\ At("build")
  /\ InputsHold(op.state)
  /\ receipt = None
  /\ files["master"] = None /\ files["staged"] = None
  /\ op' = [op EXCEPT !.pc = "render", !.engine = engine]
  /\ UNCHANGED <<stateVars, diskVars, editVars>>

(* ffmpeg without -y refuses an existing target. *)
RenderStart ==
  /\ At("render")
  /\ files["staged"] = None /\ files["source"] # None
  /\ files' = [files EXCEPT !["staged"] = Partial]
  /\ op' = [op EXCEPT !.pc = "rendering",
                      !.value = [source |-> files["source"],
                                 plan |-> op.state.approved_plan,
                                 engine |-> engine]]
  /\ UNCHANGED <<stateVars, receipt, engine, editVars>>

RenderEnd ==
  /\ At("rendering")
  /\ files' = [files EXCEPT !["staged"] = op.value]
  /\ Goto("hash")
  /\ UNCHANGED <<stateVars, receipt, engine, editVars>>

(* The file whose identity and probe are being taken together. *)
Probed == IF op.cmd = "init" THEN "source" ELSE "staged"

Hash ==
  /\ At("hash") /\ files[Probed] # None
  /\ op' = [op EXCEPT !.pc = "probe", !.hash = files[Probed]]
  /\ UNCHANGED <<stateVars, diskVars, editVars>>

Probe ==
  /\ At("probe") /\ files[Probed] # None
  /\ op' = [op EXCEPT !.pc = "rehash", !.probe = files[Probed]]
  /\ UNCHANGED <<stateVars, diskVars, editVars>>

BuildIdentity ==
  [sha256 |-> op.hash, probe |-> op.probe,
   source_sha256 |-> op.state.source, plan_sha256 |-> op.state.approved_plan,
   engine |-> op.engine]

ReceiptAfterLink ==
  /\ At("rehash") /\ op.cmd = "build"
  /\ Holds("staged", op.hash)
  /\ InputsHold(op.state)
  /\ EngineIs(op.engine)
  /\ op' = [op EXCEPT !.pc = "link",
                      !.receipt = [source_sha256 |-> op.state.source,
                                   plan_sha256 |-> op.state.approved_plan,
                                   master |-> BuildIdentity]]
  /\ UNCHANGED <<stateVars, diskVars, editVars>>

InputsTrusted ==
  /\ At("rehash") /\ op.cmd = "build"
  /\ Holds("staged", op.hash)
  /\ EngineIs(op.engine)
  /\ op' = [op EXCEPT !.pc = "writeReceipt",
                      !.receipt = [source_sha256 |-> op.state.source,
                                   plan_sha256 |-> op.state.approved_plan,
                                   master |-> BuildIdentity]]
  /\ UNCHANGED <<stateVars, diskVars, editVars>>

AfterRender ==
  /\ At("rehash") /\ op.cmd = "build"
  /\ Holds("staged", op.hash)
  /\ InputsHold(op.state)
  /\ EngineIs(op.engine)
  /\ op' = [op EXCEPT !.pc = "writeReceipt",
                      !.receipt = [source_sha256 |-> op.state.source,
                                   plan_sha256 |-> op.state.approved_plan,
                                   master |-> BuildIdentity]]
  /\ UNCHANGED <<stateVars, diskVars, editVars>>

WriteMasterOnly ==
  /\ At("writeReceipt")
  /\ receipt' = op.receipt.master
  /\ Goto("link")
  /\ UNCHANGED <<stateVars, files, engine, editVars>>

WriteReceipt ==
  /\ At("writeReceipt")
  /\ receipt' = op.receipt
  /\ Goto("link")
  /\ UNCHANGED <<stateVars, files, engine, editVars>>

-----------------------------------------------------------------------------
(* run_qa *)

QaChecks ==
  /\ At("qa")
  /\ CurrentEngine(op.state)
  /\ InputsHold(op.state)
  /\ Holds("master", op.state.master.sha256)
  /\ op' = [op EXCEPT !.pc = "technical", !.engine = engine]
  /\ UNCHANGED <<stateVars, diskVars, editVars>>

TechnicalChecks ==
  /\ At("technical") /\ files["master"] # None
  /\ op' = [op EXCEPT !.pc = "loudness", !.probe = files["master"]]
  /\ UNCHANGED <<stateVars, diskVars, editVars>>

MeasureLoudness ==
  /\ At("loudness") /\ files["master"] # None
  /\ op' = [op EXCEPT !.pc = "recheck", !.loudness = files["master"]]
  /\ UNCHANGED <<stateVars, diskVars, editVars>>

MasterTrusted ==
  /\ At("recheck")
  /\ InputsHold(op.state)
  /\ EngineIs(op.engine)
  /\ CanAdvance(project, "QA_PASSED")
  /\ J!TransactBegin([Advance(project, "QA_PASSED")
                        EXCEPT !.qa = [master_sha256 |-> op.state.master.sha256,
                                       probe |-> op.probe,
                                       loudness |-> op.loudness,
                                       engine_sha256 |-> op.engine]])
  /\ Goto("committing")
  /\ UNCHANGED <<diskVars, editVars>>

AfterQa ==
  /\ At("recheck")
  /\ Holds("master", op.state.master.sha256)
  /\ InputsHold(op.state)
  /\ EngineIs(op.engine)
  /\ CanAdvance(project, "QA_PASSED")
  /\ J!TransactBegin([Advance(project, "QA_PASSED")
                        EXCEPT !.qa = [master_sha256 |-> op.state.master.sha256,
                                       probe |-> op.probe,
                                       loudness |-> op.loudness,
                                       engine_sha256 |-> op.engine]])
  /\ Goto("committing")
  /\ UNCHANGED <<diskVars, editVars>>

-----------------------------------------------------------------------------

StopCleaning ==
  /\ ~At("idle")
  /\ op' = NoOp /\ tx' = J!Idle /\ journal' = None
  /\ UNCHANGED <<project, diskVars, editVars>>

Stop ==
  /\ ~At("idle")
  /\ op' = NoOp /\ tx' = J!Idle
  /\ UNCHANGED <<project, journal, diskVars, editVars>>

Work ==
  \/ NothingPending \/ RecoverJournal \/ StoreStep \/ StoreReturns
  \/ NoReceipt \/ FinishedReceipt \/ RecoverBuild
  \/ Link \/ DropStaged \/ CommitMaster \/ DropReceipt \/ Dispatch
  \/ WriteExact(Evidenced) \/ Replace(Evidenced) \/ RegisterEvidence
  \/ Preflight \/ (\E id \in Ids : Register(id))
  \/ (\E plan \in Plans : ApprovePlan(plan)) \/ CreateManifest
  \/ BuildChecks \/ RenderStart \/ RenderEnd \/ Hash \/ Probe
  \/ AfterRender \/ WriteReceipt
  \/ QaChecks \/ TechnicalChecks \/ MeasureLoudness \/ AfterQa

Program == Work \/ \E cmd \in Commands : Begin(cmd)

(* Outside edits: a file, the receipt or the engine, at most MaxEdits.     *)
(* While a command runs only BusyThings are edited, each once unless       *)
(* Restoring, and none at a point where it is in Blind.                    *)
Edit(thing) ==
  /\ edits < MaxEdits
  /\ edits' = edits + 1
  /\ \/ At("idle") /\ UNCHANGED touched
     \/ /\ ~At("idle")
        /\ thing \in BusyThings
        /\ Restoring \/ thing \notin touched
        /\ <<thing, op.pc>> \notin Blind
        /\ touched' = touched \cup {thing}
  /\ UNCHANGED <<stateVars, op>>

EditFile ==
  \E n \in Names : \E c \in EditContents[n] \ {files[n]} :
    /\ Edit(n)
    /\ files' = [files EXCEPT ![n] = c]
    /\ UNCHANGED <<receipt, engine>>

EditReceipt ==
  /\ Edit("receipt")
  /\ receipt' \in {None, Garbage}
  /\ UNCHANGED <<files, engine>>

EngineDrift ==
  /\ Edit("engine")
  /\ engine' \in Engines
  /\ UNCHANGED <<files, receipt>>

(* The operator supplies the video init is asked to register. *)
SupplySource ==
  /\ At("idle") /\ project = None /\ files["source"] = None
  /\ \E s \in Sources : files' = [files EXCEPT !["source"] = s]
  /\ UNCHANGED <<stateVars, receipt, engine, op, editVars>>

Outside == EditFile \/ EditReceipt \/ EngineDrift \/ SupplySource

Next == Program \/ Stop \/ Outside

Spec == Init /\ [][Next]_vars

(* A failed check: the command has no step left to take. *)
Refuse == Stop /\ ~ENABLED Work

-----------------------------------------------------------------------------
(* Properties *)

TypeOK ==
  /\ J!TypeOK
  /\ DOMAIN files = Names
  /\ \A n \in Names : files[n] \in Opt(Digests)
  /\ receipt \in Receipts \cup {None, Garbage}
  /\ engine \in Engines
  /\ op.cmd \in Commands \cup {"none"}
  /\ op.state \in States \cup {None}
  /\ op.receipt \in Receipts \cup {None}
  /\ tx.pc # "idle" => At("rolling") \/ At("committing")
  /\ edits \in 0..MaxEdits

(* The pipeline over the store is the lifecycle, however often commands    *)
(* are stopped (for a workspace that starts empty).                        *)
ImplementsLifecycle == J!ImplementsLifecycle

(* With no outside edit, every promoted master is accounted for at every   *)
(* crash point: by the registered state, or by a receipt recover can close. *)
MasterAccounted ==
  edits = 0 /\ files["master"] # None =>
    \/ ValidState(project) /\ project.stage \in Built
         /\ project.master.sha256 = files["master"]
    \/ receipt \in Receipts /\ receipt.master.sha256 = files["master"]

(* The registered master is the render of the registered source by the     *)
(* registered plan and engine, and its probe is of those bytes, although   *)
(* build reads the four at different times.                                *)
Provenance ==
  ValidState(project) /\ project.schema_version = 2 /\ project.stage \in Built
    => LET m == project.master
       IN /\ m.sha256 = [source |-> project.source,
                         plan |-> project.approved_plan, engine |-> m.engine]
          /\ m.probe = m.sha256

(* QA evidence is a measurement of the registered master, not of bytes     *)
(* that stood in its place.                                                *)
QaOfMaster ==
  ValidState(project) /\ project.schema_version = 2
  /\ project.stage \in {"QA_PASSED", "READY"}
    => /\ project.qa.probe = project.master.sha256
       /\ project.qa.loudness = project.master.sha256

(* A released manifest names exactly the evidence the project registered.  *)
ManifestBound ==
  ValidState(project) /\ project.schema_version = 2 /\ project.stage = "READY"
    => project.release_manifest = ManifestOf(project)

(* No command changes or removes an existing source, plan, master or       *)
(* manifest.                                                               *)
NoClobber ==
  [][Program => \A n \in Names \ {"staged"} :
                  files[n] # None => files'[n] = files[n]]_vars

(* A receipt is removed only once its master is registered.                *)
ReceiptOutlivesBuild ==
  [][Program /\ receipt # None /\ receipt' = None
       => /\ receipt \in Receipts
          /\ project.stage \in Built
          /\ project.master = receipt.master]_vars

=============================================================================
