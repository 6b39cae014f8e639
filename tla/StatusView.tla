---------------------------- MODULE StatusView -----------------------------
(***************************************************************************)
(* `vvp status [--verify]' (pipeline.py, status): a reader that holds no   *)
(* project lease, so any command of Workspace may take steps between two   *)
(* of its looks at the files.  `view' holds its locals; the whole report   *)
(* is a function of them.                                                  *)
(*                                                                         *)
(* A blocker is a tuple, <<kind>> or <<kind, label>>.                      *)
(***************************************************************************)
EXTENDS Workspace, Sequences

CONSTANT Size(_)    \* the size of a content

VARIABLE view

viewVars == <<vars, view>>

(* seen, calm and pending are history: what was edited since the start,    *)
(* whether no command took a step, whether a recovery was pending          *)
(* throughout.                                                             *)
NoView ==
  [pc |-> "idle", verify |-> FALSE, state |-> None, blockers |-> {},
   todo |-> <<>>, seen |-> {}, calm |-> TRUE, pending |-> FALSE]

Labels == {"source", "approved_plan", "master", "release_manifest"}

Pending == journal # None \/ receipt # None

(* Labels of absent identities are skipped. *)
Identity(s, label) ==
  CASE label = "master" -> IF s.master = None THEN None ELSE s.master.sha256
    [] OTHER -> s[label]

IfPresent(s, label) == IF Identity(s, label) = None THEN <<>> ELSE <<label>>

Registered(s) ==
  IfPresent(s, "source") \o IfPresent(s, "approved_plan")
    \o IfPresent(s, "master") \o IfPresent(s, "release_manifest")

Looking(pc) == view.pc = pc

Block(blockers, pc) ==
  view' = [view EXCEPT !.blockers = @ \cup blockers, !.pc = pc]

-----------------------------------------------------------------------------
(* The reader, one look at the disk a step *)

StatusStart(verify) ==
  /\ Looking("idle")
  /\ ValidState(project)
  /\ view' = [NoView EXCEPT !.pc = "journal", !.verify = verify,
                            !.state = project, !.todo = Registered(project),
                            !.pending = Pending]
  /\ UNCHANGED vars

LookJournal ==
  /\ Looking("journal")
  /\ IF journal # None THEN Block({<<"RECOVERY_REQUIRED">>}, "artifact")
                       ELSE Block({}, "receipt")
  /\ UNCHANGED vars

JournalOnly ==
  /\ Looking("receipt")
  /\ Block({}, "master")
  /\ UNCHANGED vars

LookReceipt ==
  /\ Looking("receipt")
  /\ IF receipt # None THEN Block({<<"RECOVERY_REQUIRED">>}, "artifact")
                       ELSE Block({}, "master")
  /\ UNCHANGED vars

MasterByFile ==
  /\ Looking("master")
  /\ Block(IF files["master"] # None
           THEN {<<"UNREGISTERED_MASTER">>} ELSE {}, "staging")
  /\ UNCHANGED vars

LookMaster ==
  /\ Looking("master")
  /\ Block(IF view.state.master = None /\ files["master"] # None
           THEN {<<"UNREGISTERED_MASTER">>} ELSE {}, "staging")
  /\ UNCHANGED vars

LookStaging ==
  /\ Looking("staging")
  /\ Block(IF files["staged"] # None
           THEN {<<"UNREGISTERED_STAGING">>} ELSE {}, "artifact")
  /\ UNCHANGED vars

(* A file that passes goes on to its hash, with --verify only. *)
LookArtifact ==
  /\ Looking("artifact") /\ view.todo # <<>>
  /\ LET label == Head(view.todo)
         found == files[label]
         kind == CASE found = None -> "MISSING"
                   [] found # None /\ Size(found) # Size(Identity(view.state, label))
                      -> "SIZE_MISMATCH"
                   [] OTHER -> "none"
     IN IF kind = "none" /\ view.verify
        THEN Block({}, "hash")
        ELSE view' = [view EXCEPT
                        !.blockers = @ \cup (IF kind = "none" THEN {}
                                             ELSE {<<kind, label>>}),
                        !.todo = Tail(@)]
  /\ UNCHANGED vars

(* A file gone by now ends status with an error, as any vanished file does. *)
LookHash ==
  /\ Looking("hash")
  /\ LET label == Head(view.todo)
     IN /\ files[label] # None
        /\ view' = [view EXCEPT
                      !.blockers = @ \cup
                         (IF Holds(label, Identity(view.state, label)) THEN {}
                          ELSE {<<"HASH_MISMATCH", label>>}),
                      !.todo = Tail(@), !.pc = "artifact"]
  /\ UNCHANGED vars

(* Commands but init hold the heavy lease: a verified status that meets    *)
(* one ends with LeaseBusy.                                                *)
HeavyLeaseFree == op.cmd \in {"none", "init"}

EngineTrusted ==
  /\ Looking("artifact") /\ view.todo = <<>>
  /\ Block({}, "reported")
  /\ UNCHANGED vars

LookEngine ==
  /\ Looking("artifact") /\ view.todo = <<>>
  /\ LET s == view.state
     IN IF s.schema_version # 2
        THEN Block({<<"LEGACY_EVIDENCE_REBUILD_REQUIRED">>}, "reported")
        ELSE IF s.master # None /\ view.verify
        THEN /\ HeavyLeaseFree
             /\ \/ Block(IF EngineIs(s.master.engine) THEN {}
                         ELSE {<<"ENGINE_CONTRACT_DRIFT">>}, "reported")
                \/ Block({<<"ENGINE_CONTRACT_UNAVAILABLE">>}, "reported")
        ELSE Block(IF s.master # None /\ s.stage = "READY"
                   THEN {<<"ENGINE_VERIFICATION_REQUIRED">>} ELSE {}, "reported")
  /\ UNCHANGED vars

(* The report is read, or status died before it made one. *)
StatusEnd ==
  /\ ~Looking("idle")
  /\ view' = NoView
  /\ UNCHANGED vars

-----------------------------------------------------------------------------
(* The report *)

Reported == Looking("reported")

NextActions ==
  [REGISTERED |-> "approve", PLAN_APPROVED |-> "build",
   MASTER_READY |-> "qa", QA_PASSED |-> "manifest", READY |-> "none"]

NextActionOfStage ==
  IF view.blockers = {<<"ENGINE_VERIFICATION_REQUIRED">>} THEN "verify"
  ELSE NextActions[view.state.stage]

NextAction ==
  CASE view.blockers = {} -> NextActions[view.state.stage]
    [] <<"RECOVERY_REQUIRED">> \in view.blockers -> "recover"
    [] view.blockers = {<<"ENGINE_VERIFICATION_REQUIRED">>} -> "verify"
    [] OTHER -> "operator-review"

Ready == view.state.stage = "READY" /\ view.blockers = {}

-----------------------------------------------------------------------------

Read ==
  \/ \E verify \in BOOLEAN : StatusStart(verify)
  \/ LookJournal \/ LookReceipt \/ LookMaster \/ LookStaging
  \/ LookArtifact \/ LookHash \/ LookEngine

(* What an outside edit changes; the commands' own writes are not noted. *)
Changed ==
  {n \in Names : files'[n] # files[n]}
    \cup (IF engine' # engine THEN {"engine"} ELSE {})
    \cup (IF receipt' # receipt THEN {"receipt"} ELSE {})

Watch ==
  IF Looking("idle") THEN UNCHANGED view
  ELSE view' = [view EXCEPT !.seen = IF edits' # edits THEN @ \cup Changed ELSE @,
                            !.calm = @ /\ op' = op /\ tx' = tx,
                            !.pending = @ /\ (Pending)']

ViewInit == Init /\ view = NoView

ViewNext == Read \/ StatusEnd \/ (Next /\ Watch)

ViewSpec == ViewInit /\ [][ViewNext]_viewVars

(* An operator alone at the workspace: runs a command only on the advice   *)
(* of a finished report, and init when there is no project.                *)
Advised(cmd) ==
  \/ Looking("idle") /\ project = None /\ files["source"] # None /\ cmd = "init"
  \/ Reported /\ NextAction = cmd

Follow(cmd) ==
  /\ Advised(cmd) /\ Begin(cmd)
  /\ view' = NoView

(* Asks again, verified when told to. *)
Ask ==
  /\ At("idle")
  /\ Looking("idle") \/ (Reported /\ NextAction = "verify" /\ ~view.verify)
  /\ ValidState(project)
  /\ view' = [NoView EXCEPT !.pc = "journal", !.verify = Reported,
                            !.state = project, !.todo = Registered(project),
                            !.pending = Pending]
  /\ UNCHANGED vars

Looks ==
  \/ LookJournal \/ LookReceipt \/ LookMaster \/ LookStaging
  \/ LookArtifact \/ LookHash \/ LookEngine

Alone ==
  \/ Ask \/ Looks
  \/ \E cmd \in Commands : Follow(cmd)
  \/ (Work \/ Refuse \/ SupplySource) /\ UNCHANGED view

GuidedNext == Alone \/ (Stop /\ UNCHANGED view)

GuidedSpec == ViewInit /\ [][GuidedNext]_viewVars /\ WF_viewVars(Alone)

-----------------------------------------------------------------------------
(* Properties *)

(* ready is not asserted of a mixture: the project is READY, and whatever  *)
(* no longer holds the registered bytes was changed during this status.    *)
ReadyHolds ==
  Reported /\ Ready =>
    /\ project = view.state
    /\ view.verify
    /\ project.schema_version = 2
    /\ \A l \in Labels :
         Holds(l, Identity(project, l)) \/ l \in view.seen
    /\ EngineIs(project.master.engine) \/ "engine" \in view.seen

(* A recovery that stays pending while status runs is never overlooked,    *)
(* although journal and receipt are looked at apart and the receipt        *)
(* outlives the journal (nobody removed the receipt meanwhile).             *)
PendingReported ==
  Reported /\ view.pending /\ "receipt" \notin view.seen
    => NextAction = "recover"

(* When no command moves meanwhile, the advice fits: the command named is  *)
(* the one the lifecycle has next, and only foreign or half-rendered files *)
(* and drifted evidence send the operator to review.                       *)
AdviceFits ==
  Reported /\ view.calm /\ At("idle") /\ view.seen = {} =>
    /\ NextAction \in DOMAIN Required => Required[NextAction] = project.stage
    /\ NextAction = "recover" <=> Pending
    /\ NextAction = "operator-review" =>
         \/ files["staged"] # None
         \/ project.schema_version # 2
         \/ project.master = None /\ files["master"] # None
         \/ \E l \in Labels :
              Identity(project, l) # None /\ ~Holds(l, Identity(project, l))
         \/ project.master # None /\ view.verify  \* engine drift or no engine

(* Following status leads to READY, or to the review of a staged file left *)
(* by a killed render or of a missing engine; no crash point leads round   *)
(* in circles.  Commands are killed finitely often.                        *)
GuidanceConverges ==
  <>[][Stop => Refuse]_viewVars =>
    <>(Reported /\ (Ready \/ NextAction = "operator-review"))

(* A build receipt is always resolved in the end, by an operator who does  *)
(* what status says: no crash point of build or of recover itself leaves   *)
(* one that recover refuses or that status passes over.                    *)
ReceiptResolved ==
  <>[][Stop => Refuse]_viewVars => [](receipt # None => <>(receipt = None))

(* failure-model.md: status "reports unregistered staging or master        *)
(* entries as blockers": what it reports is unregistered.                  *)
ReportsUnregistered ==
  [][LookMaster /\ <<"UNREGISTERED_MASTER">> \in view'.blockers
       => project.master = None]_viewVars

=============================================================================
