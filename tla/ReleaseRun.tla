----------------------------- MODULE ReleaseRun -----------------------------
(***************************************************************************)
(* Runs of .github/workflows/release.yml around scripts/prepare_release.py *)
(* and scripts/release_checks.py: the jobs build, attest and publish, and  *)
(* the repository, CI runs, artifacts, attestations and release they read  *)
(* and write while people push, move and delete the tag.                   *)
(*                                                                         *)
(* A step is one script call, or one look at GitHub.  A refused check, a   *)
(* failing tool and a lost runner are all Fail.  The workflow's            *)
(* concurrency group runs one run at a time and keeps the newest waiting   *)
(* one.                                                                    *)
(***************************************************************************)
EXTENDS ReleaseBundle, SequencesExt

CONSTANTS Workflows,   \* WORKFLOWS: CI and CodeQL
          Scenes       \* what people point the tag at, and bounds on pushes
                       \* and deletions of the tag, on CI results, on times
                       \* the ruleset is switched off, and on strange wheels,
                       \* dirty trees and bad downloads

ASSUME ScenesAssumption ==
  Scenes \subseteq [refs : SUBSET Refs, pushes : Nat, ci : Nat, lapses : Nat,
                    faults : Nat]

VARIABLES tag,         \* refs/tags/<tag> on the remote
          main,        \* commits reachable from main
          ruleset,     \* is "Immutable release tags" active?
          ci,          \* CI runs on record, a run's id is its index
          run,         \* the active workflow run
          waiting,     \* the commit of the run waiting for it
          artifacts,   \* uploaded bundles, an artifact's id is its index
          attested,    \* signed provenance: <<file, content, commit>>
          release,     \* the GitHub release of the tag
          replaced,    \* was attest ever given a bundle nobody built?
          lapsed,      \* has the ruleset been off since the run looked at it?
          scene        \* how much of each bound is left

remoteVars == <<tag, main, ruleset>>
storeVars == <<artifacts, attested, release, replaced>>
vars == <<remoteVars, ci, run, waiting, storeVars, lapsed, scene>>

(* sha: the event's commit; repo: the job's checkout; dir: its release     *)
(* directory; id: the outputs of `check'; artifact: the uploaded id.       *)
NoRun == [pc |-> "none", attempt |-> 0, sha |-> None,
          repo |-> [tag |-> None, head |-> None, main |-> {}, clean |-> TRUE],
          dir |-> Empty, id |-> None, artifact |-> 0]

StartOf(sha) == [NoRun EXCEPT !.pc = "build", !.attempt = 1, !.sha = sha]

Spend(what) ==
  /\ scene[what] > 0
  /\ scene' = [scene EXCEPT ![what] = @ - 1]

(* Every commit's runs on main, all green. *)
AllGreen ==
  SetToSeq([path : Workflows, commit : Commits, main : {TRUE},
            status : {"success"}])

At(pc) == run.pc = pc

Goto(pc) == run' = [run EXCEPT !.pc = pc]

Init ==
  /\ scene \in Scenes
  /\ tag = None /\ main \in SUBSET Commits /\ ruleset = TRUE
  /\ ci \in {AllGreen} \cup (IF scene.ci = 0 THEN {} ELSE {<<>>})
  /\ run = NoRun /\ waiting = None
  /\ artifacts = <<>> /\ attested = {} /\ release = None
  /\ replaced = FALSE /\ lapsed = FALSE

-----------------------------------------------------------------------------
(* build *)

(* Checks out the event's ref at its commit, the tags as they are now. *)
Checkout ==
  /\ At("build")
  /\ run' = [run EXCEPT !.pc = "check", !.dir = Empty,
                        !.repo = [tag |-> tag, head |-> run.sha,
                                  main |-> main, clean |-> TRUE]]
  /\ UNCHANGED <<remoteVars, ci, waiting, storeVars, lapsed, scene>>

Check ==
  /\ At("check")
  /\ CheckRelease(run.repo, run.sha, run.attempt)
  /\ run' = [run EXCEPT !.pc = "tests",
                        !.id = [commit |-> run.repo.head,
                                tag_object |-> run.repo.tag]]
  /\ UNCHANGED <<remoteVars, ci, waiting, storeVars, lapsed, scene>>

(* Nothing but the check that follows them keeps the tests from leaving    *)
(* files behind.                                                           *)
Tests ==
  /\ At("tests")
  /\ \/ Goto("revalidate") /\ UNCHANGED scene
     \/ /\ Spend("faults")
        /\ run' = [run EXCEPT !.pc = "revalidate", !.repo.clean = FALSE]
  /\ UNCHANGED <<remoteVars, ci, waiting, storeVars, lapsed>>

Revalidate ==
  /\ At("revalidate")
  /\ CheckRelease(run.repo, run.sha, run.attempt)
  /\ Goto("package")
  /\ UNCHANGED <<remoteVars, ci, waiting, storeVars, lapsed, scene>>

(* `archive' takes the tag's commit; `pip wheel .' takes the tree. *)
Package ==
  /\ At("package")
  /\ run.repo.tag \in TagObjects
  /\ LET c == Commit(run.repo.tag)
         Packed(wheel) == [Empty EXCEPT !.source = Archive(c), !.wheel = wheel]
         exact == [CleanWheel(run.repo.head) EXCEPT !.clean = run.repo.clean]
     IN \/ run' = [run EXCEPT !.pc = "reproduce", !.dir = Packed(exact)]
           /\ UNCHANGED scene
        \/ /\ Spend("faults")
           /\ \E odd \in {[exact EXCEPT !.clean = FALSE],
                          [exact EXCEPT !.clean = FALSE, !.labelled = FALSE]} :
                run' = [run EXCEPT !.pc = "reproduce", !.dir = Packed(odd)]
  /\ UNCHANGED <<remoteVars, ci, waiting, storeVars, lapsed>>

WheelTrusted ==
  /\ At("reproduce")
  /\ AssetPaths(run.dir, Commit(run.repo.tag))
  /\ Goto("finalize")
  /\ UNCHANGED <<remoteVars, ci, waiting, storeVars, lapsed, scene>>

ReproduceWheel ==
  /\ At("reproduce")
  /\ AssetPaths(run.dir, Commit(run.repo.tag))
  /\ run.dir.wheel = CleanWheel(Commit(run.repo.tag))
  /\ Goto("finalize")
  /\ UNCHANGED <<remoteVars, ci, waiting, storeVars, lapsed, scene>>

FinalizeRelease ==
  /\ At("finalize")
  /\ Finalizable(run.repo, run.dir, run.id)
  /\ VerifyRelease(run.repo, Finalized(run.dir, run.id), run.id)
  /\ run' = [run EXCEPT !.pc = "upload", !.dir = Finalized(run.dir, run.id)]
  /\ UNCHANGED <<remoteVars, ci, waiting, storeVars, lapsed, scene>>

Upload ==
  /\ At("upload")
  /\ VerifyRelease(run.repo, run.dir, run.id)
  /\ artifacts' = Append(artifacts, run.dir)
  /\ run' = [run EXCEPT !.pc = "attest", !.artifact = Len(artifacts) + 1]
  /\ UNCHANGED <<remoteVars, ci, waiting, attested, release, replaced, lapsed, scene>>

-----------------------------------------------------------------------------
(* A job downloads its run's artifact into an empty directory; at worst it *)
(* gets another uploaded bundle, a file more, or another wheel.            *)
Misdelivered ==
  LET mine == artifacts[run.artifact]
  IN {artifacts[i] : i \in DOMAIN artifacts}
       \cup {[mine EXCEPT !.stray = TRUE], [mine EXCEPT !.wheel.clean = FALSE]}

(* Or a bundle nobody built: another wheel, with evidence and checksums    *)
(* that fit it.  No job after the build rebuilds the wheel.                *)
Refitted ==
  LET mine == artifacts[run.artifact]
  IN {Finalized([mine EXCEPT !.wheel.clean = FALSE], run.id)}

Download(from, to, wrong) ==
  /\ At(from)
  /\ \/ run' = [run EXCEPT !.pc = to, !.dir = artifacts[run.artifact]]
        /\ UNCHANGED scene
     \/ /\ Spend("faults")
        /\ \E d \in wrong : run' = [run EXCEPT !.pc = to, !.dir = d]
  /\ UNCHANGED <<remoteVars, ci, waiting, storeVars, lapsed>>

FetchRefitted ==
  /\ At("fetch")
  /\ Spend("faults")
  /\ \E d \in Refitted : run' = [run EXCEPT !.pc = "verify", !.dir = d]
  /\ replaced' = TRUE
  /\ UNCHANGED <<remoteVars, ci, waiting, artifacts, attested, release, lapsed>>

(* attest, with a checkout of its own: the ref as it is now *)
AttestCheckout ==
  /\ At("attest") /\ tag # None
  /\ run' = [run EXCEPT !.pc = "identity", !.dir = Empty,
                        !.repo = [tag |-> tag, head |-> Commit(tag),
                                  main |-> main, clean |-> TRUE]]
  /\ UNCHANGED <<remoteVars, ci, waiting, storeVars, lapsed, scene>>

RequireIdentity ==
  /\ At("identity")
  /\ CheckRelease(run.repo, run.id.commit, run.attempt)
  /\ run.id = [commit |-> run.repo.head, tag_object |-> run.repo.tag]
  /\ Goto("fetch")
  /\ UNCHANGED <<remoteVars, ci, waiting, storeVars, lapsed, scene>>

Attest ==
  /\ At("verify")
  /\ VerifyRelease(run.repo, run.dir, run.id)
  /\ attested' = attested \cup {<<f, run.dir[f], run.id.commit>> : f \in Files}
  /\ Goto("publish")
  /\ UNCHANGED <<remoteVars, ci, waiting, artifacts, release, replaced, lapsed, scene>>

-----------------------------------------------------------------------------
(* publish, without a checkout *)

BundleBinds(dir, id) ==
  /\ \A f \in Files : dir[f] # None
  /\ ~dir.stray
  /\ dir.sums = ChecksumsOf(dir)
  /\ dir.evidence.commit = id.commit
  /\ dir.evidence.tag_object = id.tag_object

VerifyBundle ==
  /\ At("bundle")
  /\ run.attempt = 1
  /\ BundleBinds(run.dir, run.id)
  /\ Goto("provenance")
  /\ UNCHANGED <<remoteVars, ci, waiting, storeVars, lapsed, scene>>

ProvenanceOfSource ==
  /\ At("provenance")
  /\ <<"source", run.dir.source, run.id.commit>> \in attested
  /\ Goto("ci")
  /\ UNCHANGED <<remoteVars, ci, waiting, storeVars, lapsed, scene>>

VerifyProvenance ==
  /\ At("provenance")
  /\ \A f \in Files : <<f, run.dir[f], run.id.commit>> \in attested
  /\ Goto("ci")
  /\ UNCHANGED <<remoteVars, ci, waiting, storeVars, lapsed, scene>>

(* select_checks: the newest push run on main of this very commit. *)
Matches(w, c) == {i \in DOMAIN ci : ci[i].path = w /\ ci[i].commit = c /\ ci[i].main}

Latest(w, c) == CHOOSE i \in Matches(w, c) : \A j \in Matches(w, c) : j <= i

Green(w, c) == Matches(w, c) # {} /\ ci[Latest(w, c)].status = "success"

SelectChecks ==
  /\ At("ci")
  /\ \A w \in Workflows : Green(w, run.id.commit)
  /\ run.dir.evidence.commit = run.id.commit
  /\ Goto("policy")
  /\ UNCHANGED <<remoteVars, ci, waiting, storeVars, lapsed, scene>>

CheckRuleset ==
  /\ At("policy")
  /\ ruleset
  /\ Goto("tag") /\ lapsed' = FALSE
  /\ UNCHANGED <<remoteVars, ci, waiting, storeVars, scene>>

CheckLiveTagExists ==
  /\ At("tag")
  /\ tag # None
  /\ Goto("target")
  /\ UNCHANGED <<remoteVars, ci, waiting, storeVars, lapsed, scene>>

CheckLiveTag ==
  /\ At("tag")
  /\ tag = run.id.tag_object
  /\ Goto("target")
  /\ UNCHANGED <<remoteVars, ci, waiting, storeVars, lapsed, scene>>

CheckTagTarget ==
  /\ At("target")
  /\ Named[run.id.tag_object]
  /\ Target[run.id.tag_object] = run.id.commit
  /\ Goto("view")
  /\ UNCHANGED <<remoteVars, ci, waiting, storeVars, lapsed, scene>>

ViewRelease ==
  /\ At("view")
  /\ release = None
  /\ Goto("create")
  /\ UNCHANGED <<remoteVars, ci, waiting, storeVars, lapsed, scene>>

(* --verify-tag: the tag exists.  GitHub itself refuses a second release   *)
(* of a tag.                                                               *)
CreateRelease ==
  /\ At("create")
  /\ tag # None
  /\ release = None
  /\ release' = [dir |-> run.dir, id |-> run.id, attempt |-> run.attempt]
  /\ Goto("finished")
  /\ UNCHANGED <<remoteVars, ci, waiting, artifacts, attested, replaced, lapsed, scene>>

-----------------------------------------------------------------------------
(* GitHub and people *)

Publishing ==
  \/ SelectChecks \/ CheckRuleset \/ CheckLiveTag \/ CheckTagTarget
  \/ ViewRelease \/ CreateRelease

Steps ==
  \/ Checkout \/ Check \/ Tests \/ Revalidate \/ Package \/ ReproduceWheel
  \/ FinalizeRelease \/ Upload
  \/ AttestCheckout \/ RequireIdentity
  \/ Download("fetch", "verify", Misdelivered) \/ FetchRefitted \/ Attest
  \/ Download("publish", "bundle", Misdelivered \cup Refitted)
  \/ VerifyBundle \/ VerifyProvenance
  \/ Publishing

Over == {"none", "finished", "build_failed", "attest_failed", "publish_failed"}

Job ==
  CASE run.pc \in {"attest", "identity", "fetch", "verify"} -> "attest"
    [] run.pc \in {"publish", "bundle", "provenance", "ci", "policy", "tag",
                   "target", "view", "create"} -> "publish"
    [] OTHER -> "build"

Fail ==
  /\ run.pc \notin Over
  /\ Goto(CASE Job = "build" -> "build_failed"
            [] Job = "attest" -> "attest_failed"
            [] OTHER -> "publish_failed")
  /\ UNCHANGED <<remoteVars, ci, waiting, storeVars, lapsed, scene>>

(* Somebody re-runs all jobs, or the failed one and what follows it; the   *)
(* outputs of the jobs that succeeded stay.                                *)
Rerun ==
  /\ run.pc \in {"build_failed", "attest_failed", "publish_failed"}
  /\ waiting = None
  /\ run.attempt = 1
  /\ \E job \in {"build", CASE At("build_failed") -> "build"
                            [] At("attest_failed") -> "attest"
                            [] OTHER -> "publish"} :
       run' = [run EXCEPT !.pc = job, !.attempt = @ + 1]
  /\ UNCHANGED <<remoteVars, ci, waiting, storeVars, lapsed, scene>>

StartWaiting ==
  /\ run.pc \in Over /\ waiting # None
  /\ run' = StartOf(waiting)
  /\ waiting' = None
  /\ UNCHANGED <<remoteVars, ci, storeVars, lapsed, scene>>

(* An active ruleset rejects updates and deletions, not a first push. *)
PushTag ==
  /\ tag = None \/ ~ruleset
  /\ Spend("pushes")
  /\ \E ref \in scene.refs \ {tag} : tag' = ref /\ waiting' = Commit(ref)
  /\ UNCHANGED <<main, ruleset, ci, run, storeVars, lapsed>>

DeleteTag ==
  /\ tag # None /\ ~ruleset
  /\ Spend("pushes")
  /\ tag' = None
  /\ UNCHANGED <<main, ruleset, ci, run, waiting, storeVars, lapsed>>

Merge ==
  /\ \E c \in Commits \ main : main' = main \cup {c}
  /\ UNCHANGED <<tag, ruleset, ci, run, waiting, storeVars, lapsed, scene>>

LapseRuleset ==
  /\ ruleset
  /\ Spend("lapses")
  /\ ruleset' = FALSE /\ lapsed' = TRUE
  /\ UNCHANGED <<tag, main, ci, run, waiting, storeVars>>

RestoreRuleset ==
  /\ ~ruleset
  /\ ruleset' = TRUE
  /\ UNCHANGED <<tag, main, ci, run, waiting, storeVars, lapsed, scene>>

(* A CI run ends: of main or of another branch or event. *)
CiResult ==
  /\ Spend("ci")
  /\ \E w \in Workflows, c \in Commits, onMain \in BOOLEAN,
        status \in {"success", "failure", "running"} :
       ci' = Append(ci, [path |-> w, commit |-> c, main |-> onMain,
                         status |-> status])
  /\ UNCHANGED <<remoteVars, run, waiting, storeVars, lapsed>>

(* A re-run keeps its id. *)
CiRerun ==
  /\ Spend("ci")
  /\ \E i \in DOMAIN ci : \E status \in {"success", "failure", "running"} :
       /\ status # ci[i].status
       /\ ci' = [ci EXCEPT ![i].status = status]
  /\ UNCHANGED <<remoteVars, run, waiting, storeVars, lapsed>>

World ==
  \/ PushTag \/ DeleteTag \/ Merge \/ LapseRuleset \/ RestoreRuleset
  \/ CiResult \/ CiRerun

Next == Steps \/ Fail \/ Rerun \/ StartWaiting \/ World

Spec == Init /\ [][Next]_vars

-----------------------------------------------------------------------------
(* Properties *)

(* What a bundle is the bundle of: source, wheel, evidence and checksums   *)
(* are those of one commit and one tag object binding it.                  *)
Coherent(dir, id) ==
  /\ dir.source = Archive(id.commit)
  /\ ValidWheel(dir.wheel, id.commit)
  /\ dir.evidence = ExpectedEvidence(dir, id)
  /\ dir.sums = ChecksumsOf(dir)
  /\ Target[id.tag_object] = id.commit /\ Named[id.tag_object]

(* Whatever tags were moved and whatever a job was given to download, a    *)
(* release is the coherent bundle of a commit that is on main and declares *)
(* the version, and never from a re-run.  That its wheel is what a clean    *)
(* rebuild gives is so as long as attest was given no bundle nobody built: *)
(* only the artifact store keeps a wheel replaced together with evidence   *)
(* and checksums away, `verify' accepts it (PublishedWheelRebuilt fails).  *)
PublishedCoherent ==
  release # None =>
    /\ Coherent(release.dir, release.id)
    /\ ~replaced => release.dir.wheel = CleanWheel(release.id.commit)
    /\ release.id.commit \in main
    /\ Declares[release.id.commit]
    /\ release.attempt = 1

FileOfBundle(file, content, commit, tag_object, wheel) ==
  LET packed == [Empty EXCEPT !.source = Archive(commit), !.wheel = wheel]
  IN content = Finalized(packed, [commit |-> commit, tag_object |-> tag_object])[file]

(* Every attestation is of a file of some coherent bundle of its commit;    *)
(* that the wheel is the rebuilt one rests on the artifact store as well.  *)
AttestedCoherent ==
  \A a \in attested :
    \E t \in TagObjects, w \in Wheels :
      /\ Target[t] = a[3]
      /\ ValidWheel(w, a[3])
      /\ ~replaced => w = CleanWheel(a[3])
      /\ FileOfBundle(a[1], a[2], a[3], t, w)

(* The published files are the files this workflow attested for the        *)
(* release's commit.                                                       *)
PublishedAttested ==
  release # None =>
    \A f \in Files : <<f, release.dir[f], release.id.commit>> \in attested

(* When the release is created, the tag still is the attested tag object,  *)
(* unless the ruleset was switched off after the run had looked at it.     *)
TagHeldByRuleset ==
  [][release = None /\ release' # None /\ ~lapsed
       => tag = run.id.tag_object]_vars

(* release-process.md: "a lightweight or moved tag [...] stops the         *)
(* workflow".                                                              *)
MovedTagStops ==
  [][release = None /\ release' # None => tag = run.id.tag_object]_vars

(* release-process.md: "an older green run followed by failure cannot      *)
(* satisfy that gate".                                                     *)
GreenAtPublication ==
  [][release = None /\ release' # None
       => \A w \in Workflows : Green(w, run.id.commit)]_vars

(* release_checks.py's notes of every release: "Wheel rebuilt from the      *)
(* canonical source archive and compared byte for byte".                   *)
PublishedWheelRebuilt ==
  release # None => release.dir.wheel = CleanWheel(release.id.commit)

=============================================================================
