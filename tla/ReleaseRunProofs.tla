-------------------------- MODULE ReleaseRunProofs --------------------------
(***************************************************************************)
(* What a release rests on, for any repository, any pushes, moves and      *)
(* deletions of the tag, and any number of faults, re-runs and CI results. *)
(***************************************************************************)
EXTENDS ReleaseRun, TLAPS

BuildPcs == {"build", "check", "tests", "revalidate", "package", "reproduce",
             "finalize", "upload"}

AttestPcs == {"attest", "identity", "fetch", "verify"}

(* The publish job up to, and past, the verification of the provenance.    *)
BundlePcs == {"publish", "bundle", "provenance"}

SealedPcs == {"ci", "policy", "tag", "target", "view", "create"}

Pcs == BuildPcs \cup AttestPcs \cup BundlePcs \cup SealedPcs \cup Over

RunType == [pc : Pcs, attempt : Nat, sha : Opt(Commits), repo : Checkouts,
            dir : Directories, id : Opt(Identities), artifact : Nat]

TypeOK ==
  /\ tag \in Opt(Refs) /\ main \subseteq Commits /\ ruleset \in BOOLEAN
  /\ waiting \in Opt(Commits)
  /\ run \in RunType
  /\ artifacts \in Seq(Directories)
  /\ lapsed \in BOOLEAN /\ replaced \in BOOLEAN
  /\ scene \in [refs : SUBSET Refs, pushes : Nat, ci : Nat, lapses : Nat,
                faults : Nat]

(* An identity the workflow has checked: on main, of the declared version. *)
Checked(id, merged) ==
  /\ id \in Identities
  /\ Target[id.tag_object] = id.commit
  /\ id.commit \in merged /\ Declares[id.commit]

(* The bundle is the one bundle of its evidence's identity.                *)
Whole(dir) ==
  /\ dir \in Directories
  /\ ~dir.stray
  /\ dir.evidence \in Evidences
  /\ dir.wheel = CleanWheel(dir.evidence.commit)
  /\ dir.evidence.source = dir.source /\ dir.evidence.wheel = dir.wheel
  /\ dir.source = Archive(dir.evidence.commit)
  /\ dir.sums = ChecksumsOf(dir)

Attested(dir, id) ==
  \A f \in Files : <<f, dir[f], id.commit>> \in attested

(* The build job: an identity is checked before it is kept, and past the   *)
(* rebuild the wheel is the clean one of the checked-out tag's commit.     *)
BuildInv ==
  /\ run.repo.main \subseteq main
  /\ run.id \in Identities => Checked(run.id, main)
  /\ run.pc \notin {"none", "build", "check", "build_failed"} =>
       run.id \in Identities
  /\ run.pc \in BuildPcs \ {"build", "check"} => run.repo.head \in Commits
  /\ run.pc \in {"finalize", "upload"} =>
       run.dir.wheel = CleanWheel(run.dir.wheel.commit)
  /\ \A i \in 1..Len(artifacts) : Whole(artifacts[i])
  /\ run.pc \in AttestPcs \cup BundlePcs \cup SealedPcs
                   \cup {"attest_failed", "publish_failed"}
       => run.artifact \in 1..Len(artifacts)

(* What attest was given to download: another whole bundle, one whose      *)
(* evidence names another wheel, or one nobody built.                      *)
DownloadInv ==
  run.pc = "verify" =>
    \/ replaced
    \/ Whole(run.dir)
    \/ run.dir.stray
    \/ run.dir.evidence \in Evidences /\ run.dir.evidence.wheel # run.dir.wheel

(* The publish job: what it goes on with was attested, in the first        *)
(* attempt, and the tag object binds the tag's name.                       *)
PublishInv ==
  /\ run.pc \in {"provenance"} \cup SealedPcs =>
       run.attempt = 1 /\ BundleBinds(run.dir, run.id)
  /\ run.pc \in SealedPcs => Attested(run.dir, run.id)
  /\ run.pc \in {"view", "create"} => Named[run.id.tag_object]

(* Past the look at the ruleset, only switching it off moves the tag.      *)
LooksInv ==
  run.pc \in {"tag", "target", "view", "create"} /\ ~lapsed =>
    /\ ruleset
    /\ run.pc # "tag" => tag = run.id.tag_object

Inv ==
  /\ TypeOK
  /\ BuildInv /\ DownloadInv /\ PublishInv /\ LooksInv
  /\ AttestedCoherent
  /\ PublishedCoherent /\ PublishedAttested

-----------------------------------------------------------------------------
(* Types *)

LEMMA RefCommit == ASSUME NEW ref \in Refs PROVE Commit(ref) \in Commits
BY RepositoryAssumption DEF Commit, Refs

LEMMA EmptyTyped == Empty \in Directories
BY DEF Empty, Directories, Opt

LEMMA SpendTyped ==
  ASSUME TypeOK, NEW what \in {"pushes", "ci", "lapses", "faults"}, Spend(what)
  PROVE  scene' \in [refs : SUBSET Refs, pushes : Nat, ci : Nat,
                     lapses : Nat, faults : Nat]
BY DEF TypeOK, Spend

(* The evidence of an identity and the checksums of the three other files  *)
(* make a directory of the right files out of one.                         *)
LEMMA FinalizedTyped ==
  ASSUME NEW dir \in Directories, NEW id \in Identities,
         dir.source \in Sources, dir.wheel \in Wheels
  PROVE  /\ Finalized(dir, id) \in Directories
         /\ Finalized(dir, id).source = dir.source
         /\ Finalized(dir, id).wheel = dir.wheel
         /\ Finalized(dir, id).evidence = ExpectedEvidence(dir, id)
         /\ ExpectedEvidence(dir, id) \in Evidences
         /\ Finalized(dir, id).sums = ChecksumsOf(Finalized(dir, id))
         /\ Finalized(dir, id).stray = dir.stray
<1> DEFINE d == [dir EXCEPT !.evidence = ExpectedEvidence(dir, id)]
<1>1. ExpectedEvidence(dir, id) \in Evidences
  BY DEF ExpectedEvidence, Evidences, Identities
<1>2. /\ d \in Directories
      /\ d.source = dir.source /\ d.wheel = dir.wheel /\ d.stray = dir.stray
      /\ d.evidence = ExpectedEvidence(dir, id)
  BY <1>1 DEF Directories, Opt
<1>3. ChecksumsOf(d) \in Checksums
  BY <1>1, <1>2 DEF ChecksumsOf, Checksums
<1>4. Finalized(dir, id) = [d EXCEPT !.sums = ChecksumsOf(d)]
  BY DEF Finalized
<1>5. /\ Finalized(dir, id) \in Directories
      /\ Finalized(dir, id).source = d.source
      /\ Finalized(dir, id).wheel = d.wheel
      /\ Finalized(dir, id).evidence = d.evidence
      /\ Finalized(dir, id).stray = d.stray
      /\ Finalized(dir, id).sums = ChecksumsOf(d)
  BY <1>2, <1>3, <1>4 DEF Directories, Opt
<1>6. ChecksumsOf(Finalized(dir, id)) = ChecksumsOf(d)
  BY <1>5 DEF ChecksumsOf
<1> QED BY <1>1, <1>2, <1>5, <1>6

(* What a whole bundle becomes under way.                                  *)
LEMMA MisdeliveredTyped ==
  ASSUME TypeOK, BuildInv, run.artifact \in 1..Len(artifacts),
         NEW dir \in Misdelivered
  PROVE  /\ dir \in Directories
         /\ \/ Whole(dir)
            \/ dir.stray
            \/ dir.evidence \in Evidences /\ dir.evidence.wheel # dir.wheel
<1> DEFINE mine == artifacts[run.artifact]
<1>1. Whole(mine)
  BY DEF BuildInv
<1>2. mine \in Directories /\ mine.wheel \in Wheels /\ mine.wheel.clean
  BY <1>1 DEF Whole, CleanWheel, Wheels, Evidences
<1>3. CASE dir \in {artifacts[i] : i \in DOMAIN artifacts}
  BY <1>3 DEF BuildInv, TypeOK, Whole
<1>4. CASE dir = [mine EXCEPT !.stray = TRUE]
  BY <1>2, <1>4 DEF Directories
<1>5. CASE dir = [mine EXCEPT !.wheel.clean = FALSE]
  <2>1. [mine.wheel EXCEPT !.clean = FALSE] \in Wheels
    BY <1>2 DEF Wheels
  <2>2. dir = [mine EXCEPT !.wheel = [mine.wheel EXCEPT !.clean = FALSE]]
    BY <1>5
  <2>3. dir \in Directories /\ dir.evidence = mine.evidence
        /\ dir.wheel = [mine.wheel EXCEPT !.clean = FALSE]
    BY <1>2, <2>1, <2>2 DEF Directories, Opt
  <2>4. dir.wheel.clean # mine.wheel.clean
    BY <1>2, <2>3 DEF Wheels
  <2> QED BY <1>1, <2>3, <2>4 DEF Whole
<1> QED BY <1>3, <1>4, <1>5 DEF Misdelivered

LEMMA RefittedTyped ==
  ASSUME TypeOK, BuildInv, run.artifact \in 1..Len(artifacts),
         run.id \in Identities, NEW dir \in Refitted
  PROVE  dir \in Directories
<1> DEFINE mine == artifacts[run.artifact]
           other == [mine EXCEPT !.wheel = [mine.wheel EXCEPT !.clean = FALSE]]
<1>1. Whole(mine)
  BY DEF BuildInv
<1>2. mine \in Directories /\ mine.wheel \in Wheels /\ mine.source \in Sources
  BY <1>1 DEF Whole, CleanWheel, Wheels, Evidences, Archive, Sources
<1>3. [mine.wheel EXCEPT !.clean = FALSE] \in Wheels
  BY <1>2 DEF Wheels
<1>4. other \in Directories /\ other.wheel \in Wheels /\ other.source \in Sources
  BY <1>2, <1>3 DEF Directories, Opt
<1>5. dir = Finalized(other, run.id)
  BY DEF Refitted
<1> QED BY <1>4, <1>5, FinalizedTyped

(* A step that only moves the run on. *)
LEMMA GotoTyped ==
  ASSUME TypeOK, NEW to \in Pcs, Goto(to)
  PROVE  /\ run' \in RunType
         /\ run'.pc = to
         /\ run'.attempt = run.attempt /\ run'.sha = run.sha
         /\ run'.repo = run.repo /\ run'.dir = run.dir /\ run'.id = run.id
         /\ run'.artifact = run.artifact
BY DEF TypeOK, RunType, Goto

LEMMA TypeStep == TypeOK /\ BuildInv /\ [Next]_vars => TypeOK'
<1> SUFFICES ASSUME TypeOK, BuildInv, [Next]_vars PROVE TypeOK'
  OBVIOUS
<1> USE DEF TypeOK
<1>1. CASE Checkout
  <2>1. [tag |-> tag, head |-> run.sha, main |-> main, clean |-> TRUE] \in Checkouts
    BY DEF Checkouts, RunType, Opt
  <2>2. run' \in RunType
    BY <1>1, <2>1, EmptyTyped DEF Checkout, RunType, Pcs, BuildPcs
  <2> QED BY <1>1, <2>2 DEF Checkout, remoteVars, storeVars
<1>2. CASE Check
  <2>1. [commit |-> run.repo.head, tag_object |-> run.repo.tag] \in Identities
    BY <1>2, RepositoryAssumption
       DEF Check, CheckRelease, DeclaresVersion, RunType, Checkouts, Identities, Opt
  <2>2. run' \in RunType
    BY <1>2, <2>1 DEF Check, RunType, Pcs, BuildPcs, Opt
  <2> QED BY <1>2, <2>2 DEF Check, remoteVars, storeVars
<1>3. CASE Tests
  <2>1. [run.repo EXCEPT !.clean = FALSE] \in Checkouts
    BY DEF RunType, Checkouts
  <2>2. run' \in RunType
    BY <1>3, <2>1 DEF Tests, Goto, RunType, Pcs, BuildPcs
  <2>3. scene' \in [refs : SUBSET Refs, pushes : Nat, ci : Nat, lapses : Nat,
                   faults : Nat]
    BY <1>3, SpendTyped DEF Tests
  <2> QED BY <1>3, <2>2, <2>3 DEF Tests, remoteVars, storeVars
<1>4. CASE Package
  <2> DEFINE c == Commit(run.repo.tag)
             exact == [CleanWheel(run.repo.head) EXCEPT !.clean = run.repo.clean]
             Packed(wheel) == [Empty EXCEPT !.source = Archive(c), !.wheel = wheel]
  <2>1. c \in Commits /\ run.repo.head \in Commits
    BY <1>4, RefCommit DEF Package, BuildInv, At, BuildPcs, Refs
  <2>2. exact \in Wheels
    BY <2>1 DEF CleanWheel, Wheels, RunType, Checkouts
  <2>3. \A wheel \in Wheels : Packed(wheel) \in Directories
    BY <2>1 DEF Empty, Directories, Archive, Sources, Opt
  <2>4. {[exact EXCEPT !.clean = FALSE],
         [exact EXCEPT !.clean = FALSE, !.labelled = FALSE]} \subseteq Wheels
    BY <2>2 DEF Wheels
  <2>5. PICK wheel \in Wheels :
          run' = [run EXCEPT !.pc = "reproduce", !.dir = Packed(wheel)]
    BY <1>4, <2>2, <2>4 DEF Package
  <2>6. run' \in RunType
    BY <2>3, <2>5 DEF RunType, Pcs, BuildPcs
  <2>7. scene' \in [refs : SUBSET Refs, pushes : Nat, ci : Nat, lapses : Nat,
                   faults : Nat]
    BY <1>4, SpendTyped DEF Package
  <2> QED BY <1>4, <2>6, <2>7 DEF Package, remoteVars, storeVars
<1>5. CASE FinalizeRelease
  <2>1. run.id \in Identities
    BY <1>5 DEF FinalizeRelease, At, BuildInv
  <2>2. run.dir \in Directories /\ run.dir.source \in Sources /\ run.dir.wheel \in Wheels
    BY <1>5, <2>1 DEF FinalizeRelease, Finalizable, AssetPaths, ValidSource, ValidWheel,
                      RunType, Directories, Opt, Archive, Sources, Identities
  <2>3. Finalized(run.dir, run.id) \in Directories
    BY <2>1, <2>2, FinalizedTyped
  <2>4. run' \in RunType
    BY <1>5, <2>3 DEF FinalizeRelease, RunType, Pcs, BuildPcs
  <2> QED BY <1>5, <2>4 DEF FinalizeRelease, remoteVars, storeVars
<1>6. CASE Upload
  <2>1. run.dir \in Directories /\ Len(artifacts) + 1 \in Nat
    BY DEF RunType
  <2>2. run' \in RunType
    BY <1>6, <2>1 DEF Upload, RunType, Pcs, AttestPcs
  <2>3. artifacts' \in Seq(Directories)
    BY <1>6, <2>1 DEF Upload
  <2> QED BY <1>6, <2>2, <2>3 DEF Upload, remoteVars
<1>7. CASE AttestCheckout
  <2>1. tag \in Refs
    BY <1>7 DEF AttestCheckout, Opt
  <2>2. [tag |-> tag, head |-> Commit(tag), main |-> main, clean |-> TRUE] \in Checkouts
    BY <2>1, RefCommit DEF Checkouts, Opt
  <2>3. run' \in RunType
    BY <1>7, <2>2, EmptyTyped DEF AttestCheckout, RunType, Pcs, AttestPcs
  <2> QED BY <1>7, <2>3 DEF AttestCheckout, remoteVars, storeVars
<1>8. CASE \/ Download("fetch", "verify", Misdelivered) \/ FetchRefitted
           \/ Download("publish", "bundle", Misdelivered \cup Refitted)
  <2>1. run.artifact \in 1..Len(artifacts) /\ run.id \in Identities
    BY <1>8 DEF Download, FetchRefitted, At, BuildInv, AttestPcs, BundlePcs
  <2>2. artifacts[run.artifact] \in Directories
    BY <2>1
  <2>3. PICK to \in {"verify", "bundle"}, dir \in Directories :
          run' = [run EXCEPT !.pc = to, !.dir = dir]
    BY <1>8, <2>1, <2>2, MisdeliveredTyped, RefittedTyped DEF Download, FetchRefitted
  <2>4. run' \in RunType
    BY <2>3 DEF RunType, Pcs, AttestPcs, BundlePcs
  <2>5. scene' \in [refs : SUBSET Refs, pushes : Nat, ci : Nat, lapses : Nat,
                   faults : Nat]
    BY <1>8, SpendTyped DEF Download, FetchRefitted
  <2> QED BY <1>8, <2>4, <2>5 DEF Download, FetchRefitted, remoteVars, storeVars
<1>9. CASE \/ Revalidate \/ ReproduceWheel \/ RequireIdentity \/ Attest
            \/ VerifyBundle \/ VerifyProvenance \/ SelectChecks \/ CheckRuleset \/ CheckLiveTag
            \/ CheckTagTarget \/ ViewRelease \/ CreateRelease
  <2>1. PICK to \in Pcs : Goto(to)
    BY <1>9 DEF Revalidate, ReproduceWheel, RequireIdentity, Attest, VerifyBundle,
         VerifyProvenance, SelectChecks, CheckRuleset, CheckLiveTag, CheckTagTarget, ViewRelease,
         CreateRelease, Pcs, BuildPcs, AttestPcs, BundlePcs, SealedPcs, Over
  <2>2. run' \in RunType
    BY <2>1, GotoTyped
  <2> QED
    BY <1>9, <2>2 DEF Revalidate, ReproduceWheel, RequireIdentity, Attest,
         VerifyBundle, VerifyProvenance, SelectChecks, CheckRuleset, CheckLiveTag, CheckTagTarget,
         ViewRelease, CreateRelease, remoteVars, storeVars
<1>10. CASE Fail
  <2>1. PICK to \in {"build_failed", "attest_failed", "publish_failed"} : Goto(to)
    BY <1>10 DEF Fail
  <2>2. run' \in RunType
    BY <2>1, GotoTyped DEF Pcs, Over
  <2> QED BY <1>10, <2>2 DEF Fail, remoteVars, storeVars
<1>11. CASE Rerun
  <2>1. PICK job \in {"build", "attest", "publish"} :
          run' = [run EXCEPT !.pc = job, !.attempt = @ + 1]
    BY <1>11 DEF Rerun
  <2>2. job \in Pcs /\ run.attempt + 1 \in Nat
    BY <2>1 DEF RunType, Pcs, BuildPcs, AttestPcs, BundlePcs
  <2>3. run' = [run EXCEPT !.pc = job, !.attempt = run.attempt + 1]
    BY <2>1
  <2>4. run' \in RunType
    BY <2>2, <2>3 DEF RunType
  <2> QED BY <1>11, <2>4 DEF Rerun, remoteVars, storeVars
<1>12. CASE StartWaiting
  <2>1. waiting \in Commits
    BY <1>12 DEF StartWaiting, Opt
  <2>2. NoRun \in RunType
    BY EmptyTyped DEF NoRun, RunType, Pcs, Over, Checkouts, Opt
  <2>3. run' \in RunType
    BY <1>12, <2>1, <2>2 DEF StartWaiting, StartOf, RunType, Pcs, BuildPcs, Opt
  <2> QED BY <1>12, <2>3 DEF StartWaiting, remoteVars, storeVars, Opt
<1>13. CASE World
  <2>1. run' = run /\ artifacts' = artifacts /\ replaced' = replaced
    BY <1>13 DEF World, PushTag, DeleteTag, Merge, LapseRuleset, RestoreRuleset,
                 CiResult, CiRerun, storeVars
  <2>2. scene' \in [refs : SUBSET Refs, pushes : Nat, ci : Nat, lapses : Nat,
                   faults : Nat]
    BY <1>13, SpendTyped DEF World, PushTag, DeleteTag, Merge, LapseRuleset,
                             RestoreRuleset, CiResult, CiRerun
  <2>3. /\ tag' \in Opt(Refs) /\ main' \subseteq Commits /\ ruleset' \in BOOLEAN
        /\ waiting' \in Opt(Commits) /\ lapsed' \in BOOLEAN
    BY <1>13, RefCommit DEF World, PushTag, DeleteTag, Merge, LapseRuleset,
                 RestoreRuleset, CiResult, CiRerun, remoteVars, Opt
  <2> QED BY <2>1, <2>2, <2>3
<1>14. CASE UNCHANGED vars
  BY <1>14 DEF vars, remoteVars, storeVars
<1> QED
  BY <1>1, <1>2, <1>3, <1>4, <1>5, <1>6, <1>7, <1>8, <1>9, <1>10, <1>11,
     <1>12, <1>13, <1>14 DEF Next, Steps, Publishing

-----------------------------------------------------------------------------
(* The build job *)

(* Commits only join main, and the stores only grow. *)
LEMMA MainGrows == [Next]_vars => main \subseteq main'
<1>1. Steps => main' = main
  BY DEF Steps, Checkout, Check, Tests, Revalidate, Package, ReproduceWheel,
     FinalizeRelease, Upload, AttestCheckout, RequireIdentity, Download, FetchRefitted, Attest,
     VerifyBundle, VerifyProvenance, Publishing, SelectChecks, CheckRuleset,
     CheckLiveTag, CheckTagTarget, ViewRelease, CreateRelease, remoteVars
<1>2. Fail \/ Rerun \/ StartWaiting => main' = main
  BY DEF Fail, Rerun, StartWaiting, remoteVars
<1>3. World => main \subseteq main'
  BY DEF World, PushTag, DeleteTag, Merge, LapseRuleset, RestoreRuleset,
     CiResult, CiRerun, remoteVars
<1> QED BY <1>1, <1>2, <1>3 DEF Next, vars, remoteVars

(* check keeps an identity only when the tag object binds the commit that  *)
(* is checked out, which is on main and declares the version.              *)
LEMMA CheckChecks ==
  ASSUME TypeOK, BuildInv, Check
  PROVE  /\ run'.id \in Identities /\ Checked(run'.id, main)
         /\ run'.repo = run.repo /\ run.repo.head \in Commits
         /\ run'.pc = "tests"
<1>1. /\ run.repo.tag \in TagObjects /\ run.repo.head = Target[run.repo.tag]
      /\ run.repo.head \in main /\ Declares[run.repo.head]
      /\ run.repo.head \in Commits
  BY RepositoryAssumption
     DEF Check, CheckRelease, DeclaresVersion, TypeOK, RunType, Checkouts, Opt,
         BuildInv
<1>2. /\ run'.id = [commit |-> run.repo.head, tag_object |-> run.repo.tag]
      /\ run'.repo = run.repo /\ run'.pc = "tests"
  BY DEF Check, TypeOK, RunType
<1> QED BY <1>1, <1>2 DEF Checked, Identities

(* Past the verification a bundle is coherent, and whole with the rebuilt   *)
(* wheel.                                                                  *)
LEMMA VerifiedCoherent ==
  ASSUME NEW repo, NEW dir, NEW id, VerifyRelease(repo, dir, id)
  PROVE  Coherent(dir, id)
BY DEF VerifyRelease, ReleaseIdentity, AssetPaths, ValidSource, Coherent

LEMMA VerifiedWhole ==
  ASSUME NEW repo, NEW dir \in Directories, NEW id \in Identities,
         VerifyRelease(repo, dir, id), dir.wheel = CleanWheel(dir.wheel.commit)
  PROVE  Whole(dir)
<1>1. /\ Target[id.tag_object] = id.commit /\ Named[id.tag_object]
      /\ dir.source = Archive(id.commit)
      /\ dir.wheel.commit = id.commit
      /\ ~dir.stray
      /\ dir.evidence = ExpectedEvidence(dir, id)
      /\ dir.sums = ChecksumsOf(dir)
  BY DEF VerifyRelease, ReleaseIdentity, AssetPaths, ValidSource, ValidWheel
<1>2. dir.source \in Sources /\ dir.wheel \in Wheels
  <2>1. id.commit \in Commits
    BY DEF Identities
  <2>2. dir.source \in Sources
    BY <1>1, <2>1 DEF Archive, Sources
  <2>3. dir.wheel = CleanWheel(id.commit)
    BY <1>1
  <2>4. CleanWheel(id.commit) \in Wheels
    BY <2>1 DEF CleanWheel, Wheels
  <2> QED BY <2>2, <2>3, <2>4
<1>3. ExpectedEvidence(dir, id) \in Evidences
  BY <1>2 DEF ExpectedEvidence, Evidences, Identities
<1> QED BY <1>1, <1>3 DEF Whole, ExpectedEvidence

LEMMA MainSeen ==
  TypeOK /\ BuildInv /\ [Next]_vars => run'.repo.main \subseteq main'
<1> SUFFICES ASSUME TypeOK, BuildInv, [Next]_vars
             PROVE  run'.repo.main \subseteq main'
  OBVIOUS
<1>1. CASE Checkout \/ AttestCheckout
  <2>1. run'.repo.main = main
    <3>1. PICK pc, head :
            run' = [run EXCEPT !.pc = pc, !.dir = Empty,
                               !.repo = [tag |-> tag, head |-> head,
                                         main |-> main, clean |-> TRUE]]
      BY <1>1 DEF Checkout, AttestCheckout
    <3>2. run'.repo = [tag |-> tag, head |-> head, main |-> main, clean |-> TRUE]
      BY <3>1 DEF TypeOK, RunType
    <3> QED BY <3>2
  <2> QED BY <2>1, MainGrows
<1>2. CASE Tests
  <2>1. [run.repo EXCEPT !.clean = FALSE].main = run.repo.main
    BY DEF TypeOK, RunType, Checkouts
  <2>2. \/ run' = [run EXCEPT !.pc = "revalidate"]
        \/ run' = [run EXCEPT !.pc = "revalidate",
                              !.repo = [run.repo EXCEPT !.clean = FALSE]]
    BY <1>2 DEF Tests, Goto
  <2> QED BY <2>1, <2>2, MainGrows DEF BuildInv, TypeOK, RunType
<1>3. CASE StartWaiting
  BY <1>3 DEF StartWaiting, StartOf, NoRun
<1>4. CASE ~(Checkout \/ AttestCheckout \/ Tests \/ StartWaiting)
  <2>1. run'.repo = run.repo
    BY <1>4 DEF Next, Steps, Check, Revalidate, Package, ReproduceWheel,
       FinalizeRelease, Upload, RequireIdentity, Download, FetchRefitted, Attest,
       VerifyBundle, VerifyProvenance, Publishing, SelectChecks, CheckRuleset,
       CheckLiveTag, CheckTagTarget, ViewRelease, CreateRelease, Fail, Rerun, Goto,
       World, PushTag, DeleteTag, Merge, LapseRuleset, RestoreRuleset,
       CiResult, CiRerun, vars, TypeOK, RunType
  <2> QED BY <2>1, MainGrows DEF BuildInv
<1> QED BY <1>1, <1>2, <1>3, <1>4

LEMMA BuildStep == TypeOK /\ BuildInv /\ [Next]_vars => BuildInv'
<1> SUFFICES ASSUME TypeOK, BuildInv, [Next]_vars PROVE BuildInv'
  OBVIOUS
<1> DEFINE Store == \A i \in 1..Len(artifacts) : Whole(artifacts[i])
<1>0. \A id : Checked(id, main) => Checked(id, main')
  BY MainGrows DEF Checked
<1>1. /\ run.id \in Identities => Checked(run.id, main')
      /\ run'.repo.main \subseteq main'
  BY <1>0, MainSeen DEF BuildInv
<1>2. artifacts' = artifacts => Store' /\ Len(artifacts') = Len(artifacts)
  BY DEF BuildInv, Whole
<1>3. CASE Checkout
  <2>1. run'.pc = "check" /\ run'.id = run.id /\ artifacts' = artifacts
    BY <1>3 DEF Checkout, TypeOK, RunType, storeVars
  <2> QED BY <1>1, <1>2, <2>1 DEF BuildInv, BuildPcs, AttestPcs, BundlePcs, SealedPcs, Whole
<1>4. CASE Check
  <2>1. artifacts' = artifacts
    BY <1>4 DEF Check, storeVars
  <2>2. Checked(run'.id, main')
    BY <1>0, <1>4, CheckChecks
  <2> QED
    BY <1>1, <1>2, <1>4, <2>1, <2>2, CheckChecks
       DEF BuildInv, BuildPcs, AttestPcs, BundlePcs, SealedPcs, Whole
<1>5. CASE Tests
  <2>1. /\ run'.pc = "revalidate" /\ run'.id = run.id /\ artifacts' = artifacts
        /\ run'.repo.head = run.repo.head /\ run.pc = "tests"
    <3>1. [run.repo EXCEPT !.clean = FALSE].head = run.repo.head
      BY DEF TypeOK, RunType, Checkouts
    <3>2. \/ run' = [run EXCEPT !.pc = "revalidate"]
          \/ run' = [run EXCEPT !.pc = "revalidate",
                                !.repo = [run.repo EXCEPT !.clean = FALSE]]
      BY <1>5 DEF Tests, Goto
    <3> QED BY <1>5, <3>1, <3>2 DEF Tests, At, TypeOK, RunType, storeVars
  <2> QED BY <1>1, <1>2, <2>1 DEF BuildInv, BuildPcs, AttestPcs, BundlePcs, SealedPcs, Whole
<1>6. CASE Package
  <2>1. PICK dir : run' = [run EXCEPT !.pc = "reproduce", !.dir = dir]
    BY <1>6 DEF Package
  <2>2. /\ run'.pc = "reproduce" /\ run'.id = run.id /\ artifacts' = artifacts
        /\ run'.repo = run.repo /\ run.pc = "package"
    BY <1>6, <2>1 DEF Package, At, TypeOK, RunType, storeVars
  <2> QED BY <1>1, <1>2, <2>2 DEF BuildInv, BuildPcs, AttestPcs, BundlePcs, SealedPcs, Whole
<1>7. CASE ReproduceWheel
  <2>1. /\ run'.pc = "finalize" /\ run'.id = run.id /\ artifacts' = artifacts
        /\ run'.repo = run.repo /\ run'.dir = run.dir /\ run.pc = "reproduce"
    BY <1>7 DEF ReproduceWheel, Goto, At, TypeOK, RunType, storeVars
  <2>2. run.dir.wheel = CleanWheel(run.dir.wheel.commit)
    BY <1>7 DEF ReproduceWheel, CleanWheel
  <2> QED
    BY <1>1, <1>2, <2>1, <2>2 DEF BuildInv, BuildPcs, AttestPcs, BundlePcs, SealedPcs, Whole
<1>8. CASE FinalizeRelease
  <2>1. /\ run'.pc = "upload" /\ run'.id = run.id /\ artifacts' = artifacts
        /\ run'.repo = run.repo /\ run'.dir = Finalized(run.dir, run.id)
        /\ run.pc = "finalize"
    BY <1>8 DEF FinalizeRelease, At, TypeOK, RunType, storeVars
  <2>2. Finalized(run.dir, run.id).wheel = run.dir.wheel
    BY DEF Finalized, TypeOK, RunType, Directories
  <2> QED
    BY <1>1, <1>2, <2>1, <2>2 DEF BuildInv, BuildPcs, AttestPcs, BundlePcs, SealedPcs, Whole
<1>9. CASE Upload
  <2>1. /\ run'.pc = "attest" /\ run'.id = run.id
        /\ run'.artifact = Len(artifacts) + 1 /\ run.pc = "upload"
        /\ artifacts' = Append(artifacts, run.dir)
    BY <1>9 DEF Upload, At, TypeOK, RunType
  <2>2. Whole(run.dir)
    BY <1>9, <2>1, VerifiedWhole DEF Upload, BuildInv, TypeOK, RunType
  <2>3. Store'
    <3>1. run.dir \in Directories /\ artifacts \in Seq(Directories)
      BY DEF TypeOK, RunType
    <3>2. \A i \in 1..Len(artifacts') :
            artifacts'[i] = IF i = Len(artifacts) + 1 THEN run.dir ELSE artifacts[i]
      BY <2>1, <3>1
    <3>3. \A i \in 1..Len(artifacts') : i = Len(artifacts) + 1 \/ i \in 1..Len(artifacts)
      BY <2>1, <3>1
    <3> QED BY <2>2, <3>2, <3>3 DEF BuildInv, Whole
  <2>4. run'.artifact \in 1..Len(artifacts')
    BY <2>1 DEF TypeOK, RunType
  <2> QED BY <1>1, <2>1, <2>3, <2>4 DEF BuildInv, BuildPcs, AttestPcs, BundlePcs, SealedPcs
<1>10. CASE AttestCheckout
  <2>1. /\ run'.pc = "identity" /\ run'.id = run.id /\ artifacts' = artifacts
        /\ run'.artifact = run.artifact /\ run.pc = "attest"
    BY <1>10 DEF AttestCheckout, At, TypeOK, RunType, storeVars
  <2> QED BY <1>1, <1>2, <2>1 DEF BuildInv, BuildPcs, AttestPcs, BundlePcs, SealedPcs, Whole
<1>11. CASE \/ Download("fetch", "verify", Misdelivered) \/ FetchRefitted
            \/ Download("publish", "bundle", Misdelivered \cup Refitted)
  <2>1. PICK to \in {"verify", "bundle"} :
          /\ \E dir : run' = [run EXCEPT !.pc = to, !.dir = dir]
          /\ run.pc \in {"fetch", "publish"}
    BY <1>11 DEF Download, FetchRefitted, At
  <2>2. /\ run'.pc \in {"verify", "bundle"} /\ run'.id = run.id
        /\ run'.artifact = run.artifact /\ artifacts' = artifacts
    BY <1>11, <2>1 DEF Download, FetchRefitted, TypeOK, RunType, storeVars
  <2> QED BY <1>1, <1>2, <2>1, <2>2 DEF BuildInv, BuildPcs, AttestPcs, BundlePcs, SealedPcs, Whole
<1>12. CASE SelectChecks
  <2>1. /\ run'.pc = "policy" /\ run'.id = run.id /\ artifacts' = artifacts
        /\ run'.artifact = run.artifact /\ run.pc = "ci"
    BY <1>12 DEF SelectChecks, Goto, At, TypeOK, RunType, storeVars
  <2> QED BY <1>1, <1>2, <2>1 DEF BuildInv, BuildPcs, AttestPcs, BundlePcs, SealedPcs, Whole
<1>13. CASE Revalidate
  BY <1>1, <1>2, <1>13, GotoTyped
     DEF Revalidate, At, storeVars, BuildInv, Pcs, BuildPcs, AttestPcs, BundlePcs, SealedPcs, Whole
<1>14. CASE RequireIdentity \/ Attest \/ VerifyBundle
  <2>1. PICK to \in {"fetch", "publish", "provenance"} : Goto(to)
    BY <1>14 DEF RequireIdentity, Attest, VerifyBundle
  <2>2. run.pc \in {"identity", "verify", "bundle"} /\ artifacts' = artifacts
    BY <1>14 DEF RequireIdentity, Attest, VerifyBundle, At, storeVars
  <2>3. to \in Pcs
    BY DEF Pcs, AttestPcs, BundlePcs
  <2> QED
    BY <1>1, <1>2, <2>1, <2>2, <2>3, GotoTyped
       DEF BuildInv, BuildPcs, AttestPcs, BundlePcs, SealedPcs, Whole
<1>15. CASE \/ VerifyProvenance \/ CheckRuleset \/ CheckLiveTag
            \/ CheckTagTarget \/ ViewRelease \/ CreateRelease
  <2>1. PICK to \in SealedPcs \cup {"finished"} : Goto(to)
    BY <1>15 DEF VerifyProvenance, CheckRuleset, CheckLiveTag, CheckTagTarget,
                 ViewRelease, CreateRelease, SealedPcs
  <2>2. run.pc \in SealedPcs \cup {"provenance"} /\ artifacts' = artifacts
    BY <1>15 DEF VerifyProvenance, CheckRuleset, CheckLiveTag, CheckTagTarget,
                 ViewRelease, CreateRelease, At, SealedPcs, storeVars
  <2>3. to \in Pcs
    BY DEF Pcs, SealedPcs, Over
  <2> QED
    BY <1>1, <1>2, <2>1, <2>2, <2>3, GotoTyped
       DEF BuildInv, BuildPcs, AttestPcs, BundlePcs, SealedPcs, Whole
<1>16. CASE Fail
  <2>1. PICK to \in Pcs : /\ Goto(to)
                          /\ to = "build_failed"
                             \/ /\ run.pc \in AttestPcs /\ to = "attest_failed"
                             \/ /\ run.pc \in BundlePcs \cup SealedPcs
                                /\ to = "publish_failed"
    BY <1>16 DEF Fail, Job, Pcs, Over, AttestPcs, BundlePcs, SealedPcs
  <2>2. artifacts' = artifacts
    BY <1>16 DEF Fail, storeVars
  <2> QED
    BY <1>1, <1>2, <2>1, <2>2, GotoTyped
       DEF BuildInv, BuildPcs, AttestPcs, BundlePcs, SealedPcs, Whole
<1>17. CASE Rerun
  <2>1. PICK job \in {"build", "attest", "publish"} :
          /\ run' = [run EXCEPT !.pc = job, !.attempt = @ + 1]
          /\ job # "build" => run.pc \in {"attest_failed", "publish_failed"}
    BY <1>17 DEF Rerun, At
  <2>2. /\ run'.pc = job /\ run'.id = run.id /\ run'.artifact = run.artifact
        /\ artifacts' = artifacts
    BY <1>17, <2>1 DEF Rerun, TypeOK, RunType, storeVars
  <2> QED BY <1>1, <1>2, <2>1, <2>2 DEF BuildInv, BuildPcs, AttestPcs, BundlePcs, SealedPcs, Whole
<1>18. CASE StartWaiting
  <2>1. /\ run'.pc = "build" /\ run'.id = None
        /\ artifacts' = artifacts
    BY <1>18 DEF StartWaiting, StartOf, NoRun, storeVars
  <2>2. None \notin Identities
    BY RepositoryAssumption DEF Identities
  <2> QED BY <1>1, <1>2, <2>1, <2>2 DEF BuildInv, BuildPcs, AttestPcs, BundlePcs, SealedPcs, Whole
<1>19. CASE World \/ UNCHANGED vars
  <2>1. run' = run /\ artifacts' = artifacts
    BY <1>19 DEF World, PushTag, DeleteTag, Merge, LapseRuleset, RestoreRuleset,
                 CiResult, CiRerun, storeVars, vars
  <2> QED BY <1>1, <1>2, <2>1 DEF BuildInv
<1> QED
  BY <1>3, <1>4, <1>5, <1>6, <1>7, <1>8, <1>9, <1>10, <1>11, <1>12, <1>13, <1>14,
     <1>15, <1>16, <1>17, <1>18, <1>19 DEF Next, Steps, Publishing

-----------------------------------------------------------------------------
(* The attest job *)

LEMMA DownloadStep == TypeOK /\ BuildInv /\ DownloadInv /\ [Next]_vars => DownloadInv'
<1> SUFFICES ASSUME TypeOK, BuildInv, DownloadInv, [Next]_vars, run'.pc = "verify"
             PROVE  DownloadInv'
  BY DEF DownloadInv
<1>1. CASE Download("fetch", "verify", Misdelivered)
  <2>1. run.artifact \in 1..Len(artifacts)
    BY <1>1 DEF Download, At, BuildInv, AttestPcs
  <2>2. PICK dir \in Misdelivered : run' = [run EXCEPT !.pc = "verify", !.dir = dir]
    <3>1. artifacts[run.artifact] \in Misdelivered
      BY <2>1 DEF Misdelivered, TypeOK
    <3> QED BY <1>1, <3>1 DEF Download
  <2>3. run'.dir = dir
    BY <2>2 DEF TypeOK, RunType
  <2> QED BY <2>1, <2>3, MisdeliveredTyped DEF DownloadInv, Whole
<1>2. CASE World \/ UNCHANGED vars
  <2>1. run' = run /\ replaced' = replaced
    BY <1>2 DEF World, PushTag, DeleteTag, Merge, LapseRuleset, RestoreRuleset,
                CiResult, CiRerun, vars, storeVars
  <2> QED BY <2>1 DEF DownloadInv, Whole
<1>3. CASE Steps /\ ~Download("fetch", "verify", Misdelivered) /\ ~FetchRefitted
  <2>1. run'.pc # "verify"
    BY <1>3 DEF Steps, Checkout, Check, Tests, Revalidate, Package, ReproduceWheel,
       FinalizeRelease, Upload, AttestCheckout, RequireIdentity, Download, Attest,
       VerifyBundle, VerifyProvenance, Publishing, SelectChecks, CheckRuleset,
       CheckLiveTag, CheckTagTarget, ViewRelease, CreateRelease, Goto,
       TypeOK, RunType
  <2> QED BY <2>1
<1>4. CASE Fail \/ Rerun \/ StartWaiting
  <2>1. run'.pc # "verify"
    BY <1>4 DEF Fail, Rerun, StartWaiting, StartOf, NoRun, Goto, TypeOK, RunType
  <2> QED BY <2>1
<1>5. CASE FetchRefitted
  BY <1>5 DEF FetchRefitted, DownloadInv
<1> QED BY <1>1, <1>2, <1>3, <1>4, <1>5 DEF Next

(* The four files of a commit's bundle with a wheel and an identity's       *)
(* evidence.                                                               *)
Bundle(id, wheel) ==
  Finalized([Empty EXCEPT !.source = Archive(id.commit), !.wheel = wheel], id)

LEMMA BundleFiles ==
  ASSUME NEW id \in Identities, NEW wheel \in Wheels
  PROVE  /\ Bundle(id, wheel).source = Archive(id.commit)
         /\ Bundle(id, wheel).wheel = wheel
         /\ Bundle(id, wheel).evidence =
              [commit |-> id.commit, tag_object |-> id.tag_object,
               source |-> Archive(id.commit), wheel |-> wheel]
         /\ Bundle(id, wheel).sums =
              [source |-> Archive(id.commit), wheel |-> wheel,
               evidence |-> Bundle(id, wheel).evidence]
<1> DEFINE packed == [Empty EXCEPT !.source = Archive(id.commit), !.wheel = wheel]
<1>1. Archive(id.commit) \in Sources
  BY DEF Archive, Sources, Identities
<1>2. /\ packed \in Directories
      /\ packed.source = Archive(id.commit) /\ packed.wheel = wheel
  BY <1>1, EmptyTyped DEF Directories, Opt
<1>3. Bundle(id, wheel) = Finalized(packed, id)
  BY DEF Bundle
<1>4. /\ Bundle(id, wheel).source = packed.source
      /\ Bundle(id, wheel).wheel = packed.wheel
      /\ Bundle(id, wheel).evidence = ExpectedEvidence(packed, id)
      /\ Bundle(id, wheel).sums = ChecksumsOf(Bundle(id, wheel))
  BY <1>1, <1>2, <1>3, FinalizedTyped
<1>5. ExpectedEvidence(packed, id)
        = [commit |-> id.commit, tag_object |-> id.tag_object,
           source |-> Archive(id.commit), wheel |-> wheel]
  BY <1>2 DEF ExpectedEvidence
<1>6. ChecksumsOf(Bundle(id, wheel)) = [source |-> Archive(id.commit),
                                        wheel |-> wheel,
                                        evidence |-> Bundle(id, wheel).evidence]
  BY <1>2, <1>4 DEF ChecksumsOf
<1> QED BY <1>2, <1>4, <1>5, <1>6

(* The files of a coherent bundle are those of its identity and wheel. *)
LEMMA CoherentFiles ==
  ASSUME NEW dir, NEW id \in Identities, dir.wheel \in Wheels, Coherent(dir, id),
         NEW f \in Files
  PROVE  dir[f] = Bundle(id, dir.wheel)[f]
<1> DEFINE b == Bundle(id, dir.wheel)
<1>0. /\ b.source = Archive(id.commit) /\ b.wheel = dir.wheel
      /\ b.evidence = [commit |-> id.commit, tag_object |-> id.tag_object,
                       source |-> Archive(id.commit), wheel |-> dir.wheel]
      /\ b.sums = [source |-> Archive(id.commit), wheel |-> dir.wheel,
                   evidence |-> b.evidence]
  BY BundleFiles
<1> HIDE DEF b
<1>1. dir.source = b.source /\ dir.wheel = b.wheel /\ dir.evidence = b.evidence
  BY <1>0 DEF Coherent, ExpectedEvidence
<1>2. dir.sums = b.sums
  BY <1>0, <1>1 DEF Coherent, ChecksumsOf
<1>3. dir[f] = b[f]
  BY <1>1, <1>2 DEF Files
<1> QED BY <1>3 DEF b

(* What AttestedCoherent says of one attestation. *)
OfSomeBundle(a) ==
  \E t \in TagObjects, w \in Wheels :
    /\ Target[t] = a[3]
    /\ ValidWheel(w, a[3])
    /\ ~replaced => w = CleanWheel(a[3])
    /\ FileOfBundle(a[1], a[2], a[3], t, w)

LEMMA AttestStep ==
  ASSUME TypeOK, BuildInv, DownloadInv, AttestedCoherent, [Next]_vars
  PROVE  /\ AttestedCoherent' /\ attested \subseteq attested'
         /\ replaced => replaced'
<1>0. AttestedCoherent <=> \A a \in attested : OfSomeBundle(a)
  BY DEF AttestedCoherent, OfSomeBundle
<1>1. CASE Attest
  <2>1. run.pc = "verify" /\ VerifyRelease(run.repo, run.dir, run.id)
    BY <1>1 DEF Attest, At
  <2>2. run.dir \in Directories /\ run.id \in Identities /\ Checked(run.id, main)
    BY <2>1 DEF TypeOK, RunType, BuildInv
  <2>3. /\ ~run.dir.stray
        /\ run.dir.evidence.wheel = run.dir.wheel
    BY <2>1 DEF VerifyRelease, ExpectedEvidence
  <2>4. Coherent(run.dir, run.id)
    BY <2>1, VerifiedCoherent
  <2>5. run.dir.wheel \in Wheels /\ ValidWheel(run.dir.wheel, run.id.commit)
    BY <2>2, <2>4 DEF Coherent, ValidWheel, Directories, Opt
  <2>6. ~replaced => run.dir.wheel = CleanWheel(run.id.commit)
    <3>1. ~replaced => Whole(run.dir)
      BY <2>1, <2>3 DEF DownloadInv
    <3> QED BY <2>4, <3>1 DEF Whole, Coherent, ExpectedEvidence
  <2>7. /\ attested' = attested \cup {<<f, run.dir[f], run.id.commit>> : f \in Files}
        /\ replaced' = replaced
    BY <1>1 DEF Attest
  <2>8. ASSUME NEW f \in Files
        PROVE  OfSomeBundle(<<f, run.dir[f], run.id.commit>>)
    <3> DEFINE t == run.id.tag_object
    <3>1. t \in TagObjects /\ Target[t] = run.id.commit
      BY <2>2 DEF Checked, Identities
    <3>2. run.id = [commit |-> run.id.commit, tag_object |-> t]
      BY <2>2 DEF Identities
    <3>3. run.dir[f] = Bundle(run.id, run.dir.wheel)[f]
      BY <2>2, <2>4, <2>5, CoherentFiles
    <3>4. FileOfBundle(f, run.dir[f], run.id.commit, t, run.dir.wheel)
      BY <3>2, <3>3 DEF Bundle, FileOfBundle
    <3> QED BY <2>5, <2>6, <3>1, <3>4 DEF OfSomeBundle
  <2>9. \A a \in attested' : OfSomeBundle(a)
    BY <1>0, <2>7, <2>8
  <2> QED BY <2>7, <2>9 DEF AttestedCoherent, OfSomeBundle
<1>2. CASE ~Attest
  <2>1. attested' = attested /\ (replaced' = replaced \/ replaced')
    BY <1>2 DEF Next, Steps, Checkout, Check, Tests, Revalidate, Package,
       ReproduceWheel, FinalizeRelease, Upload, AttestCheckout, RequireIdentity,
       Download, FetchRefitted, VerifyBundle, VerifyProvenance, Publishing, SelectChecks,
       CheckRuleset, CheckLiveTag, CheckTagTarget, ViewRelease, CreateRelease,
       Fail, Rerun, StartWaiting, World, PushTag, DeleteTag, Merge, LapseRuleset,
       RestoreRuleset, CiResult, CiRerun, vars, storeVars
  <2> QED BY <2>1 DEF AttestedCoherent
<1> QED BY <1>1, <1>2

-----------------------------------------------------------------------------
(* The publish job *)

(* Past the bundle's checks a run keeps its files, identity and attempt,   *)
(* and gets from one look to the next by making it.                        *)
LEMMA PublishMoves ==
  ASSUME TypeOK, [Next]_vars, run'.pc \in {"provenance"} \cup SealedPcs
  PROVE  /\ run'.dir = run.dir /\ run'.id = run.id /\ run'.attempt = run.attempt
         /\ \/ run' = run /\ (World \/ UNCHANGED vars)
            \/ VerifyBundle /\ run'.pc = "provenance"
            \/ VerifyProvenance /\ run.pc = "provenance" /\ run'.pc = "ci"
            \/ SelectChecks /\ run.pc = "ci" /\ run'.pc = "policy"
            \/ CheckRuleset /\ run.pc = "policy" /\ run'.pc = "tag"
            \/ CheckLiveTag /\ run.pc = "tag" /\ run'.pc = "target"
            \/ CheckTagTarget /\ run.pc = "target" /\ run'.pc = "view"
            \/ ViewRelease /\ run.pc = "view" /\ run'.pc = "create"
<1>1. CASE \/ VerifyBundle \/ VerifyProvenance \/ SelectChecks \/ CheckRuleset
           \/ CheckLiveTag \/ CheckTagTarget \/ ViewRelease
  BY <1>1 DEF VerifyBundle, VerifyProvenance, SelectChecks, CheckRuleset, CheckLiveTag,
     CheckTagTarget, ViewRelease, Goto, At, TypeOK, RunType
<1>2. CASE World \/ UNCHANGED vars
  BY <1>2 DEF World, PushTag, DeleteTag, Merge, LapseRuleset, RestoreRuleset,
              CiResult, CiRerun, vars
<1>3. CASE Steps /\ ~(\/ VerifyBundle \/ VerifyProvenance \/ CheckRuleset
                      \/ CheckLiveTag \/ CheckTagTarget \/ ViewRelease
                      \/ SelectChecks)
  <2>1. run'.pc \notin {"provenance"} \cup SealedPcs
    BY <1>3 DEF Steps, Checkout, Check, Tests, Revalidate, Package, ReproduceWheel,
       FinalizeRelease, Upload, AttestCheckout, RequireIdentity, Download, FetchRefitted, Attest,
       Publishing, CreateRelease, Goto, TypeOK, RunType, SealedPcs
  <2> QED BY <2>1
<1>4. CASE Fail \/ Rerun \/ StartWaiting
  <2>1. run'.pc \notin {"provenance"} \cup SealedPcs
    BY <1>4 DEF Fail, Rerun, StartWaiting, StartOf, NoRun, Goto, TypeOK, RunType,
       SealedPcs
  <2> QED BY <2>1
<1> QED BY <1>1, <1>2, <1>3, <1>4 DEF Next

LEMMA PublishStep ==
  ASSUME TypeOK, PublishInv, attested \subseteq attested', [Next]_vars
  PROVE  PublishInv'
<1>1. ASSUME run'.pc \in {"provenance"} \cup SealedPcs
      PROVE  run'.attempt = 1 /\ BundleBinds(run'.dir, run'.id)
  BY <1>1, PublishMoves DEF PublishInv, VerifyBundle, SealedPcs
<1>2. ASSUME run'.pc \in SealedPcs
      PROVE  \A f \in Files : <<f, run'.dir[f], run'.id.commit>> \in attested'
  <2>1. run.pc \in SealedPcs \/ VerifyProvenance
    BY <1>2, PublishMoves DEF SealedPcs
  <2> QED
    BY <1>2, <2>1, PublishMoves DEF PublishInv, Attested, VerifyProvenance
<1>3. ASSUME run'.pc \in {"view", "create"}
      PROVE  Named[run'.id.tag_object]
  BY <1>3, PublishMoves DEF PublishInv, CheckTagTarget, SealedPcs
<1> QED BY <1>1, <1>2, <1>3 DEF PublishInv, Attested, BundleBinds

LEMMA LooksStep == TypeOK /\ BuildInv /\ LooksInv /\ [Next]_vars => LooksInv'
<1> SUFFICES ASSUME TypeOK, BuildInv, LooksInv, [Next]_vars PROVE LooksInv'
  OBVIOUS
<1>1. ASSUME run'.pc \in {"tag", "target", "view", "create"}, ~lapsed'
      PROVE  ruleset' /\ (run'.pc # "tag" => tag' = run'.id.tag_object)
  <2>1. CASE run' = run /\ (World \/ UNCHANGED vars)
    <3>1. ~lapsed
      BY <1>1, <2>1 DEF World, PushTag, DeleteTag, Merge, LapseRuleset,
           RestoreRuleset, CiResult, CiRerun, vars, TypeOK
    <3>2. ruleset /\ (run.pc # "tag" => tag = run.id.tag_object)
      BY <1>1, <2>1, <3>1 DEF LooksInv
    <3>3. run.id \in Identities
      BY <1>1, <2>1 DEF BuildInv, BuildPcs
    <3>4. run.pc # "tag" => tag # None
      BY <3>2, <3>3, RepositoryAssumption DEF Identities
    <3>5. ~LapseRuleset /\ ~DeleteTag /\ ~RestoreRuleset
      BY <1>1, <3>2 DEF LapseRuleset, DeleteTag, RestoreRuleset
    <3>6. run.pc # "tag" => ~PushTag
      BY <3>2, <3>4 DEF PushTag
    <3>7. CASE PushTag
      BY <2>1, <3>2, <3>6, <3>7 DEF PushTag
    <3>8. CASE Merge \/ CiResult \/ CiRerun \/ UNCHANGED vars
      BY <2>1, <3>2, <3>8 DEF Merge, CiResult, CiRerun, vars, remoteVars
    <3> QED BY <2>1, <3>5, <3>7, <3>8 DEF World
  <2>2. CASE CheckRuleset /\ run'.pc = "tag"
    BY <2>2 DEF CheckRuleset, remoteVars
  <2>3. CASE \/ CheckLiveTag /\ run.pc = "tag"
             \/ CheckTagTarget /\ run.pc = "target"
             \/ ViewRelease /\ run.pc = "view"
    <3>1. run'.id = run.id
      BY <1>1, PublishMoves DEF SealedPcs
    <3>2. tag' = tag /\ ruleset' = ruleset /\ lapsed' = lapsed
      BY <2>3 DEF CheckLiveTag, CheckTagTarget, ViewRelease, remoteVars
    <3>3. ruleset /\ (run.pc # "tag" => tag = run.id.tag_object)
      BY <1>1, <2>3, <3>2 DEF LooksInv
    <3>4. CheckLiveTag => tag = run.id.tag_object
      BY DEF CheckLiveTag
    <3> QED BY <2>3, <3>1, <3>2, <3>3, <3>4
  <2> QED BY <1>1, <2>1, <2>2, <2>3, PublishMoves DEF SealedPcs
<1> QED BY <1>1 DEF LooksInv

(* Attested files whose evidence and checksums fit are one bundle.         *)
LEMMA AttestedBundle ==
  ASSUME AttestedCoherent, NEW dir \in Directories, NEW id, Checked(id, main),
         BundleBinds(dir, id), Attested(dir, id), Named[id.tag_object]
  PROVE  Coherent(dir, id) /\ (~replaced => dir.wheel = CleanWheel(id.commit))
<1> DEFINE Other(t) == [commit |-> id.commit, tag_object |-> t]
<1>1. id.commit \in Commits /\ id \in Identities
      /\ \A t \in TagObjects : Other(t) \in Identities
  BY DEF Checked, Identities
<1>2. ASSUME NEW f \in Files
      PROVE  \E t \in TagObjects, w \in Wheels :
               /\ ValidWheel(w, id.commit)
               /\ ~replaced => w = CleanWheel(id.commit)
               /\ dir[f] = Bundle(Other(t), w)[f]
  <2> DEFINE a == <<f, dir[f], id.commit>>
  <2>1. a \in attested /\ a[1] = f /\ a[2] = dir[f] /\ a[3] = id.commit
    BY DEF Attested
  <2> QED BY <2>1 DEF AttestedCoherent, FileOfBundle, Bundle
<1>3. dir.source = Archive(id.commit)
  <2>1. PICK t \in TagObjects, w \in Wheels : dir.source = Bundle(Other(t), w).source
    BY <1>2 DEF Files
  <2>2. PICK other \in Identities : other = Other(t) /\ other.commit = id.commit
    BY <1>1
  <2>3. Bundle(other, w).source = Archive(other.commit)
    BY BundleFiles
  <2> QED BY <2>1, <2>2, <2>3
<1>4. /\ ValidWheel(dir.wheel, id.commit)
      /\ ~replaced => dir.wheel = CleanWheel(id.commit)
  <2>1. PICK t \in TagObjects, w \in Wheels :
          /\ ValidWheel(w, id.commit)
          /\ ~replaced => w = CleanWheel(id.commit)
          /\ dir.wheel = Bundle(Other(t), w).wheel
    BY <1>2 DEF Files
  <2> QED BY <1>1, <2>1, BundleFiles
<1>5. PICK t \in TagObjects, w \in Wheels : dir.sums = Bundle(Other(t), w).sums
  BY <1>2 DEF Files
<1>6. dir.sums = [source |-> Archive(id.commit), wheel |-> w,
                  evidence |-> Bundle(Other(t), w).evidence]
      /\ Bundle(Other(t), w).evidence = [commit |-> id.commit, tag_object |-> t,
                                         source |-> Archive(id.commit), wheel |-> w]
  <2>1. Other(t) \in Identities /\ Other(t).commit = id.commit
        /\ Other(t).tag_object = t
    BY <1>1
  <2> QED BY <1>5, <2>1, BundleFiles
<1>7. dir.sums = ChecksumsOf(dir) /\ dir.evidence.tag_object = id.tag_object
  BY DEF BundleBinds
<1>8. /\ dir.wheel = w
      /\ dir.evidence = [commit |-> id.commit, tag_object |-> t,
                         source |-> Archive(id.commit), wheel |-> w]
  BY <1>6, <1>7 DEF ChecksumsOf
<1>9. dir.evidence = ExpectedEvidence(dir, id)
  BY <1>3, <1>7, <1>8 DEF ExpectedEvidence
<1> QED BY <1>3, <1>4, <1>7, <1>9 DEF Coherent, Checked

LEMMA ReleaseCreated == ASSUME [Next]_vars PROVE release' = release \/ CreateRelease
BY DEF Next, Steps, Checkout, Check, Tests, Revalidate, Package,
   ReproduceWheel, FinalizeRelease, Upload, AttestCheckout, RequireIdentity,
   Download, FetchRefitted, Attest, VerifyBundle, VerifyProvenance, Publishing, SelectChecks,
   CheckRuleset, CheckLiveTag, CheckTagTarget, ViewRelease,
   Fail, Rerun, StartWaiting, World, PushTag, DeleteTag, Merge, LapseRuleset,
   RestoreRuleset, CiResult, CiRerun, vars, storeVars

LEMMA ReleaseStep ==
  ASSUME Inv, attested \subseteq attested', replaced => replaced', [Next]_vars
  PROVE  PublishedCoherent' /\ PublishedAttested'
<1> USE DEF Inv
<1>1. CASE CreateRelease
  <2>1. run.pc = "create" /\ run.dir \in Directories /\ run.id \in Identities
    BY <1>1 DEF CreateRelease, At, TypeOK, RunType, BuildInv
  <2>2. /\ run.attempt = 1 /\ BundleBinds(run.dir, run.id)
        /\ Attested(run.dir, run.id) /\ Named[run.id.tag_object]
    BY <2>1 DEF PublishInv, SealedPcs
  <2>3. Checked(run.id, main)
    BY <2>1 DEF BuildInv
  <2>4. /\ Coherent(run.dir, run.id)
        /\ ~replaced => run.dir.wheel = CleanWheel(run.id.commit)
    BY <2>1, <2>2, <2>3, AttestedBundle
  <2>5. /\ release'.dir = run.dir /\ release'.id = run.id
        /\ release'.attempt = run.attempt
    BY <1>1 DEF CreateRelease
  <2> QED
    BY <2>2, <2>3, <2>4, <2>5, MainGrows
       DEF PublishedCoherent, PublishedAttested, Checked, Attested, Coherent
<1>2. CASE ~CreateRelease
  <2>1. release' = release
    BY <1>2, ReleaseCreated
  <2> QED BY <2>1, MainGrows DEF PublishedCoherent, PublishedAttested, Coherent
<1> QED BY <1>1, <1>2

LEMMA InvInit == Init => Inv
<1> SUFFICES ASSUME Init PROVE Inv
  OBVIOUS
<1>1. NoRun \in RunType
  BY EmptyTyped DEF NoRun, RunType, Pcs, Over, Checkouts, Opt
<1>2. TypeOK
  <2>1. scene \in [refs : SUBSET Refs, pushes : Nat, ci : Nat, lapses : Nat,
                   faults : Nat]
    BY ScenesAssumption DEF Init
  <2>2. artifacts \in Seq(Directories)
    BY DEF Init
  <2>3. ruleset \in BOOLEAN /\ lapsed \in BOOLEAN
    BY DEF Init
  <2>4. tag \in Opt(Refs) /\ main \subseteq Commits /\ waiting \in Opt(Commits)
    BY DEF Init, Opt
  <2> QED BY <1>1, <2>1, <2>2, <2>3, <2>4 DEF Init, TypeOK
<1>3. run.pc = "none" /\ run.id = None /\ run.repo.main = {} /\ artifacts = <<>>
  BY DEF Init, NoRun
<1>4. BuildInv
  BY <1>3, RepositoryAssumption DEF BuildInv, BuildPcs, AttestPcs, BundlePcs, SealedPcs
<1>5. DownloadInv /\ PublishInv /\ LooksInv
  BY <1>3 DEF DownloadInv, PublishInv, LooksInv, SealedPcs
<1>6. AttestedCoherent /\ PublishedCoherent /\ PublishedAttested
  BY DEF Init, AttestedCoherent, PublishedCoherent, PublishedAttested
<1> QED BY <1>2, <1>4, <1>5, <1>6 DEF Inv

THEOREM RunInvariant == Spec => []Inv
<1>1. Inv /\ [Next]_vars => Inv'
  BY TypeStep, BuildStep, DownloadStep, AttestStep, PublishStep, LooksStep,
     ReleaseStep DEF Inv
<1> QED BY <1>1, InvInit, PTL DEF Spec

(* A release is the coherent bundle of one commit on main that declares    *)
(* the version, bound by the annotated tag, out of a first attempt; its    *)
(* wheel is the rebuilt one unless attest was given a bundle nobody built. *)
THEOREM ReleasesCoherent == Spec => []PublishedCoherent
<1>1. Inv => PublishedCoherent
  BY DEF Inv
<1> QED BY <1>1, RunInvariant, PTL

(* No file but those of a coherent bundle of its commit is ever attested,  *)
(* and until attest is given a bundle nobody built, its wheel is rebuilt.  *)
THEOREM AttestationsCoherent == Spec => []AttestedCoherent
<1>1. Inv => AttestedCoherent
  BY DEF Inv
<1> QED BY <1>1, RunInvariant, PTL

(* Every published file was attested for the release's commit. *)
THEOREM ReleasesAttested == Spec => []PublishedAttested
<1>1. Inv => PublishedAttested
  BY DEF Inv
<1> QED BY <1>1, RunInvariant, PTL

(* With the ruleset on since the run looked at it, the release is created  *)
(* while the tag is the attested tag object.                               *)
THEOREM TagHeld == Spec => TagHeldByRuleset
<1>1. Inv /\ [Next]_vars
        => [release = None /\ release' # None /\ ~lapsed => tag = run.id.tag_object]_vars
  <2> SUFFICES ASSUME Inv, Next, release = None, release' # None, ~lapsed
               PROVE  tag = run.id.tag_object
    OBVIOUS
  <2>1. CreateRelease
    BY ReleaseCreated
  <2> QED BY <2>1 DEF CreateRelease, At, Inv, LooksInv
<1> QED BY <1>1, RunInvariant, PTL DEF Spec, TagHeldByRuleset

=============================================================================
