# A TLA+ model of verified-video-pipeline

The program registers a source video, has a human approve an edit plan, renders
a master, measures it and writes a release manifest. Its claim
(`docs/architecture.md:5`): a release manifest refers to the same source, plan
and master bytes that passed QA, whatever is interrupted, repeated, edited or
run twice. The repository makes a second claim about itself
(`docs/release-process.md`): what it publishes is one reproducible, attested
bundle of one commit whose history is public. The modules here model the parts
that carry the two claims. TLC checks them on small instances; TLAPS proves every
safety property that the passing runs check, for every instance. Liveness stays
with TLC. Paths are relative to `src/verified_video_pipeline/` unless they begin
with another directory.

## Inventory

| Part | State | Operations | Interacts with | Hard about it |
|---|---|---|---|---|
| Project state, `state.py` | a JSON document: stage, revision, evidence | `new_state`, `advance`, `validate_state`, `validate_transition` | called by journal and pipeline | which document may follow which |
| Journal, `journal.py`, `atomic.py` | `project.json`, `journal.json` | `initialize`, `transact`, `recover` | called by every command | a kill between any two writes; directory entries that reach the disk late; stale, foreign or corrupt records; outside edits |
| Leases, `locks.py` | lease file, flock, descriptors | enter, exit | around every command | races of open, check, flock, check, truncate, write; killed owners; deleted or foreign files |
| Pipeline, `pipeline.py` | source, plan, staged file, master, receipt, manifest | `init`, `approve-plan`, `build`, `qa`, `manifest`, `recover`, `demo` | journal, leases, hashing, tools | a multi-file commit; files and tools that change while they are read by path; no-clobber; what is looked at before a lease is held |
| Status reader, `pipeline.py` | none | `status`, `status --verify` | reads everything a command may be writing | a report made of looks at different times; advice that must lead somewhere |
| Identity, `hashing.py` | none | stable hash, stable read, `require_identity` | every gate | a file rewritten during a chunked read |
| Engine, `engine.py` | the installed tools | capture, compare | build, qa, manifest, receipts | drift between two commands or within one |
| Tools, `media.py`, `loudness.py`, `profiles.py` | child processes | render, probe, decode, measure | build, qa | timeouts, orphans, roundings and tolerances |
| Command line, `cli.py`, `errors.py` | none | parse, dispatch, exit code | pipeline | nothing |
| Release preparation, `scripts/prepare_release.py`, `scripts/release_checks.py`, `.github/workflows/release.yml` | git objects, CI runs, artifacts, attestations, tag, release | check, source archive, wheel, finalize, verify; three jobs | GitHub | a tag, a CI result or an artifact that changes between two checks; re-runs of one job |
| Public tree audit, `scripts/audit_public_tree.py` | none | scan of the working tree and of the history | git | what is reached from where, and by which walk |

What makes each part correct:

- **Journal.** A pending record always has `project.json` on one of its two
  sides, in memory and on the disk a power loss leaves; recovery always ends;
  nothing but a lawful next document is ever written; a record is removed only
  when it has been applied; what a command that wrote reported is not lost, nor
  any other report as long as no directory sync was cut off; anything ambiguous
  is left untouched.
- **Leases.** One owner at a time; its marker names it; bytes the lease does not
  own are never changed.
- **Pipeline.** A registered master is the render of the registered inputs; QA
  evidence is a measurement of that master; the manifest names just that
  evidence; nothing existing is overwritten; a promoted master is never
  orphaned; a receipt can always be closed; no process writes to bytes that a
  receipt speaks for; a workspace is registered once.
- **Status.** `ready` is said only of bytes that are; a pending recovery is not
  overlooked; whoever does what status says arrives.
- **Identity.** A digest is of the bytes the path held at one instant.
- **Tools.** A plan that was approved can be rendered acceptably; a render that
  was accepted covers its plan.
- **Release.** The published files are one coherent bundle of one commit and tag
  object, on main, and attested for it. CI is looked at once, and what is
  recorded later does not count.
- **Audit.** What passes has its full history and no private metadata, blob or
  name in any commit; what is public passes, if git answers.

`PROJECT.json` lists every hazard with its line and the properties that cover
it, or why none does.

## Modules

| Module | Models | Extends or instances |
|---|---|---|
| `ProjectState` | `state.py`: documents, validity, transitions | |
| `Lifecycle` | what the journal promises, with no journal and no crash | `ProjectState` |
| `Journal` | `journal.py` write by write, crashes, outside edits | `ProjectState`; `Abstract == INSTANCE Lifecycle` |
| `Durability` | `atomic.py`: `Journal` on a directory that reaches the disk late | `Journal`; `DurableLifecycle == INSTANCE Lifecycle` |
| `Workspace` | `pipeline.py`: six commands over the files | `ProjectState`; `J == INSTANCE Journal` |
| `StatusView` | `status`, look by look, beside the commands; an operator who follows it | `Workspace` |
| `FileLease` | `locks.py`: contenders on one path | |
| `Sessions` | several commands on one machine: leases, children, orphans, `init` and `demo` before their lease | |
| `SnapshotRead` | what a read of a file promises | |
| `StableRead` | `hashing.py`: the chunked, unlocked read | `Snapshot == INSTANCE SnapshotRead` |
| `EditPlan` | `media.py`: one trim through rounding, slack and tolerance | |
| `ReleaseBundle` | `prepare_release.py`: the identity and the files of a release | |
| `ReleaseRun` | `release.yml` and `release_checks.py` around it | `ReleaseBundle` |
| `PublicTree` | `audit_public_tree.py` | |
| `JournalProofs` | theorems about `Journal` and `Durability` | `Durability`, `TLAPS` |
| `WorkspaceProofs` | theorems about `Workspace` and `StatusView` | `StatusView`, `TLAPS` |
| `FileLeaseProofs`, `SessionsProofs`, `StableReadProofs`, `EditPlanProofs`, `ReleaseRunProofs`, `PublicTreeProofs` | theorems about the module they are named for | that module, `TLAPS` |
| `MCJournal`, `MCDurability`, `MCWorkspace`, `MCStatus`, `MCFileLease`, `MCSessions`, `MCStableRead`, `MCEditPlan`, `MCRelease`, `MCPublicTree` | values of the constants | their component |

### ProjectState

A document is a record of the fields the checks read. A SHA-256 is the content
it names: equal digests are equal bytes, the collision resistance the threat
model assumes. An absent or malformed field is `None`. `created_at` goes with
`content_id`, which the code treats alike; sizes, paths, reviewers and times are
left out. `probe` and `loudness` hold the content they were measured from, so
that "evidence of other bytes" can be said at all: the code has no such field
and no operator tests it. Only properties read it.

### Journal

`project` and `journal` are the two files (`None` absent, `Garbage` one that
fails to parse or its self-hash), `tx` the control point and locals of the one
running `transact` or `recover`. `TransactBegin` is `transact` to line 57:
refuse a pending record, load, mutate, set the revision, validate. `Prepare`
(59-69), `Compare` (73-77), `Apply` (78) and `Clear` (81) are its four later
steps, each one write or one read; `recover` validates (`Sound`, 84-108) and
enters the same steps at `Apply` (`RollForward`) or `Clear` (`FinishClear`). A
refusal before the first write changes nothing and is no step. A mutator may
return any document of `Mutations`, lawful or not. `Crash` forgets `tx` at any
point.

`Spec` has crashes only. `OpenSpec` adds what the threat model calls accidental
mutation and stale state: `EditJournal` between two programs, `EditProject` at
the points `EditPcs`. The instance leaves out `"apply"`, between the compare and
the rename it guards, and `"clear"`, between the rename and the removal of the
record: the code cannot see an edit there, and `docs/architecture.md:118` says
the file is not a multi-writer database. The theorems about edited files state
which of the two points they leave out.

### Durability

`atomic_write_bytes` syncs the bytes, renames, then syncs the directory. What a
program and its successors see is `project` and `journal`, as in `Journal`;
`disk` is what a power loss would leave, `queue` the directory updates between
the two. `Update` wraps each write of `Journal`; the next step waits for
`DirectorySynced`, which needs an empty queue. `Kill` also stands for a failing
directory sync, after which `atomic.py` takes nothing back: the queue stays.
`Writeback` carries an update to the disk, in the order of the calls when
`ordered`, else in any order that does not exchange two updates of one name.
`told` is the revision a command last reported, `acked` the last one reported with
nothing left queued. `Report` is the return of a command that wrote;
`ReportUnchanged` is a command that prints the state it found and syncs nothing:
`recover` without a record, `build` of a built project. Their reports differ:
after a kill between a rename and its directory sync, the second kind speaks of
an update that a power loss may still undo (`MCDurabilityTold.cfg`), so
`AckedSurvives` is about `acked`, and `ToldSurvives`, about every report, asks
that no sync was cut off. What `status` prints without a lease is no report here.

On an unordered disk, a kill between two unsynced updates and a power loss can
leave a record whose `project.json` is on neither side. The documents exclude
power loss from their promises, and the code cannot tell; `HeldTogether` says
that such a disk is not resumed from. What was acknowledged is asked of it all
the same.

### Workspace

`files` holds the contents of source, plan, master, staged file and manifest,
`receipt` the build receipt, `engine` the installed tools. The project lease
admits one command at a time (that is what `FileLease` is checked for), so `op`
is one control state with the locals that survive between steps: the document
read, the engine captured, hash, probe and loudness measured, the value being
written. All writes of `project.json` go through the actions of `Journal`.

A step is one write, one read of a large file, or a run of checks on documents
in memory together with the re-hashes that follow one another with no work in
between. `RenderStart` and `RenderEnd` bracket ffmpeg, which reads the source
when it opens it. A render is the record of what made it, or `Partial` when it
was cut short. Probe and loudness read the file by its path at their own time;
this is what lets the edits in. Every failed check, failing tool, timeout and
kill is `Stop`: no handler in `pipeline.py` touches the workspace, so all of
them leave the files as they are. The preamble `_recover_locked` of every
command but `init` is the control points `recover`, `rolling`, `receipt`, and
those it shares with `build`: `link`, `dropStaged`, `commit`, `dropReceipt`.

Outside edits are `EditFile`, `EditReceipt` and `EngineDrift`, at most
`MaxEdits`. While a command runs, a thing is edited once per command unless
`Restoring`, and not at a point in `Blind`. `MCBlind` names four points no code
at this level could tell: the staged file before its first hash, and an evidence
file between the look and the write. `MCWorkspaceRestore.cfg` and
`MCWorkspaceWindow.cfg` lift these two assumptions one at a time and show what
follows.

Coarser than the code: the two directory entries of the hard link are two
contents, so an edit in place of one does not change the other; what
`init` looks at before its lease is in `Sessions`; the project document is not
edited from outside here (that is `Journal`'s subject).

`WorkspaceAssumption` says of what kind an edit's contents are (under the
master's name some medium or nothing, under the plan's a plan or a stray
document), so that a digest never names contents of two kinds.
`LegacyAssumption` says what a v0.1 workspace may hold when it is opened: a valid
document of schema 1 whose master, if any, has the stage it belongs to.

### StatusView

`status` takes no project lease, so any step of `Workspace` may come between two
of its looks. `view` holds its locals: the state it loaded, the blockers found,
the artifacts still to look at, and three history fields that only properties
read. An artifact is looked at twice under `--verify` (kind and size, then
hash), as in the code, and the heavy lease is only asked for at the engine.
`NextAction` and `Ready` are functions of the view.

`GuidedSpec` is one operator who runs nothing but what a finished report
advises, and who can be killed in any command but not endlessly.

### FileLease

Inodes, not paths, carry content and flock, so a file deleted and created again
is another file. Each process is at one system call of `__enter__`: create or
open, check (126-128), flock (129-134), second check (135-137), truncate
(138-142), write (143-146). The marker fits the stream's buffer, so the write is
one step at `flush`. An exception closes the descriptor, which also drops the
flock; so does a kill. `ForeignWrite` stands for a program outside the protocol,
`Remove` for a deletion at any time, by a cleaner of the temporary directory for
instance. `ForeignWrite` leaves a file alone whose creator has it open: a creator
does not look at the content again, and overwrites it. It also leaves a file alone while
its flock is held, so bytes that appear between the second check and the
truncation are outside the model: the code would overwrite them. Left out too
is a creation that is refused because the file exists, followed by an open that
no longer finds it (112-117): it ends in the same refusal as an unsafe file.
`lost` records the owners
whose file was deleted under them: nothing a lock file can do helps them, so
`MutualExclusion` leaves them out, and says that everyone else is exclusive
still. `refused` records what a contender was last told. Within one run of the
model a process identifier is not used again.

### Sessions

Where `Workspace` has one command at a time, here are several processes, each
with its project lease and the machine's heavy lease; a lease is what `FileLease`
is proved to be, one holder until it exits or dies. A command takes leases in
order and never waits: a busy one ends it. What it checks inside is abstracted
to the looks that decide between rendering, promoting and giving up. `initialize`
looks at the workspace in `Preflight` and takes the lease afterwards; `demo`
encodes its source under no lease at all. An encoder is a process of its own
from `Spawn` on: it creates its output when it gets there (never over an existing
file: it is run without `-y`), and a killed command leaves it running, while
`subprocess.run` kills it on a timeout. `RemoveStaged` is the operator who
cleans up after a status report. Files are named by the encoder that made them,
which is what the properties ask.

### StableRead

One call of `stable_sha256_file` or `stable_read_bytes`, split at `open`, `fstat`,
each chunk, the second `fstat` and the `stat` of the path. A chunk is one element
of a file's bytes. Other programs rewrite any inode in place (every content,
the old one included), rename over the path, remove it, or put a symbolic link
there. `FineClock` says that two changes never get one modification time; with
it, the read implements `SnapshotRead`. The read that returns nothing more and the
`fstat` after it are one step: what is appended between the two is seen by the
same `fstat`, and the data read are those of the version before it.

### EditPlan

Integer tenths of a millisecond, so that the halves that `round(x, 3)` decides can
be said; a tie goes either way, as it does for a binary float. `Register` rounds
the probed duration, `Approve` is `validate_plan` and the slack of 50 ms,
`Render` adds what codec frames add or lacks what a faulty encoder lost, and
`Accept` is the tolerance, multiplied out so that it stays in the integers. The code
compares binary floats: exactly at the tolerance it may decide either way.

### ReleaseBundle and ReleaseRun

`ReleaseBundle` has the checks of the script as operators on a checkout, a
release directory and an identity. Files are named by what made them: an
archive by its commit and whether it is the canonical one, a wheel by its commit
and by whether a clean rebuild gives it. `ReleaseRun` has the three jobs as the
workflow file orders them, each step one script call or one look at GitHub. Each
job checks out, downloads and checks for itself, as in the file; a re-run keeps
the outputs of jobs that succeeded. People push, move and delete the tag, switch
the ruleset off and on, merge, and start CI; downloads may deliver another
bundle, a stray file, another wheel, or a consistent bundle nobody built, with
another wheel and evidence and checksums that fit it (`Refitted`). The publish
job refuses the last, since nobody attested it. The attest job does not: `verify`
asks that the files fit each other and the source, and rebuilds nothing, so the
immutable artifact (`docs/release-process.md:20`) is all that keeps such a bundle
away. `replaced` records that attest was given one; `PublishedCoherent` and
`AttestedCoherent` then promise a valid wheel, and otherwise the rebuilt one.
`replaced`, `lapsed` and the counters of `scene` are history and bounds.

### PublicTree

A repository is a graph of commits, tags, trees and blobs with references, and a
working tree. What the patterns and limits say of a text is its class. The
audit is one step that computes the failures as the script does: metadata, root
trees of all listed commits, their entries by path, mode and object, and the
blobs no commit's tree contains. `AuditStopped` is the audit that git, the file
system or an undecodable name ends without a verdict: it discards the failures
found so far. `Public` is defined from reachability alone, and asks for the
entries of the trees of commits. The names in a tree which only a tag or another
ref reaches are a property of their own, `EveryReachablePathScanned`, and fail.

## Runs

| Run | Checks | Instance | Shows |
|---|---|---|---|
| `journal_open` | `ProgramStepsAreTransitions`, `RecordClearedOnlyWhenApplied`, `AmbiguousUntouched` | 2 projects, 2 contents; restored, foreign, legacy, unlawful and corrupt files | no replay of stale or foreign records |
| `durability` | `TypeOK`, `PendingOneSide`, `JournalInv`, `DiskOneSide`, `AckedSurvives`, `ToldSurvives`, `DiskImplementsLifecycle`, `PendingResolved` | 2 projects, 2 contents, mutators of every stage, of both schemas and unlawful; 2 kills with updates queued; both kinds of disk | recovery is sound and ends, whatever killed the program or the machine |
| `workspace` | `TypeOK`, `MasterAccounted`, `Provenance`, `QaOfMaster`, `ManifestBound`, `ImplementsLifecycle`, `NoClobber`, `ReceiptOutlivesBuild` | 1 video, 2 plans, 2 engines, 2 outside edits, stops anywhere | evidence binds the right bytes; a promoted master has an owner; nothing is overwritten |
| `status_read` | `ReadyHolds`, `PendingReported`, `AdviceFits` | all commands, 1 edit, v0.1 workspaces | what a report without a lease may be trusted for |
| `status_guide` | `GuidanceConverges`, `ReceiptResolved` | one operator, kills | the advice arrives; receipts are closed |
| `lease` | `MutualExclusion`, `MarkerNamesHolder`, `ForeignUntouched` | 3 processes, 3 inodes, symmetric | the lease is exclusive |
| `lease_busy` | `ContenderToldBusy` (violated) | 2 processes, nothing goes wrong | the finding |
| `sessions` | `SealedBytesQuiet`, `SealsOwnRender`, `RegisteredFresh` | 2 processes, 2 workspaces, 3 encoders, 2 kills | orphans and unleased looks do no harm to sealed bytes |
| `stable_read` | `ImplementsSnapshot`, `RefusedOnlyForCause` | 2 inodes, 2 chunk contents, 3 edits, distinct times | a stable read is a read at one instant |
| `edit_plan` | `ApprovedIsBuildable`, `AcceptedCoversPlan` | every edge of slack, rounding and tolerance | approval and acceptance fit |
| `release` | `PublishedCoherent`, `AttestedCoherent`, `PublishedAttested`, `TagHeldByRuleset` | 3 commits, 4 tag objects, both workflows, two scenes | what is published |
| `public_tree` | `PassesWhenPublic`, `EveryOffenderNamed` | 55 000 repositories | the audit passes what it should, and names what it should not |

### Bounds, and why they are enough

- *Two identifiers and two contents.* Every check of state and journal compares
  for equality; two values tell "same" from "other". The mutators reach each
  field a transition has to keep. Two plans make two different masters of one
  video, the smallest case in which evidence can belong to the wrong one.
- *Revisions* grow with the stages, at most 4; no other bound is needed.
- *`MaxEdits` = 2* in `workspace`. The defects that a gate guards against need
  one edit before or during a command; two allow one edit and its repair, an
  edit in each of two commands, or two files edited together. `MasterAccounted`
  is asked while nothing was edited. One edit beside `status`: the reader adds
  an actor, and every property of it relates one change to one look.
- *`MaxKills` = 2* in `durability`: a kill leaves updates queued, and a second one
  meets a queue from before it. In `sessions` two kills leave an orphan in each
  workspace, or two in one.
- *Three processes, three inodes* in `lease`. The path holds one inode, and two
  more can be open and deleted; a process about to create has none open, so
  three inodes never run out. Three processes give an owner, a contender that
  opened the file before a deletion, and one that creates the next file.
- *Three encoders* in `sessions`: two orphans and the one that a live command
  waits for.
- *Three edits, two chunks, two inodes* in `stable_read`: rewrite, rename away
  and back; the limit of a bounded read lies inside the sizes.
- *`MCScenes`* in `release`: three pushes with a lapse of the ruleset and two
  faults, everything but CI changing; and one push with two CI results or
  re-runs on top of a green or an empty record. Three commits: two that declare
  the version, one that does not. Four tag objects: two of one commit, one of
  them under another name.
- *`edit_plan`* has the values at, just inside and just outside each limit. The
  theorems cover the rest.
- *Two commits and two paths* in `public_tree`, with tags of anything, loose and
  shallow references: a walk is by object kind, each kind at each place it can
  be reached from.

### Fairness

- `Durability!FairDurableSpec`: weak fairness of the running program's steps and
  of its return (sequential code that nothing blocks), of the disk, and of
  `Recover`: every command but `init` begins with it, and status tells the
  operator to run it. `PendingResolved` is conditional on kills and power losses
  ending.
- `StatusView!GuidedSpec`: weak fairness of `Alone`, one operator who goes on
  acting on what status says. Nothing is assumed of which step comes next, and
  both properties are conditional on stops other than refusals ending.

`CHECK_DEADLOCK FALSE` is set in `durability` and `status_guide` (a READY project
with nothing pending has no next transition), in `edit_plan` (an accepted or
refused trim is finished), `release` (a release is published and all bounds are
used) and `public_tree` (one audit), and in those of the files below that
belong to them.

## Findings

`lease_busy`, `locks.py:128`. A contender that opens the lease file before the
creator's marker is flushed reads an empty marker and raises `ContractError`;
`docs/failure-model.md:11` promises `LeaseBusy`.

### Counterexamples kept beside the runs

Each of these files has TLC violate one property, stating a sentence of the
documentation that holds only up to the case it shows. They are run by hand.

| File | Property | What it shows |
|---|---|---|
| `MCFileLeaseRetry.cfg` | `RetryAfterExit` | `locks.py:142`: an owner killed between truncation and flush leaves an empty file that every later contender refuses; the refusal says to retry after the owner exits |
| `MCDurabilityTold.cfg` | `EveryReportSurvives` | `journal.py:85`: `init` killed between its rename and its directory sync, then `recover`, which has nothing to do and reports revision 0; a power loss takes it back (`docs/failure-model.md:43` makes no claim about power loss) |
| `MCWorkspaceRestore.cfg` | `QaOfMaster` | `pipeline.py:448`: a master swapped and put back while `run_qa` measures by path passes with measurements of the other bytes (`docs/architecture.md:5`) |
| `MCWorkspaceWindow.cfg` | `NoClobber` | `pipeline.py:187`: a file that appears between look and replace is overwritten; `docs/failure-model.md:24` says evidence is written only when absent or identical |
| `MCStatusRace.cfg` | `ReportsUnregistered` | `pipeline.py:586`: status beside a build calls a master unregistered that has just been registered (`docs/failure-model.md:32`) |
| `MCStatusCircle.cfg` | `GuidanceConverges` | `pipeline.py:232`: an `approve-plan` killed between its two writes leaves a plan that the next, different one refuses, while status goes on advising to approve (`README.md:29`) |
| `MCStableReadCoarse.cfg` | `DigestOfOneVersion` | `hashing.py:57`: with two changes in one tick of the clock, a digest of the front of one version and the end of another is returned (`docs/architecture.md:18`) |
| `MCSessionsEncoders.cfg` | `OneEncoder` | `pipeline.py:657`: `demo` and orphans encode beside a build; `docs/case-study.md:18` says heavy operations are serialized |
| `MCEditPlanEnd.cfg` | `PlanEndsInSource` | `media.py:149`: the slack admits a plan that ends after its source (`docs/architecture.md:63`) |
| `MCReleaseMoved.cfg` | `MovedTagStops` | `.github/workflows/release.yml:454`: a tag moved after its last look, with the ruleset switched off, is published (`docs/release-process.md:57`) |
| `MCReleaseLate.cfg` | `GreenAtPublication` | `.github/workflows/release.yml:382`: a CI run that fails after the look does not stop the release (`docs/release-process.md:81`) |
| `MCPublicTreeTagged.cfg` | `EveryReachablePathScanned` | `scripts/audit_public_tree.py:251`: a tag on a tree that no commit has, with a denied name for a blob a commit holds under a public one: only the trees of commits are listed, and the audit passes (`README.md:176` says every reachable path is scanned) |
| `MCReleaseReplaced.cfg` | `PublishedWheelRebuilt` | `scripts/prepare_release.py:644`: a wheel replaced before attest, together with evidence and checksums, passes `verify` and is published as rebuilt from the source (`scripts/release_checks.py`'s notes) |

## Proofs

Each safety property of each passing run is a theorem about its module's
specification. What a proof needs of the constants is a named ASSUME of the
module that declares them, which TLC evaluates in every run (the sentinels are
distinct from the data, sets of documents hold documents, the bounds are
numbers), or a hypothesis written in the theorem. The hypotheses are the same
choices the runs make:

| Hypothesis | Theorems | What happens without it |
|---|---|---|
| `"apply"` not in `EditPcs` | `StepsAreTransitions`, `AmbiguityPreserved` | an edit between the compare of `project.json` and its rename is overwritten unseen |
| `"clear"` not in `EditPcs` | `RecordsClearedWhenApplied`, `AmbiguityPreserved` | an edit between the rename and the removal of the record is not looked for |
| `~Restoring` | `QaMeasuresTheMaster`, `MastersAreRenders` | `MCWorkspaceRestore.cfg` |
| the staged file is not edited between the end of ffmpeg and its first hash | `MastersAreRenders` | the swapped bytes are taken for the render |
| the plan and the manifest do not appear between look and rename | `ExistingFilesKept` | `MCWorkspaceWindow.cfg` |
| the receipt is not edited under a command | `ReceiptsOutliveBuilds` | the command removes by name a receipt that was replaced |
| `FineClock` | `ReadsAreSnapshots` | `MCStableReadCoarse.cfg` |
| `Legacy = {}` | `WorkspaceRefinement` | a lifecycle begins with no project |
| `Manifests` are digests | `TypesHold` | it is what the type says of the manifest's name |

No other theorem has a hypothesis; in particular `MastersAccounted` and the three
about status hold under every edit the module has.

### JournalProofs

- `TypeCorrect`, and `TypeCorrectOpen` with outside edits as well.
- `InvHolds`: `JournalInv` is inductive. `PendingOneSide` alone is not: a program
  between the compare and the rename relies on what it compared, so the
  invariant also says, for each control point, what is on disk and what the
  locals are. A crash keeps it because its disk part does not mention `tx`.
  `PendingOneSideHolds` is its corollary.
- `Refinement`: under `committed <- IF journal = None THEN project ELSE
  journal.after` and `visible <- project`, `Prepare` is the abstract commit,
  `Apply` the publication, and every other step, crash and recovery included,
  stutters. `InvHolds` supplies what the mapping of `Apply` and `Clear` needs.
- `StepsAreTransitions`: with arbitrary outside edits, except between compare
  and rename, what a program writes into `project.json` is the lawful successor
  of what was there. The invariant is `TxSound`: the locals of a running program
  are a lawful pair, and at `apply` the first of them is on disk. It is *not* an
  invariant of the two files, which the edits leave in any state.
- `RecordsClearedWhenApplied` and `AmbiguityPreserved` add `RecordOwned`: the
  record on disk is the running program's from `compare` on, and at `clear` the
  project is its after side. So no program is at `apply` or `clear` while the
  store is ambiguous, and where a program can be then, the code's checks refuse.
- `DurableInvariant`: on a disk that gets the directory late. The heart is
  `PathInv`: as long as the disk is `HeldTogether` there is a sequence of settled
  stores, one for each update of the queue, from what the disk holds to what the
  program sees, and each is one step of the store (register, prepare, apply or
  clear) from the one before. A step of the program lengthens the path at its
  end, `Writeback` drops its first store, `PowerLoss` cuts it to its first. On an
  unordered disk an update may be taken from the middle; without kills the queue
  never holds two (`SyncInv`), which is what the directory sync buys.
  `DiskHoldsOneSide` reads the first store of the path; `DiskRefinement` follows
  the path's first step at each `Writeback`.
- `ReportsSurvive` and `EveryReportHeld` need no order. `AckedInv`: neither what
  the disk has under either name nor any queued document is older than `acked`.
  It is kept when a report raises `acked`, because the queue is empty then, and
  the disk has what the program sees (`FinalInv`, `LastInv`: for each
  name the last queued update, or else the disk, is what the program sees).
  `ToldInv`: until a sync is cut off, a command finds nothing queued, so it reports
  nothing newer than `acked`.

### FileLeaseProofs

For any sets of processes and inodes, with kills, deletions and foreign writes:

- `LeaseInvariant`: `TypeOK /\ LeaseInv /\ MarkerNamesHolder` is inductive. The
  argument of the code made explicit: a process past its flock owns the flock of
  the inode it has open, and a holder that did not lose its file has the inode
  at the path open.
- `Exclusive`: two such holders have the same inode open and both own its
  flock, so they are the same process. `MarkersKept`: a write into a marker goes
  through an owned flock.
- `ForeignBytesKept` adds `Cleared`: the file of a process that created it, or
  that is past the second check, holds nothing foreign. Whoever may write has
  looked, and `ForeignWrite` leaves a file alone while its flock is held.

### WorkspaceProofs

For any contents, plans, engines, legacy documents and number of edits, with a
stop at any point.

- `WorkspaceInvariant`. `Inv` says for each control point what the locals are and
  how they relate to the files: the store is recoverable (`StoreInv`) and at rest
  whenever the command is in its own work (`QuietInv`); every document the store
  has or will have is of the right kind (`DocsIn(Kinds)`); a command at work
  holds the project's own document, of this version and of the stage its name
  requires (`WorkInv`); between a receipt and the registration of its master the
  project awaits a build (`PromoteInv`). The proof has a step for each action,
  grouped by what it does: it only looks (`LookedKeeps`), it goes through the
  store (`StoredKeeps`), it writes a file (`WroteKeeps`), or it is an outside
  edit (`OutsideKeeps`). `Entered` says, for the points the later invariants
  mention, from which actions they are reached.
- `ManifestsBound`, `QaMeasuresTheMaster` and `MastersAreRenders` say of every
  document in the store that its evidence is right (`ManifestDocs`, `QaDocs`,
  `FaithfulDocs`), because a document's evidence is never changed later
  (`DocsStep`). What the document gets comes from the locals, and the invariant of
  these is a disjunction: what was read is the registered content, or the file
  has been edited and *no longer* is (`MeasureInv`, `RenderInv`, `StagedInv`).
  The last look, at the hash of the file, leaves only the first. `Restoring`
  breaks precisely the second.
- `MastersAccounted`: as long as nothing was edited, `PromotedInv` says what is
  under the names of a promotion at each of its points.
- `ExistingFilesKept`: the only write of an evidence file is by rename after a
  look, and `AbsentInv` says that the look still stands. The master comes by a
  hard link, which refuses an existing name.
- `ReceiptsOutliveBuilds`: the receipt on disk is the one the command holds
  (`HeldInv`), and a project past its build never changes its master
  (`MasterStays`).
- `WorkspaceRefinement`: the refinement of the journal once more, with the
  commands' own mutators and with everything that happens beside them.
- `PendingIsReported`: the order of the looks matters, the journal before the
  receipt, since the receipt outlives the journal. `PendingInv`: once the journal
  was seen gone, what is pending is the receipt, and it goes only when nothing is.
- `ReadyIsReady`: a READY project is not changed by any command, so each label is
  still to be looked at, or was found as registered and holds still, or was
  edited (`ReadyInv`).
- `AdviceIsFit`: every blocker found has its cause, and the cause stays while no
  command moves (`AdviceInv`).
- `StatusChangesNothing`: `ViewSpec` and `GuidedSpec` imply `Spec`, which carries
  the theorems above over to them. `GuidedReportsFit` and `AdviceLeadsOn` are
  about `GuidedSpec`: its operator looks only while no command runs
  (`Attentive`), so every report is of a workspace at rest, and each command it
  leads to is one the project admits. That the operator arrives is the liveness
  which TLC checks.

### SessionsProofs

For any number of processes, workspaces, encoders and kills. `SessionsInvariant`
has four parts. `LeaseInv`: where a command relies on its project's lease, it has
it. `FreshInv`: before a registration nothing of a project exists or is in the
making. `RenderInv`: the file of a build's encoder, once created, stays under its
name until the receipt. `SealedInv`: the maker of what a receipt or a master names
has ended. `SealedStaysQuiet` is the last, and stands on `RenderInv`: an encoder
that an earlier, killed build left behind cannot get the staged name while
another's file has it, since encoders never overwrite. `RegistersFresh` stands on
`FreshInv`, which is why the stale look of `initialize` does no harm.

### StableReadProofs

`ReadInvariant`, for any contents, sizes and number of changes. File times only
grow; so if the open file shows the time it had when it was opened, nothing
touched it, its identity is the one taken, and what was read is its front
(`Fresh`). `ReadsAreSnapshots` takes `Return` for the instant: there the path still has the
identity taken at the open, so the data read are what the path holds.
`QuietReadsAnswer` uses the other disjunct of `Fresh` and needs no clock.

### EditPlanProofs

For any lengths, trims, paddings and losses. `PlanBuildable`, `PlanCovered`: the
inductive invariant carries each stage's inequality to the stage that relies on
it: registration is within half a millisecond of the source, approval within 50
ms of the registration, a faithful render the available part and its padding. A
faithful render of a millisecond is then off by at most 150 ms, which is the
least tolerance, as long as `PaddingAssumption` holds: a padding of at most 149.5
ms, more than a video frame at seven frames a second.

### ReleaseRunProofs

For any repository and any number of pushes, moves, faults, re-runs and CI
results.

- `RunInvariant`. `BuildInv`: an identity is checked before it is kept, main only
  grows, and every uploaded bundle is `Whole`, that is, it is made of its
  evidence's own identity. `DownloadInv`: what a job downloads is such a bundle,
  or one that `verify` tells apart, or attest was given a bundle nobody built
  (`replaced`). `PublishInv`: past the provenance step, what the publish job holds
  is attested, bound to its identity, and of attempt 1.
- `AttestationsCoherent`: what the attest job signs has passed `verify`, and so fits
  its source whatever was downloaded; that its wheel is the rebuilt one comes
  from the build job, and only without `replaced`.
  `ReleasesAttested`, `ReleasesCoherent`: the publish job may be given a bundle
  that is consistent in itself and has another wheel, which its checks of the
  files alone pass; the provenance step stops it, because nothing of the kind was
  attested, and what is attested is coherent.
- `TagHeld`: `LooksInv` says how long each look stands; past the look at the
  ruleset only its lapse moves the tag.

### PublicTreeProofs

For any graph of objects. The failures the script collects are compared, walk by
walk, with what is reachable: `ListedReachable` (the commits it lists are the
reachable ones), `EntryAudit` (an entry fails if and only if it offends),
`UncontainedLoose` (the blobs in no commit's tree are those only tags and refs
reach), `WorktreeAudit`. `HistoryAudit` puts them together; `PassesExactly` and
`OffendersNamed` follow, for an audit that finishes and for the trees of commits.
Reachability itself is `Reachable(repo)` of the model, a finite closure: that
`git rev-list` computes it is taken from git.

### Only model-checked

- `PendingResolved`, `GuidanceConverges`, `ReceiptResolved`: liveness, whose
  proofs need ENABLED and fairness.
- The runs of the violated properties, in the section on findings: TLC's
  counterexample is the result.
- The inductive invariants are proved and, apart from `JournalInv`, not in a run.
  `DurableInv` and those of `WorkspaceProofs` that concern the commands were also
  evaluated by TLC on the instances of `durability` and `workspace`.
- That `git`, the file system and GitHub behave as the external definitions say
  is assumed by both.

## Not modelled, and the plan

Left to do, in this order:

1. that `FileLease` implements the lease `Sessions` takes for granted, as a
   refinement of one abstract lease (today each is proved of its own model);
2. theorems for the documentation's sentences that hold only up to a case
   (the files kept beside the runs), stating each with the case excepted, where
   no theorem above says it already: `RetryAfterExit` while no owner is killed
   before its flush, `PlanEndsInSource` within the slack;
3. the algebra of documents in `ProjectState` as lemmas of its own (a path of
   transitions keeps identity and evidence), which the journal and the workspace
   each use a part of.

Not modelled:

- the text of ffmpeg's version, probe and loudness output and its parsing
  (`engine.py`, `media.py`, `loudness.py`), the measurement profiles
  (`profiles.py`): tables and string handling without state;
- the codec canary of an engine capture, and a capture taken while tools are
  being replaced: the engine is one value here;
- argument parsing, exit codes, output and `doctor` (`cli.py`, `errors.py`);
- the regular expressions and limits of `audit_public_tree.py`;
- the staged file's data after a power loss: `ffmpeg` output is hashed, never
  synced, before its receipt is; the documents exclude power loss;
- the tool version recorded in a manifest;
- an edit between the compare of `project.json` and its rename, which the code
  cannot see.
