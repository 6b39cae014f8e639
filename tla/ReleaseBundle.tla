--------------------------- MODULE ReleaseBundle ----------------------------
(***************************************************************************)
(* What scripts/prepare_release.py accepts: the identity of a release in a *)
(* Git repository, and the four files of a release directory.  One tag     *)
(* name; `refs/tags/<tag>' holds a tag object, a commit (a lightweight     *)
(* tag) or nothing.                                                        *)
(*                                                                         *)
(* Files are named by what made them: an archive by its commit and whether *)
(* it is the canonical `git archive', a wheel by its commit, whether it is *)
(* what a clean rebuild of that archive gives, and whether its metadata    *)
(* carry the name, version and requirements of that commit's pyproject.    *)
(***************************************************************************)
EXTENDS Naturals

CONSTANTS None, Commits, TagObjects,
          Target,     \* the commit an annotated tag object binds
          Named,      \* does it bind the tag's own name?
          Declares    \* do both version declarations of a commit equal the
                      \* tag's version, with no dependencies?

Identities == [commit : Commits, tag_object : TagObjects]

ASSUME RepositoryAssumption ==
  /\ None \notin Commits \cup TagObjects \cup Identities
  /\ Commits \cap TagObjects = {}
  /\ Target \in [TagObjects -> Commits]
  /\ Named \in [TagObjects -> BOOLEAN]
  /\ Declares \in [Commits -> BOOLEAN]

Opt(S) == S \cup {None}

Refs == TagObjects \cup Commits

(* rev-parse <ref>^{commit} *)
Commit(ref) == IF ref \in TagObjects THEN Target[ref] ELSE ref

-----------------------------------------------------------------------------
(* Files *)

Sources == [commit : Commits, exact : BOOLEAN]

Wheels == [commit : Commits, clean : BOOLEAN, labelled : BOOLEAN]

Evidences == [commit : Commits, tag_object : TagObjects,
              source : Sources, wheel : Wheels]

Checksums == [source : Sources, wheel : Wheels, evidence : Evidences]

(* stray: the directory holds anything else. *)
Directories == [source : Opt(Sources), wheel : Opt(Wheels),
                evidence : Opt(Evidences), sums : Opt(Checksums),
                stray : BOOLEAN]

Empty == [source |-> None, wheel |-> None, evidence |-> None, sums |-> None,
          stray |-> FALSE]

Files == {"source", "wheel", "evidence", "sums"}

Archive(c) == [commit |-> c, exact |-> TRUE]

CleanWheel(c) == [commit |-> c, clean |-> TRUE, labelled |-> TRUE]

-----------------------------------------------------------------------------
(* Checks.  repo is a checkout: its tag, HEAD, commits reachable from      *)
(* origin/main, and whether its tree is clean.                             *)

Checkouts == [tag : Opt(Refs), head : Opt(Commits), main : SUBSET Commits,
              clean : BOOLEAN]

DeclaresVersion(repo) == repo.head # None /\ Declares[repo.head]

CheckRelease(repo, sha, attempt) ==
  /\ attempt = 1
  /\ DeclaresVersion(repo)
  /\ repo.clean
  /\ repo.tag \in TagObjects
  /\ repo.head = Target[repo.tag]
  /\ sha = Target[repo.tag]
  /\ repo.head \in repo.main

ReleaseIdentity(repo, id) ==
  /\ repo.tag = id.tag_object
  /\ Target[id.tag_object] = id.commit
  /\ Named[id.tag_object]

ValidSource(source, c) == source = Archive(c)

ValidWheel(wheel, c) == wheel # None /\ wheel.labelled /\ wheel.commit = c

AssetPaths(dir, c) == ValidSource(dir.source, c) /\ ValidWheel(dir.wheel, c)

ExpectedEvidence(dir, id) ==
  [commit |-> id.commit, tag_object |-> id.tag_object,
   source |-> dir.source, wheel |-> dir.wheel]

ChecksumsOf(dir) ==
  [source |-> dir.source, wheel |-> dir.wheel, evidence |-> dir.evidence]

VerifyChecksumsOnly(repo, dir, id) ==
  /\ ReleaseIdentity(repo, id)
  /\ ~dir.stray /\ dir.evidence # None
  /\ dir.sums = ChecksumsOf(dir)

VerifyRelease(repo, dir, id) ==
  /\ ReleaseIdentity(repo, id)
  /\ AssetPaths(dir, id.commit)
  /\ ~dir.stray
  /\ dir.evidence = ExpectedEvidence(dir, id)
  /\ dir.sums = ChecksumsOf(dir)

Finalizable(repo, dir, id) ==
  /\ ReleaseIdentity(repo, id)
  /\ AssetPaths(dir, id.commit)
  /\ ~dir.stray /\ dir.evidence = None /\ dir.sums = None

(* Evidence, then the checksums of all three. *)
Finalized(dir, id) ==
  LET d == [dir EXCEPT !.evidence = ExpectedEvidence(dir, id)]
  IN [d EXCEPT !.sums = ChecksumsOf(d)]

=============================================================================
