----------------------------- MODULE PublicTree ------------------------------
(***************************************************************************)
(* scripts/audit_public_tree.py: the gate that scans the working tree and  *)
(* all of the Git history before a release.  The repository is a graph of  *)
(* objects; what the patterns and limits of the script say of a text, a    *)
(* file name or a blob is a class of it.  One step is one audit: it reads  *)
(* a repository that does not change.                                      *)
(***************************************************************************)
EXTENDS Integers, FiniteSets

CONSTANTS None, Stopped,
          Commits, Tags, Trees, Blobs, Paths,
          TreeOf(_), ParentsOf(_), TargetOf(_),
          Content(_),      \* of a blob: "public", "private", "binary", "large"
          Naming(_),       \* of a path: "public", "private", "denied"
          Repositories     \* the repositories audited

(* An entry of a tree as ls-tree -r lists it, subtrees resolved. *)
Entries ==
  [path : Paths, type : {"blob"}, mode : {"regular", "symlink"}, object : Blobs]
  \cup [path : Paths, type : {"commit"}, mode : {"gitlink"}, object : Commits]

Objects == Commits \cup Tags \cup Trees \cup Blobs

ASSUME ResultAssumption == None # Stopped /\ {} \notin {None, Stopped}

ASSUME PublicTreeAssumption ==
  /\ Commits \cap Blobs = {}
  /\ Blobs \cap {"absent", "symlink", "directory"} = {}
  /\ \A c \in Commits : TreeOf(c) \in Trees /\ ParentsOf(c) \subseteq Commits
  /\ \A t \in Tags : TargetOf(t) \in Objects
  /\ \A r \in Repositories :
       /\ r.refs \subseteq Objects
       /\ r.shallow \in BOOLEAN
       /\ r.private \subseteq Commits \cup Tags   \* by message or identity
       /\ r.entries \in [Trees -> SUBSET Entries]
       /\ r.worktree \in [Paths -> {"absent", "symlink", "directory"} \cup Blobs]

VARIABLES repo,     \* the repository and its working tree
          result    \* the failures the audit printed; None before it,
                    \* Stopped when it ended without a verdict

vars == <<repo, result>>

Init == repo \in Repositories /\ result = None

-----------------------------------------------------------------------------
(* Git *)

Links(r, o, throughParents) ==
  CASE o \in Commits -> {TreeOf(o)} \cup
                        (IF throughParents THEN ParentsOf(o) ELSE {})
    [] o \in Tags -> {TargetOf(o)}
    [] o \in Trees -> {e.object : e \in {f \in r.entries[o] : f.type = "blob"}}
    [] o \in Blobs -> {}

Closure(r, throughParents) ==
  LET grow[n \in 0..Cardinality(Objects)] ==
        IF n = 0 THEN r.refs
        ELSE LET known == grow[n - 1]
             IN known \cup UNION {Links(r, o, throughParents) : o \in known}
  IN grow[Cardinality(Objects)]

Reachable(r) == Closure(r, TRUE)

(* rev-list --objects --all; a shallow clone has no parents to follow. *)
Listed(r) == Closure(r, ~r.shallow)

-----------------------------------------------------------------------------
(* The audit; a failure names what it is about *)

Failure(subject, reason) == [subject |-> subject, reason |-> reason]

AuditPath(path) ==
  IF Naming(path) = "public" THEN {} ELSE {Failure(path, Naming(path))}

(* audit_blob: binary content is not searched for text, but it fails.      *)
AuditBlob(path, blob) ==
  AuditPath(path) \cup
  IF Content(blob) = "public" THEN {} ELSE {Failure(path, Content(blob))}

AuditCandidate(path, found) ==
  CASE found = "absent" -> {}
    [] found \in {"symlink", "directory"} -> {Failure(path, "not regular")}
    [] found \in Blobs ->
         IF Content(found) = "large" THEN {Failure(path, "large")}
         ELSE AuditBlob(path, found)

AuditWorktree(r) ==
  UNION {AuditCandidate(path, r.worktree[path]) : path \in Paths}

AuditMetadata(r) ==
  {Failure(o, "private metadata") :
     o \in {x \in Listed(r) : x \in r.private}}

RootTrees(r) == {TreeOf(c) : c \in Listed(r) \cap Commits}

(* Each entry once: the same blob under another name is another entry.     *)
EntriesOncePerBlob(r) ==
  LET all == UNION {r.entries[t] : t \in RootTrees(r)}
      first(o) == CHOOSE e \in all : e.object = o
  IN {first(e.object) : e \in all}

HistoricalEntries(r) == UNION {r.entries[t] : t \in RootTrees(r)}

AuditEntry(e) ==
  CASE e.mode # "regular" -> {Failure(e.path, "not regular")}
    [] e.mode = "regular" /\ Content(e.object) = "large" ->
         {Failure(e.path, "large")}
    [] OTHER -> AuditBlob(e.path, e.object)

(* A symlink's blob counts as contained, although the link itself fails.   *)
Contained(r) ==
  {e.object : e \in {f \in HistoricalEntries(r) : f.type = "blob"}}

Uncontained(r) ==
  {Failure(b, "not in a commit tree") :
     b \in (Listed(r) \cap Blobs) \ Contained(r)}

AuditAnyDepth(r) ==
  AuditMetadata(r) \cup Uncontained(r)
  \cup UNION {AuditEntry(e) : e \in HistoricalEntries(r)}

AuditHistory(r) ==
  (IF r.shallow THEN {Failure("history", "shallow")} ELSE {})
  \cup AuditAnyDepth(r)

Audit ==
  /\ result = None
  /\ result' = AuditWorktree(repo) \cup AuditHistory(repo)
  /\ UNCHANGED repo

(* Git or the file system fails under the audit, or a candidate's name is  *)
(* no UTF-8: the failures found so far go unprinted.                       *)
AuditStopped ==
  /\ result = None
  /\ result' = Stopped
  /\ UNCHANGED repo

Next == Audit \/ AuditStopped

Spec == Init /\ [][Next]_vars

-----------------------------------------------------------------------------
(* What the documents promise, from the objects and not from the walk      *)

Passed == result = {}

Finished == result \notin {None, Stopped}

OffendingEntry(e) ==
  \/ e.mode # "regular"
  \/ Naming(e.path) # "public"
  \/ Content(e.object) # "public"

(* The entries of the trees of commits.  The trees a tag or another ref    *)
(* reaches without a commit are left to EveryReachablePathScanned.         *)
CommittedEntries(r) ==
  UNION {r.entries[TreeOf(c)] : c \in Reachable(r) \cap Commits}

LooseBlobs(r) ==
  (Reachable(r) \cap Blobs) \ {e.object : e \in CommittedEntries(r)}

Public(r) ==
  /\ Reachable(r) \cap r.private = {}
  /\ \A e \in CommittedEntries(r) : ~OffendingEntry(e)
  /\ LooseBlobs(r) = {}
  /\ \A path \in Paths :
       r.worktree[path] # "absent" =>
         /\ r.worktree[path] \in Blobs
         /\ Content(r.worktree[path]) = "public" /\ Naming(path) = "public"

(* A pass means that no message or identity in reach of any ref is private, *)
(* that no commit, at any depth, has a private name or blob in its tree,    *)
(* under any of the names the blob ever had, that no blob is reachable      *)
(* without a commit, and that the history is there to say so: a shallow     *)
(* clone proves nothing.  Whatever has none of these faults passes, if git  *)
(* and the file system answer: a blob used twice or a tag is no failure.    *)
(* The names in a tree that only a tag reaches are not asked for here.      *)
PassesWhenPublic ==
  /\ Passed => Public(repo) /\ ~repo.shallow
  /\ Finished /\ Public(repo) /\ ~repo.shallow => Passed

(* The person who cleans up is told of each offending path of the commits,  *)
(* whatever other failures the audit prints.  An audit that git or the file *)
(* system stopped names none.                                               *)
EveryOffenderNamed ==
  Finished /\ ~repo.shallow =>
    \A e \in CommittedEntries(repo) :
      OffendingEntry(e) => \E f \in result : f.subject = e.path

(* README.md:176: the gate "scans every reachable historical path and      *)
(* blob", so a pass leaves no offending name in any tree in reach.  The    *)
(* names of a tree that a tag points at are never listed (lines 251-255).  *)
EveryReachablePathScanned ==
  Passed => \A t \in Reachable(repo) \cap Trees :
              \A e \in repo.entries[t] : ~OffendingEntry(e)

=============================================================================
