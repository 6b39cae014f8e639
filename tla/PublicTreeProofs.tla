-------------------------- MODULE PublicTreeProofs ---------------------------
(***************************************************************************)
(* The audit is neither too lax nor too strict, for any repository and as  *)
(* far as the trees of commits go: what the walk of the script finds       *)
(* against what the objects are.  The names in a tree that only a tag      *)
(* reaches stay outside: MCPublicTreeTagged.cfg.                           *)
(***************************************************************************)
EXTENDS PublicTree, TLAPS

Audited ==
  /\ repo \in Repositories
  /\ Finished => result = AuditWorktree(repo) \cup AuditHistory(repo)

LEMMA AuditedAlways == Spec => []Audited
<1>1. Init => Audited
  BY DEF Init, Audited, Finished
<1>2. Audited /\ [Next]_vars => Audited'
  BY DEF Audited, Finished, Next, Audit, AuditStopped, vars
<1> QED BY <1>1, <1>2, PTL DEF Spec

-----------------------------------------------------------------------------
(* Parts of the audit *)

LEMMA OneFailure ==
  ASSUME NEW subject, NEW reason
  PROVE  /\ {Failure(subject, reason)} # {}
         /\ \A f \in {Failure(subject, reason)} : f.subject = subject
BY DEF Failure

LEMMA PathAudit ==
  ASSUME NEW path
  PROVE  /\ AuditPath(path) = {} <=> Naming(path) = "public"
         /\ \A f \in AuditPath(path) : f.subject = path
BY OneFailure DEF AuditPath

LEMMA BlobAudit ==
  ASSUME NEW path, NEW blob
  PROVE  /\ AuditBlob(path, blob) = {}
              <=> Naming(path) = "public" /\ Content(blob) = "public"
         /\ \A f \in AuditBlob(path, blob) : f.subject = path
<1> DEFINE found == IF Content(blob) = "public" THEN {} ELSE {Failure(path, Content(blob))}
<1>1. /\ found = {} <=> Content(blob) = "public"
      /\ \A f \in found : f.subject = path
  BY OneFailure
<1>2. AuditBlob(path, blob) = AuditPath(path) \cup found
  BY DEF AuditBlob
<1> HIDE DEF found
<1> QED BY <1>1, <1>2, PathAudit

LEMMA CandidateAudit ==
  ASSUME NEW path, NEW found \in {"absent", "symlink", "directory"} \cup Blobs
  PROVE  AuditCandidate(path, found) = {}
           <=> (found # "absent" => /\ found \in Blobs
                                    /\ Content(found) = "public"
                                    /\ Naming(path) = "public")
<1>1. CASE found \in Blobs
  <2>1. found \notin {"absent", "symlink", "directory"}
    BY <1>1, PublicTreeAssumption
  <2>2. AuditCandidate(path, found)
          = IF Content(found) = "large" THEN {Failure(path, "large")}
            ELSE AuditBlob(path, found)
    BY <1>1, <2>1 DEF AuditCandidate
  <2> QED BY <1>1, <2>1, <2>2, BlobAudit
<1>2. CASE found \in {"symlink", "directory"}
  <2>1. found \notin Blobs
    BY <1>2, PublicTreeAssumption
  <2> QED BY <1>2, <2>1 DEF AuditCandidate
<1>3. CASE found = "absent"
  <2>1. found \notin Blobs
    BY <1>3, PublicTreeAssumption
  <2> QED BY <1>3, <2>1 DEF AuditCandidate
<1> QED BY <1>1, <1>2, <1>3

LEMMA EntryAudit ==
  ASSUME NEW e
  PROVE  /\ AuditEntry(e) = {} <=> ~OffendingEntry(e)
         /\ \A f \in AuditEntry(e) : f.subject = e.path
<1>1. CASE e.mode # "regular"
  <2>1. AuditEntry(e) = {Failure(e.path, "not regular")}
    BY <1>1 DEF AuditEntry
  <2> QED BY <1>1, <2>1, OneFailure DEF OffendingEntry
<1>2. CASE e.mode = "regular" /\ Content(e.object) = "large"
  <2>1. AuditEntry(e) = {Failure(e.path, "large")}
    BY <1>2 DEF AuditEntry
  <2> QED BY <1>2, <2>1, OneFailure DEF OffendingEntry
<1>3. CASE e.mode = "regular" /\ Content(e.object) # "large"
  BY <1>3, BlobAudit DEF AuditEntry, OffendingEntry
<1> QED BY <1>1, <1>2, <1>3

(* A clone with its history lists what is reachable. *)
LEMMA ListedReachable ==
  ASSUME NEW r \in Repositories, ~r.shallow
  PROVE  /\ Listed(r) = Reachable(r)
         /\ HistoricalEntries(r) = CommittedEntries(r)
         /\ CommittedEntries(r) \subseteq Entries
<1>1. r.shallow = FALSE
  BY PublicTreeAssumption
<1>2. Listed(r) = Reachable(r)
  BY <1>1 DEF Listed, Reachable
<1>3. HistoricalEntries(r) = CommittedEntries(r)
  BY <1>2 DEF HistoricalEntries, CommittedEntries, RootTrees
<1>4. CommittedEntries(r) \subseteq Entries
  BY PublicTreeAssumption DEF CommittedEntries
<1> QED BY <1>2, <1>3, <1>4

(* Gitlinks contain no blob. *)
LEMMA UncontainedLoose ==
  ASSUME NEW r \in Repositories, ~r.shallow
  PROVE  Uncontained(r) = {} <=> LooseBlobs(r) = {}
<1>1. ASSUME NEW e \in CommittedEntries(r), e.object \in Blobs
      PROVE  e.type = "blob"
  BY <1>1, ListedReachable, PublicTreeAssumption DEF Entries
<1>2. \A b \in Blobs : b \in Contained(r)
                       <=> b \in {e.object : e \in CommittedEntries(r)}
  BY <1>1, ListedReachable DEF Contained
<1> QED BY <1>2, ListedReachable DEF Uncontained, LooseBlobs

LEMMA WorktreeAudit ==
  ASSUME NEW r \in Repositories
  PROVE  AuditWorktree(r) = {}
           <=> \A path \in Paths :
                 r.worktree[path] # "absent" =>
                   /\ r.worktree[path] \in Blobs
                   /\ Content(r.worktree[path]) = "public" /\ Naming(path) = "public"
<1>1. \A path \in Paths :
        r.worktree[path] \in {"absent", "symlink", "directory"} \cup Blobs
  BY PublicTreeAssumption
<1>2. AuditWorktree(r) = {}
        <=> \A path \in Paths : AuditCandidate(path, r.worktree[path]) = {}
  BY DEF AuditWorktree
<1> QED BY <1>1, <1>2, CandidateAudit

LEMMA HistoryAudit ==
  ASSUME NEW r \in Repositories
  PROVE  /\ r.shallow => AuditHistory(r) # {}
         /\ ~r.shallow =>
              (AuditHistory(r) = {}
                 <=> /\ Reachable(r) \cap r.private = {}
                     /\ \A e \in CommittedEntries(r) : ~OffendingEntry(e)
                     /\ LooseBlobs(r) = {})
<1>1. r.shallow => AuditHistory(r) # {}
  BY DEF AuditHistory
<1>2. ASSUME ~r.shallow
      PROVE  AuditHistory(r) = {}
               <=> /\ Reachable(r) \cap r.private = {}
                   /\ \A e \in CommittedEntries(r) : ~OffendingEntry(e)
                   /\ LooseBlobs(r) = {}
  <2>1. AuditHistory(r) = AuditAnyDepth(r)
    BY <1>2 DEF AuditHistory
  <2>2. AuditMetadata(r) = {} <=> Reachable(r) \cap r.private = {}
    BY <1>2, ListedReachable DEF AuditMetadata
  <2>3. UNION {AuditEntry(e) : e \in HistoricalEntries(r)} = {}
          <=> \A e \in CommittedEntries(r) : ~OffendingEntry(e)
    <3>1. UNION {AuditEntry(e) : e \in HistoricalEntries(r)} = {}
            <=> \A e \in CommittedEntries(r) : AuditEntry(e) = {}
      BY <1>2, ListedReachable
    <3> QED BY <3>1, EntryAudit
  <2>4. AuditAnyDepth(r) = {}
          <=> /\ AuditMetadata(r) = {}
              /\ UNION {AuditEntry(e) : e \in HistoricalEntries(r)} = {}
              /\ Uncontained(r) = {}
    <3> DEFINE found == UNION {AuditEntry(e) : e \in HistoricalEntries(r)}
    <3>1. AuditAnyDepth(r) = AuditMetadata(r) \cup Uncontained(r) \cup found
      BY DEF AuditAnyDepth
    <3> HIDE DEF found
    <3>2. AuditAnyDepth(r) = {}
            <=> AuditMetadata(r) = {} /\ found = {} /\ Uncontained(r) = {}
      BY <3>1
    <3> QED BY <3>2 DEF found
  <2> QED BY <1>2, <2>1, <2>2, <2>3, <2>4, UncontainedLoose
<1> QED BY <1>1, <1>2

(* A pass proves the commits' trees, the metadata and the blobs public, and *)
(* a finished audit of such a repository passes.                           *)
THEOREM PassesExactly == Spec => []PassesWhenPublic
<1>1. Audited => PassesWhenPublic
  <2> SUFFICES ASSUME Audited, Finished
               PROVE  Passed <=> Public(repo) /\ ~repo.shallow
    BY ResultAssumption DEF PassesWhenPublic, Passed, Finished
  <2>1. Passed <=> AuditWorktree(repo) = {} /\ AuditHistory(repo) = {}
    BY DEF Audited, Passed
  <2> QED BY <2>1, WorktreeAudit, HistoryAudit DEF Audited, Public
<1> QED BY <1>1, AuditedAlways, PTL

(* Each offending path of the commits is named by an audit that finishes.  *)
THEOREM OffendersNamed == Spec => []EveryOffenderNamed
<1>1. Audited => EveryOffenderNamed
  <2> SUFFICES ASSUME Audited, Finished, ~repo.shallow,
                      NEW e \in CommittedEntries(repo), OffendingEntry(e)
               PROVE  \E f \in result : f.subject = e.path
    BY DEF EveryOffenderNamed
  <2>1. PICK f \in AuditEntry(e) : f.subject = e.path
    BY EntryAudit
  <2>2. f \in AuditAnyDepth(repo)
    BY ListedReachable DEF AuditAnyDepth, Audited
  <2>3. f \in result
    BY <2>2 DEF Audited, AuditHistory
  <2> QED BY <2>1, <2>3
<1> QED BY <1>1, AuditedAlways, PTL

=============================================================================
