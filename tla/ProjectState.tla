---------------------------- MODULE ProjectState ----------------------------
(***************************************************************************)
(* The project state document (state.py): its five stages, what makes a    *)
(* document valid, and which document may follow which.                    *)
(*                                                                         *)
(* A SHA-256 is modelled by the bytes it names: two files have the same    *)
(* digest exactly when they hold the same bytes, the collision resistance  *)
(* the threat model assumes.  A field that is absent or malformed is None. *)
(* content_id stands for the identifier together with created_at: the code *)
(* treats the two alike.                                                   *)
(***************************************************************************)
EXTENDS Naturals

CONSTANTS None,      \* an absent file, an absent or malformed field
          Garbage,   \* a document that does not parse or fails its self-hash
          Ids,       \* content identifiers
          Digests,   \* contents of files, named by their digests
          Engines    \* captured media engine contracts

Stages == {"REGISTERED", "PLAN_APPROVED", "MASTER_READY", "QA_PASSED", "READY"}

(* NEXT_STAGE: READY has no successor. *)
NextStage ==
  [REGISTERED    |-> "PLAN_APPROVED",
   PLAN_APPROVED |-> "MASTER_READY",
   MASTER_READY  |-> "QA_PASSED",
   QA_PASSED     |-> "READY"]

Opt(S) == S \cup {None}

(* probe is the content the technical probe was made of. *)
Masters ==
  [sha256 : Digests, probe : Digests, source_sha256 : Digests,
   plan_sha256 : Digests, engine : Opt(Engines)]

Qas ==
  [master_sha256 : Digests, probe : Digests, loudness : Opt(Digests),
   engine_sha256 : Opt(Engines)]

States ==
  [schema_version : {1, 2}, revision : Nat, content_id : Ids,
   stage : Stages, source : Opt(Digests), approved_plan : Opt(Digests),
   master : Opt(Masters), qa : Opt(Qas), release_manifest : Opt(Digests)]

ASSUME SentinelsAssumption ==
  /\ None # Garbage
  /\ None \notin Digests \cup Engines \cup Masters \cup Qas \cup States
  /\ Garbage \notin States

Evidence == {"approved_plan", "master", "qa", "release_manifest"}

Built == {"MASTER_READY", "QA_PASSED", "READY"}

NewState(id, source) ==
  [schema_version |-> 2, revision |-> 0, content_id |-> id,
   stage |-> "REGISTERED", source |-> source, approved_plan |-> None,
   master |-> None, qa |-> None, release_manifest |-> None]

ValidMaster(s) ==
  /\ s.master # None
  /\ s.master.source_sha256 = s.source
  /\ s.master.plan_sha256 = s.approved_plan
  /\ s.schema_version = 2 => s.master.engine # None

ValidQa(s) ==
  /\ s.qa # None
  /\ s.schema_version = 2 => /\ s.qa.loudness # None
                             /\ s.qa.engine_sha256 = s.master.engine
                             /\ s.qa.master_sha256 = s.master.sha256

ValidState(s) ==
  /\ s \in States
  /\ s.source # None
  /\ s.stage # "REGISTERED" => s.approved_plan # None
  /\ s.stage \in Built => ValidMaster(s)
  /\ s.stage \in {"QA_PASSED", "READY"} => ValidQa(s)
  /\ s.stage = "READY" => s.release_manifest # None

(* Before the stage, not the document, decides: a missing entry of         *)
(* NEXT_STAGE is no target at all.                                         *)
Follows(current, target) ==
  current \in DOMAIN NextStage /\ NextStage[current] = target

CanAdvance(s, target) == ValidState(s) /\ Follows(s.stage, target)

Advance(s, target) == [s EXCEPT !.stage = target]

ImmutableKept(before, after) ==
  \A f \in {"schema_version", "content_id", "source"} : after[f] = before[f]

EvidenceKept(before, after) ==
  \A f \in Evidence : before[f] # None => after[f] = before[f]

ValidTransition(before, after) ==
  /\ ValidState(before)
  /\ ValidState(after)
  /\ Follows(before.stage, after.stage)
  /\ ImmutableKept(before, after)
  /\ EvidenceKept(before, after)

=============================================================================
