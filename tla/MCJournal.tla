----------------------------- MODULE MCJournal ------------------------------
(* Two projects, two contents, one engine; documents of every stage.       *)
EXTENDS Journal

CONSTANTS c1, c2, a, b, e

Document(schema, id, src, plan, stage, rev) ==
  LET bytes == src
      m == [sha256 |-> bytes, probe |-> bytes, source_sha256 |-> src,
            plan_sha256 |-> plan,
            engine |-> IF schema = 2 THEN e ELSE None]
      q == [master_sha256 |-> bytes, probe |-> bytes,
            loudness |-> IF schema = 2 THEN bytes ELSE None,
            engine_sha256 |-> IF schema = 2 THEN e ELSE None]
  IN [schema_version |-> schema, revision |-> rev, content_id |-> id,
      stage |-> stage, source |-> src,
      approved_plan |-> IF stage = "REGISTERED" THEN None ELSE plan,
      master |-> IF stage \in Built THEN m ELSE None,
      qa |-> IF stage \in {"QA_PASSED", "READY"} THEN q ELSE None,
      release_manifest |-> IF stage = "READY" THEN b ELSE None]

Rank == [REGISTERED |-> 0, PLAN_APPROVED |-> 1, MASTER_READY |-> 2,
         QA_PASSED |-> 3, READY |-> 4]

Lawful(id, src, plan, stage) == Document(2, id, src, plan, stage, Rank[stage])

(* Lawful targets, other projects' documents, skipped stages, and QA       *)
(* evidence of other bytes.                                                *)
MCMutations ==
  {Document(schema, c1, src, plan, stage, 0) :
     schema \in {1, 2}, src \in {a, b}, plan \in {a, b}, stage \in Stages}
  \cup {Document(2, c2, a, a, stage, 0) : stage \in Stages}
  \cup {[Lawful(c1, a, a, "QA_PASSED") EXCEPT !.qa.master_sha256 = b]}

(* Restored backups, other branches of the same project, another project,  *)
(* a legacy project, an unlawful edit.                                     *)
MCForeignStates ==
  {Lawful(id, a, plan, stage) :
     id \in {c1, c2}, plan \in {a, b},
     stage \in {"REGISTERED", "PLAN_APPROVED", "MASTER_READY"}}
  \cup {Document(1, c1, a, a, "MASTER_READY", 2)}
  \cup {[Lawful(c1, a, a, "MASTER_READY") EXCEPT !.master.source_sha256 = b]}

(* Stale records of this project and of the other one, and unsound ones.   *)
MCForeignRecords ==
  {[before |-> Lawful(id, a, a, s), after |-> Lawful(id, a, plan, t)] :
     id \in {c1, c2}, plan \in {a, b},
     s \in {"REGISTERED", "PLAN_APPROVED"},
     t \in {"PLAN_APPROVED", "MASTER_READY"}}

MCEditPcs == {"idle", "prepare", "compare", "done", "failed"}

=============================================================================
