---------------------------- MODULE MCWorkspace -----------------------------
(* One video, two plans, two engines, one stray content.                   *)
EXTENDS Workspace

CONSTANTS s1, p1, p2, e1, e2, x, c1

MCDigests == Media \cup Plans \cup Manifests

LegacyDocument(stage) ==
  [schema_version |-> 1, revision |-> 1, content_id |-> c1,
   stage |-> stage, source |-> s1,
   approved_plan |-> IF stage = "REGISTERED" THEN None ELSE p1,
   master |-> IF stage \in Built
              THEN [sha256 |-> x, probe |-> x, source_sha256 |-> s1,
                    plan_sha256 |-> p1, engine |-> None]
              ELSE None,
   qa |-> IF stage \in {"QA_PASSED", "READY"}
          THEN [master_sha256 |-> x, probe |-> x, loudness |-> None,
                engine_sha256 |-> None]
          ELSE None,
   release_manifest |-> None]

MCLegacy ==
  {LegacyDocument(stage) :
     stage \in {"REGISTERED", "PLAN_APPROVED", "MASTER_READY", "QA_PASSED"}}

RenderOf(plan) == [source |-> s1, plan |-> plan, engine |-> e1]

(* Removal, a stray file, and the video, the plan or a master put back. *)
MCEditContents ==
  [source |-> {None, x, s1}, approved_plan |-> {None, x, p1},
   master |-> {None, x, RenderOf(p2)}, staged |-> {None, x, RenderOf(p2)},
   release_manifest |-> {None, x}]

MCBusyThings == Names \cup {"engine"}

MCBlind ==
  {<<"staged", "rendering">>, <<"staged", "hash">>,
   <<"approved_plan", "replace">>, <<"release_manifest", "replace">>}

=============================================================================
