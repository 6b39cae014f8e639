------------------------------ MODULE Sessions -------------------------------
(***************************************************************************)
(* Several operators' commands on one machine: the processes, the two      *)
(* leases they take in turn and never wait for (the project's, then the    *)
(* machine's heavy lease), and the ffmpeg children that outlive a killed   *)
(* command.  What a command checks inside its leases is Workspace's; here  *)
(* are the parts that leases do not cover: init looks at the workspace     *)
(* before it holds one, demo encodes its source without one, and an orphan *)
(* encoder goes on writing when the kernel has freed both.                 *)
(*                                                                         *)
(* A lease is FileLease as its proof leaves it: at most one holder, freed  *)
(* at exit or kill.  A file is named by the encoder that created it, the   *)
(* operator's own video is Footage.                                        *)
(***************************************************************************)
EXTENDS Integers, FiniteSets

CONSTANTS None, Footage,
          Procs, Projects,
          Encoders,        \* names for ffmpeg processes, used once each
          MaxKills         \* bound on killed commands

ASSUME SessionsAssumption ==
  /\ MaxKills \in Nat
  /\ Procs # {}
  /\ None \notin Procs \cup Encoders /\ Footage \notin Encoders

VARIABLES files,     \* what each workspace holds under each managed name
          lease,     \* the holder of each lease
          proc,      \* the processes, their locals, the child started last
          encoder,   \* the ffmpeg processes
          kills

vars == <<files, lease, proc, encoder, kills>>

Names == {"source", "project", "staged", "receipt", "master", "lock"}

Heavy == "heavy media"

NoProc == [cmd |-> None, on |-> None, pc |-> "idle", child |-> None]

NotStarted == [pc |-> "none", on |-> None, target |-> None]

Init ==
  /\ files \in [Projects -> {[n \in Names |-> None],
                             [n \in Names |-> IF n = "source" THEN Footage
                                                              ELSE None]}]
  /\ lease = [l \in Projects \cup {Heavy} |-> None]
  /\ proc = [p \in Procs |-> NoProc]
  /\ encoder = [k \in Encoders |-> NotStarted]
  /\ kills = 0

-----------------------------------------------------------------------------

At(p, cmds, pc) == proc[p].cmd \in cmds /\ proc[p].pc = pc

Goto(p, pc) == proc' = [proc EXCEPT ![p].pc = pc]

Here(p) == files[proc[p].on]

Put(p, name, value) == files' = [files EXCEPT ![proc[p].on][name] = value]

Released(p) == [l \in DOMAIN lease |-> IF lease[l] = p THEN None ELSE lease[l]]

(* Whether it succeeded, failed or was refused, a command frees its leases. *)
Leave(p) == proc' = [proc EXCEPT ![p] = NoProc] /\ lease' = Released(p)

Exit(p) == Leave(p) /\ UNCHANGED <<files, encoder, kills>>

Acquire(p, l, pc) ==
  /\ IF lease[l] = None
     THEN lease' = [lease EXCEPT ![l] = p] /\ Goto(p, pc)
     ELSE Leave(p)                                       \* LeaseBusy
  /\ UNCHANGED <<encoder, kills>>

(* The lease file stays. *)
AcquireProject(p, pc) ==
  Acquire(p, proc[p].on, pc) /\ Put(p, "lock", TRUE)

Start(p, cmd, w) ==
  /\ proc[p] = NoProc
  /\ proc' = [proc EXCEPT ![p] =
                [cmd |-> cmd, on |-> w, child |-> None,
                 pc |-> CASE cmd = "init" -> "preflight"
                          [] cmd = "demo" -> "empty"
                          [] cmd = "build" -> "project lease"]]
  /\ UNCHANGED <<files, lease, encoder, kills>>

(* _run: the child is started; it opens its output when it gets there.     *)
Spawn(p, target) ==
  /\ \E k \in Encoders :
       /\ encoder[k] = NotStarted
       /\ encoder' = [encoder EXCEPT ![k] = [pc |-> "starting", target |-> target,
                                             on |-> proc[p].on]]
       /\ proc' = [proc EXCEPT ![p].pc = "encode", ![p].child = k]
  /\ UNCHANGED <<files, lease, kills>>

(* require_binary finds no ffmpeg, or it does not start. *)
NoEncoder(p) == proc[p].pc \in {"generate", "render"} /\ Exit(p)

Child(p) == encoder[proc[p].child]

WaitForAnyExit(p, pc) ==
  /\ proc[p].pc = "encode"
  /\ Child(p).pc \in {"ended", "failed"}
  /\ Goto(p, pc)
  /\ UNCHANGED <<files, lease, encoder, kills>>

WaitForExit(p, pc) ==
  /\ proc[p].pc = "encode"
  /\ Child(p).pc = "ended"
  /\ Goto(p, pc)
  /\ UNCHANGED <<files, lease, encoder, kills>>

ChildFailed(p) ==
  /\ proc[p].pc = "encode"
  /\ Child(p).pc = "failed"
  /\ Exit(p)

(* subprocess.run kills its child when the time is over. *)
Timeout(p) ==
  /\ proc[p].pc = "encode"
  /\ encoder' = [encoder EXCEPT ![proc[p].child].pc =
                   IF @ \in {"ended", "failed"} THEN @ ELSE "failed"]
  /\ Leave(p)
  /\ UNCHANGED <<files, kills>>

-----------------------------------------------------------------------------
(* demo, as far as its first init; the rest are commands like any other *)

DemoEmpty(p) ==
  /\ At(p, {"demo"}, "empty")
  /\ IF \A n \in Names : Here(p)[n] = None
     THEN Goto(p, "generate") /\ UNCHANGED lease
     ELSE Leave(p)
  /\ UNCHANGED <<files, encoder, kills>>

(* generate_synthetic_video, under no lease. *)
DemoGenerate(p) ==
  /\ At(p, {"demo"}, "generate")
  /\ IF Here(p)["source"] = None THEN Spawn(p, "source") ELSE Exit(p)

DemoGenerated(p) == At(p, {"demo"}, "encode") /\ WaitForExit(p, "preflight")

(* initialize; demo comes here too *)

Preflight(p) ==
  /\ At(p, {"init", "demo"}, "preflight")
  /\ IF \A n \in Names \ {"source", "lock"} : Here(p)[n] = None
     THEN Goto(p, "lease") /\ UNCHANGED lease
     ELSE Leave(p)
  /\ UNCHANGED <<files, encoder, kills>>

InitLease(p) ==
  At(p, {"init", "demo"}, "lease") /\ AcquireProject(p, "register")

(* Each operator gives a content id of his own. *)
Registration(p) == [source |-> Here(p)["source"], content_id |-> p]

RegisterAnyway(p) ==
  /\ At(p, {"init", "demo"}, "register")
  /\ IF Here(p)["source"] # None
     THEN Put(p, "project", Registration(p))
     ELSE UNCHANGED files
  /\ Leave(p)
  /\ UNCHANGED <<encoder, kills>>

(* StateStore.initialize looks at project.json again, under the lease.     *)
Register(p) ==
  /\ At(p, {"init", "demo"}, "register")
  /\ IF Here(p)["source"] # None /\ Here(p)["project"] = None
     THEN Put(p, "project", Registration(p))
     ELSE UNCHANGED files
  /\ Leave(p)
  /\ UNCHANGED <<encoder, kills>>

-----------------------------------------------------------------------------
(* build, of a project with an approved plan *)

BuildLease(p) ==
  At(p, {"build"}, "project lease") /\ AcquireProject(p, "heavy lease")

HeavyLease(p) ==
  /\ At(p, {"build"}, "heavy lease")
  /\ Acquire(p, Heavy, "checks")
  /\ UNCHANGED files

(* The finished build, the receipt to recover, the review cases, the start. *)
BuildChecks(p) ==
  /\ At(p, {"build"}, "checks")
  /\ LET f == Here(p)
     IN IF f["project"] = None \/ f["source"] # f["project"].source
        THEN Leave(p)
        ELSE CASE f["receipt"] # None -> Goto(p, "promote") /\ UNCHANGED lease
               [] f["receipt"] = None /\ {f["master"], f["staged"]} = {None} ->
                    Goto(p, "render") /\ UNCHANGED lease
               [] OTHER -> Leave(p)
  /\ UNCHANGED <<files, encoder, kills>>

(* render looks once more before it starts ffmpeg. *)
Render(p) ==
  /\ At(p, {"build"}, "render")
  /\ IF Here(p)["staged"] = None THEN Spawn(p, "staged") ELSE Exit(p)

Rendered(p) == At(p, {"build"}, "encode") /\ WaitForExit(p, "seal")

(* The checks of the staged file, and the receipt that names its bytes.    *)
Seal(p) ==
  /\ At(p, {"build"}, "seal")
  /\ IF Here(p)["staged"] = None
     THEN Leave(p) /\ UNCHANGED files
     ELSE /\ Put(p, "receipt", Here(p)["staged"])
          /\ Goto(p, "promote") /\ UNCHANGED lease
  /\ UNCHANGED <<encoder, kills>>

(* Link, unlink, registration and the receipt's removal: Workspace's steps. *)
Promote(p) ==
  /\ At(p, {"build"}, "promote")
  /\ IF Here(p)["staged"] = Here(p)["receipt"] /\ Here(p)["master"] = None
     THEN files' = [files EXCEPT ![proc[p].on] =
                      [@ EXCEPT !["master"] = Here(p)["staged"],
                                !["staged"] = None, !["receipt"] = None]]
     ELSE UNCHANGED files
  /\ Leave(p)
  /\ UNCHANGED <<encoder, kills>>

Command(p) ==
  \/ \E cmd \in {"init", "demo", "build"}, w \in Projects : Start(p, cmd, w)
  \/ NoEncoder(p) \/ ChildFailed(p) \/ Timeout(p)
  \/ DemoEmpty(p) \/ DemoGenerate(p) \/ DemoGenerated(p)
  \/ Preflight(p) \/ InitLease(p) \/ Register(p)
  \/ BuildLease(p) \/ HeavyLease(p) \/ BuildChecks(p) \/ Render(p)
  \/ Rendered(p) \/ Seal(p) \/ Promote(p)

-----------------------------------------------------------------------------
(* ffmpeg, the kernel and the operator *)

(* Without -y, ffmpeg creates its output or gives up. *)
Open(k) ==
  /\ encoder[k].pc = "starting"
  /\ LET w == encoder[k].on
         target == encoder[k].target
     IN IF files[w][target] = None
        THEN /\ files' = [files EXCEPT ![w][target] = k]
             /\ encoder' = [encoder EXCEPT ![k].pc = "writing"]
        ELSE /\ encoder' = [encoder EXCEPT ![k].pc = "failed"]
             /\ UNCHANGED files
  /\ UNCHANGED <<lease, proc, kills>>

(* Finished, or failed with what it wrote left behind. *)
End(k) ==
  /\ encoder[k].pc = "writing"
  /\ \E pc \in {"ended", "failed"} : encoder' = [encoder EXCEPT ![k].pc = pc]
  /\ UNCHANGED <<files, lease, proc, kills>>

(* The command dies and its leases are free; its child goes on. *)
Kill(p) ==
  /\ proc[p] # NoProc /\ kills < MaxKills
  /\ kills' = kills + 1
  /\ Leave(p)
  /\ UNCHANGED <<files, encoder>>

(* An operator told of an unregistered staging entry removes it, believing *)
(* the command that made it gone.                                          *)
RemoveStaged(w) ==
  /\ lease[w] = None
  /\ files[w]["staged"] # None /\ files[w]["receipt"] = None
  /\ files' = [files EXCEPT ![w]["staged"] = None]
  /\ UNCHANGED <<lease, proc, encoder, kills>>

Next ==
  \/ \E p \in Procs : Command(p) \/ Kill(p)
  \/ \E k \in Encoders : Open(k) \/ End(k)
  \/ \E w \in Projects : RemoveStaged(w)

Spec == Init /\ [][Next]_vars

-----------------------------------------------------------------------------
(* Properties *)

Writing == {k \in Encoders : encoder[k].pc = "writing"}

(* Nobody still writes to bytes a receipt or a registration speaks for,    *)
(* whatever was killed before and whatever the operator cleaned up.        *)
SealedBytesQuiet ==
  \A w \in Projects, n \in {"receipt", "master"}, k \in Writing :
    files[w][n] # k

(* A build seals what its own encoder made and finished, never a leftover  *)
(* or the work of another.                                                 *)
SealsOwnRender ==
  [][\A w \in Projects :
       files[w]["receipt"] = None /\ files'[w]["receipt"] # None
         => \E p \in Procs :
              /\ At(p, {"build"}, "seal") /\ proc[p].on = w
              /\ files'[w]["receipt"] = proc[p].child
              /\ Child(p).pc = "ended"]_vars

(* A project is registered once, in a workspace that holds nothing of an   *)
(* earlier one, although preflight looked before the lease was taken.      *)
RegisteredFresh ==
  [][\A w \in Projects :
       files[w]["project"] # files'[w]["project"]
         => \A n \in Names \ {"source", "lock"} : files[w][n] = None]_vars

(* case-study.md: "serialize machine-heavy operations".                    *)
OneEncoder == Cardinality(Writing) <= 1

=============================================================================
