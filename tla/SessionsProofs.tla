--------------------------- MODULE SessionsProofs ----------------------------
(***************************************************************************)
(* What concurrent commands keep apart, for any number of operators,       *)
(* workspaces, encoders and kills: orphan encoders write on, yet no sealed *)
(* byte is theirs.                                                         *)
(***************************************************************************)
EXTENDS Sessions, TLAPS

ProcPcs == {"idle", "preflight", "empty", "project lease", "generate", "encode",
            "lease", "register", "heavy lease", "checks", "render", "seal",
            "promote"}

TypeOK ==
  /\ DOMAIN files = Projects /\ \A w \in Projects : DOMAIN files[w] = Names
  /\ DOMAIN lease = Projects \cup {Heavy}
  /\ proc \in [Procs -> [cmd : {"init", "demo", "build", None},
                         on : Projects \cup {None}, pc : ProcPcs,
                         child : Encoders \cup {None}]]
  /\ \A p \in Procs : proc[p].pc # "idle" =>
       /\ proc[p].on \in Projects
       /\ proc[p].pc = "encode" =>
            proc[p].child \in Encoders /\ encoder[proc[p].child].pc # "none"
  /\ encoder \in [Encoders -> [pc : {"none", "starting", "writing", "ended", "failed"},
                               on : Projects \cup {None},
                               target : {"source", "staged", None}]]
  /\ \A k \in Encoders : encoder[k].pc # "none" =>
       encoder[k].on \in Projects /\ encoder[k].target \in {"source", "staged"}

(* Where a command relies on its project's lease. *)
Leased(p) ==
  \/ At(p, {"init", "demo"}, "register")
  \/ proc[p].cmd = "build" /\ proc[p].pc \notin {"idle", "project lease"}

LeaseInv == \A p \in Procs : Leased(p) => lease[proc[p].on] = p

(* Nothing of a project exists, or is being made, before its registration. *)
FreshInv ==
  \A w \in Projects : files[w]["project"] = None =>
    /\ \A n \in {"staged", "receipt", "master"} : files[w][n] = None
    /\ \A k \in Encoders : encoder[k].pc # "none" /\ encoder[k].target = "staged"
                             => encoder[k].on # w
    /\ \A p \in Procs : proc[p].cmd = "build" /\ proc[p].on = w =>
         proc[p].pc \in {"idle", "project lease", "heavy lease", "checks"}

(* A build's encoder that got its file still has it when it has ended.     *)
RenderInv ==
  \A p \in Procs : At(p, {"build"}, "encode") \/ At(p, {"build"}, "seal") =>
    /\ proc[p].child \in Encoders
    /\ Child(p).pc # "none" /\ Child(p).target = "staged"
    /\ Child(p).on = proc[p].on
    /\ proc[p].pc = "seal" => Child(p).pc = "ended"
    /\ Child(p).pc \in {"writing", "ended"} => Here(p)["staged"] = proc[p].child

SealedInv ==
  \A w \in Projects, n \in {"receipt", "master"}, k \in Encoders :
    files[w][n] = k => encoder[k].pc \in {"ended", "failed"}

Inv == TypeOK /\ LeaseInv /\ FreshInv /\ RenderInv /\ SealedInv

-----------------------------------------------------------------------------
(* Steps by what they do to the processes *)

ProcType == [cmd : {"init", "demo", "build", None}, on : Projects \cup {None},
             pc : ProcPcs, child : Encoders \cup {None}]

Others(p) == \A q \in Procs \ {p} : proc'[q] = proc[q]

(* The command goes on at pc. *)
Moved(p, pc) ==
  /\ proc' \in [Procs -> ProcType] /\ Others(p)
  /\ proc'[p].cmd = proc[p].cmd /\ proc'[p].on = proc[p].on
  /\ proc'[p].pc = pc

(* The command is gone, with its leases. *)
Gone(p) ==
  /\ proc' \in [Procs -> ProcType] /\ Others(p)
  /\ proc'[p] = NoProc
  /\ DOMAIN lease' = DOMAIN lease
  /\ \A l \in DOMAIN lease : lease[l] # p => lease'[l] = lease[l]

LEMMA Gotos ==
  ASSUME TypeOK, NEW p \in Procs, NEW pc \in ProcPcs, Goto(p, pc)
  PROVE  Moved(p, pc) /\ proc'[p].child = proc[p].child
BY DEF TypeOK, Goto, Moved, Others, ProcType

LEMMA Leaves ==
  ASSUME TypeOK, NEW p \in Procs, Leave(p)
  PROVE  Gone(p)
<1>1. NoProc \in ProcType
  BY DEF NoProc, ProcType, ProcPcs
<1> QED
  BY <1>1 DEF TypeOK, Leave, Released, Gone, Others, ProcType

(* A command that takes a lease goes on, one that is refused leaves.       *)
LEMMA Acquires ==
  ASSUME TypeOK, NEW p \in Procs, NEW l \in Projects \cup {Heavy},
         NEW pc \in ProcPcs, Acquire(p, l, pc)
  PROVE  /\ UNCHANGED <<encoder, kills>>
         /\ \/ Gone(p)
            \/ /\ Moved(p, pc) /\ proc'[p].child = proc[p].child
               /\ DOMAIN lease' = DOMAIN lease /\ lease'[l] = p
               /\ \A m \in DOMAIN lease : lease[m] # None => lease'[m] = lease[m]
<1>1. CASE lease[l] = None
  <2>1. lease' = [lease EXCEPT ![l] = p] /\ Goto(p, pc)
    BY <1>1 DEF Acquire
  <2> QED
    BY <1>1, <2>1, Gotos DEF Acquire, TypeOK
<1>2. CASE lease[l] # None
  BY <1>2, Leaves DEF Acquire
<1> QED BY <1>1, <1>2

(* Every file but the lease file is left as it is. *)
SameFiles ==
  /\ DOMAIN files' = DOMAIN files
  /\ \A w \in Projects : DOMAIN files'[w] = DOMAIN files[w]
  /\ \A w \in Projects, n \in Names \ {"lock"} : files'[w][n] = files[w][n]

LEMMA LockPut ==
  ASSUME TypeOK, NEW p \in Procs, proc[p].pc # "idle",
         Put(p, "lock", TRUE) \/ UNCHANGED files
  PROVE  SameFiles
<1>1. CASE UNCHANGED files
  BY <1>1 DEF SameFiles
<1>2. CASE Put(p, "lock", TRUE)
  <2> DEFINE w == proc[p].on
             held == [files[w] EXCEPT !["lock"] = TRUE]
  <2>1. w \in Projects /\ DOMAIN files = Projects /\ DOMAIN files[w] = Names
    BY DEF TypeOK
  <2>2. files' = [files EXCEPT ![w] = held]
    BY <1>2 DEF Put
  <2>3. DOMAIN held = Names /\ \A n \in Names \ {"lock"} : held[n] = files[w][n]
    BY <2>1
  <2> QED BY <2>1, <2>2, <2>3 DEF SameFiles
<1> QED BY <1>1, <1>2

LEMMA SealedKeeps ==
  ASSUME SealedInv, SameFiles, UNCHANGED encoder
  PROVE  SealedInv'
BY DEF SealedInv, SameFiles, Names

LEMMA FreshKeeps ==
  ASSUME FreshInv, SameFiles, UNCHANGED encoder,
         \A w \in Projects, p \in Procs :
           /\ files[w]["project"] = None
           /\ proc'[p].cmd = "build" /\ proc'[p].on = w
           => \/ proc'[p] = proc[p]
              \/ proc'[p].pc \in {"idle", "project lease", "heavy lease", "checks"}
  PROVE  FreshInv'
<1> SUFFICES ASSUME NEW w \in Projects, files'[w]["project"] = None
             PROVE  /\ \A n \in {"staged", "receipt", "master"} : files'[w][n] = None
                    /\ \A k \in Encoders :
                         encoder'[k].pc # "none" /\ encoder'[k].target = "staged"
                           => encoder'[k].on # w
                    /\ \A p \in Procs : proc'[p].cmd = "build" /\ proc'[p].on = w =>
                         proc'[p].pc \in {"idle", "project lease", "heavy lease", "checks"}
  BY DEF FreshInv
<1>1. files[w]["project"] = None
  BY DEF SameFiles, Names
<1>2. \A n \in {"staged", "receipt", "master"} : files'[w][n] = None
  <2>1. {"staged", "receipt", "master"} \subseteq Names \ {"lock"}
    BY DEF Names
  <2>2. \A n \in {"staged", "receipt", "master"} : files[w][n] = None
    BY <1>1 DEF FreshInv
  <2> QED BY <2>1, <2>2 DEF SameFiles
<1>3. ASSUME NEW p \in Procs, proc'[p].cmd = "build", proc'[p].on = w
      PROVE  proc'[p].pc \in {"idle", "project lease", "heavy lease", "checks"}
  BY <1>1, <1>3 DEF FreshInv
<1> QED BY <1>1, <1>2, <1>3 DEF FreshInv

(* A command that leaves disturbs nobody. *)
LEMMA GoneKeeps ==
  ASSUME Inv, NEW p \in Procs, Gone(p), SameFiles, UNCHANGED encoder
  PROVE  Inv'
<1> USE DEF Inv
<1>1. NoProc.pc = "idle" /\ NoProc.cmd = None
  BY DEF NoProc
<1>2. TypeOK'
  BY <1>1 DEF TypeOK, Gone, Others, SameFiles, ProcType
<1>3. LeaseInv'
  <2> SUFFICES ASSUME NEW q \in Procs, Leased(q)' PROVE (lease[proc[q].on] = q)'
    BY DEF LeaseInv
  <2>1. q # p
    BY <1>1 DEF Leased, At, Gone
  <2>2. proc'[q] = proc[q] /\ proc[q].pc # "idle"
    BY <2>1 DEF Gone, Others, Leased, At
  <2>3. Leased(q) /\ lease[proc[q].on] = q
    BY <2>2 DEF Leased, At, LeaseInv
  <2> QED BY <2>1, <2>2, <2>3 DEF Gone, TypeOK
<1>4. FreshInv'
  BY <1>1, FreshKeeps DEF Gone, Others
<1>5. RenderInv'
  <2> SUFFICES ASSUME NEW q \in Procs, (At(q, {"build"}, "encode") \/ At(q, {"build"}, "seal"))'
               PROVE  q # p /\ proc'[q] = proc[q]
    BY DEF RenderInv, At, Child, Here, SameFiles, TypeOK, Names
  <2> QED BY <1>1 DEF At, Gone, Others
<1>6. SealedInv'
  BY SealedKeeps
<1> QED BY <1>2, <1>3, <1>4, <1>5, <1>6

(* Nor does one that goes on where it may. *)
LEMMA MovedKeeps ==
  ASSUME Inv, NEW p \in Procs, NEW pc \in ProcPcs, proc[p].pc # "idle",
         Moved(p, pc), proc'[p].child = proc[p].child, SameFiles, UNCHANGED encoder,
         DOMAIN lease' = DOMAIN lease,
         \A l \in DOMAIN lease : lease[l] # None => lease'[l] = lease[l],
         Leased(p)' => Leased(p) \/ lease'[proc[p].on] = p,
         pc # "encode",
         proc[p].cmd = "build" /\ pc = "seal" =>
           proc[p].pc = "encode" /\ Child(p).pc = "ended",
         proc[p].cmd = "build" /\ files[proc[p].on]["project"] = None =>
           pc \in {"project lease", "heavy lease", "checks"}
  PROVE  Inv'
<1> USE DEF Inv
<1>0. proc[p].on \in Projects
  BY DEF TypeOK
<1>1. \A q \in Procs : q # None
  BY SessionsAssumption
<1>2. TypeOK'
  <2>1. ASSUME NEW q \in Procs, proc'[q].pc # "idle"
        PROVE  /\ proc'[q].on \in Projects
               /\ proc'[q].pc = "encode" =>
                    /\ proc'[q].child \in Encoders
                    /\ encoder'[proc'[q].child].pc # "none"
    <3>1. CASE q = p
      BY <1>0, <3>1 DEF Moved
    <3>2. CASE q # p
      <4>1. proc'[q] = proc[q]
        BY <3>2 DEF Moved, Others
      <4> QED BY <2>1, <4>1 DEF TypeOK
    <3> QED BY <3>1, <3>2
  <2> QED BY <2>1 DEF TypeOK, Moved, SameFiles, ProcType
<1>3. LeaseInv'
  <2> SUFFICES ASSUME NEW q \in Procs, Leased(q)' PROVE (lease[proc[q].on] = q)'
    BY DEF LeaseInv
  <2>1. CASE q = p
    <3>1. proc'[q].on = proc[p].on /\ proc[p].on \in DOMAIN lease
      BY <1>0, <2>1 DEF Moved, TypeOK
    <3> QED BY <1>1, <2>1, <3>1 DEF LeaseInv
  <2>2. CASE q # p
    <3>1. proc'[q] = proc[q] /\ proc[q].pc # "idle"
      BY <2>2 DEF Moved, Others, Leased, At
    <3>2. Leased(q) /\ lease[proc[q].on] = q
      BY <3>1 DEF Leased, At, LeaseInv
    <3>3. proc[q].on \in DOMAIN lease
      BY <3>1 DEF TypeOK
    <3> QED BY <1>1, <3>1, <3>2, <3>3
  <2> QED BY <2>1, <2>2
<1>4. FreshInv'
  BY FreshKeeps DEF Moved, Others
<1>5. RenderInv'
  <2> SUFFICES ASSUME NEW q \in Procs, (At(q, {"build"}, "encode") \/ At(q, {"build"}, "seal"))'
               PROVE  (/\ proc[q].child \in Encoders
                       /\ Child(q).pc # "none" /\ Child(q).target = "staged"
                       /\ Child(q).on = proc[q].on
                       /\ proc[q].pc = "seal" => Child(q).pc = "ended"
                       /\ Child(q).pc \in {"writing", "ended"}
                            => Here(q)["staged"] = proc[q].child)'
    BY DEF RenderInv
  <2>1. /\ At(q, {"build"}, "encode") \/ At(q, {"build"}, "seal")
        /\ proc'[q].on = proc[q].on /\ proc'[q].child = proc[q].child
        /\ proc'[q].pc = "seal" => Child(q).pc = "ended"
    <3>1. CASE q = p
      BY <3>1 DEF At, Moved
    <3>2. CASE q # p
      BY <3>2 DEF At, Moved, Others, RenderInv
    <3> QED BY <3>1, <3>2
  <2>2. proc[q].on \in Projects
    BY <2>1 DEF TypeOK, At
  <2>3. Child(q)' = Child(q) /\ Here(q)'["staged"] = Here(q)["staged"]
    BY <2>1, <2>2 DEF Child, Here, SameFiles, Names
  <2> QED BY <2>1, <2>3 DEF RenderInv
<1>6. SealedInv'
  BY SealedKeeps
<1> QED BY <1>2, <1>3, <1>4, <1>5, <1>6

-----------------------------------------------------------------------------
(* The steps of a command *)

LEMMA StartStep ==
  ASSUME Inv, NEW p \in Procs, NEW cmd \in {"init", "demo", "build"},
         NEW w \in Projects, Start(p, cmd, w)
  PROVE  Inv'
<1> USE DEF Inv
<1> DEFINE pc == CASE cmd = "init" -> "preflight"
                   [] cmd = "demo" -> "empty"
                   [] cmd = "build" -> "project lease"
           new == [cmd |-> cmd, on |-> w, child |-> None, pc |-> pc]
<1>1. /\ pc \in {"preflight", "empty", "project lease"}
      /\ cmd = "build" => pc = "project lease"
  OBVIOUS
<1>2. /\ proc' = [proc EXCEPT ![p] = new]
      /\ UNCHANGED <<files, lease, encoder>>
  BY DEF Start
<1> HIDE DEF pc
<1>3. /\ new \in ProcType /\ new.cmd = cmd /\ new.pc = pc /\ new.on = w
  BY <1>1 DEF ProcType, ProcPcs
<1> HIDE DEF new
<1>4. proc' \in [Procs -> ProcType] /\ proc'[p] = new /\ Others(p)
  BY <1>2, <1>3 DEF TypeOK, ProcType, Others
<1>5. SameFiles
  BY <1>2 DEF SameFiles
<1>6. TypeOK'
  BY <1>1, <1>2, <1>3, <1>4 DEF TypeOK, Others, ProcType
<1>7. LeaseInv'
  BY <1>1, <1>2, <1>3, <1>4 DEF LeaseInv, Leased, At, Others
<1>8. FreshInv'
  BY <1>1, <1>2, <1>3, <1>4, <1>5, FreshKeeps DEF Others
<1>9. RenderInv'
  <2> SUFFICES ASSUME NEW q \in Procs, (At(q, {"build"}, "encode") \/ At(q, {"build"}, "seal"))'
               PROVE  proc'[q] = proc[q]
    BY <1>2 DEF RenderInv, At, Child, Here
  <2> QED BY <1>1, <1>3, <1>4 DEF At, Others
<1>10. SealedInv'
  BY <1>2, <1>5, SealedKeeps
<1> QED BY <1>6, <1>7, <1>8, <1>9, <1>10

(* What only moves the process, or ends it. *)
LEMMA LightStep ==
  ASSUME Inv, NEW p \in Procs,
         \/ NoEncoder(p) \/ ChildFailed(p) \/ DemoEmpty(p) \/ DemoGenerated(p)
         \/ Preflight(p) \/ InitLease(p) \/ BuildLease(p) \/ HeavyLease(p)
         \/ BuildChecks(p) \/ Rendered(p) \/ Kill(p)
  PROVE  Inv'
<1> USE DEF Inv
<1>1. ASSUME Leave(p), UNCHANGED <<files, encoder>>
      PROVE  Inv'
  BY <1>1, Leaves, GoneKeeps DEF SameFiles
<1>2. ASSUME NEW pc \in ProcPcs, Goto(p, pc), UNCHANGED <<files, lease, encoder>>,
             proc[p].pc # "idle", pc # "encode", Leased(p)' => Leased(p),
             proc[p].cmd = "build" /\ pc = "seal" =>
               proc[p].pc = "encode" /\ Child(p).pc = "ended",
             proc[p].cmd = "build" /\ files[proc[p].on]["project"] = None =>
               pc \in {"project lease", "heavy lease", "checks"}
      PROVE  Inv'
  BY <1>2, Gotos, MovedKeeps DEF SameFiles
<1>3. CASE NoEncoder(p) \/ ChildFailed(p) \/ Kill(p)
  BY <1>1, <1>3 DEF NoEncoder, ChildFailed, Kill, Exit
<1>4. CASE DemoEmpty(p)
  <2>1. CASE Leave(p)
    BY <1>1, <1>4, <2>1 DEF DemoEmpty
  <2>2. CASE Goto(p, "generate") /\ UNCHANGED lease
    <3>1. Moved(p, "generate") /\ proc[p].cmd = "demo"
      BY <1>4, <2>2, Gotos DEF DemoEmpty, At, ProcPcs
    <3> QED
      BY <1>2, <1>4, <2>2, <3>1 DEF DemoEmpty, At, ProcPcs, Leased, Moved
  <2> QED BY <1>4, <2>1, <2>2 DEF DemoEmpty
<1>5. CASE Preflight(p)
  <2>1. CASE Leave(p)
    BY <1>1, <1>5, <2>1 DEF Preflight
  <2>2. CASE Goto(p, "lease") /\ UNCHANGED lease
    <3>1. Moved(p, "lease") /\ proc[p].cmd \in {"init", "demo"}
      BY <1>5, <2>2, Gotos DEF Preflight, At, ProcPcs
    <3> QED
      BY <1>2, <1>5, <2>2, <3>1 DEF Preflight, At, ProcPcs, Leased, Moved
  <2> QED BY <1>5, <2>1, <2>2 DEF Preflight
<1>6. CASE DemoGenerated(p)
  <2>1. Moved(p, "preflight") /\ proc[p].cmd = "demo" /\ Goto(p, "preflight")
    BY <1>6, Gotos DEF DemoGenerated, WaitForExit, At, ProcPcs
  <2> QED
    BY <1>2, <1>6, <2>1 DEF DemoGenerated, WaitForExit, At, ProcPcs, Leased, Moved
<1>7. CASE Rendered(p)
  <2>1. /\ Moved(p, "seal") /\ Goto(p, "seal") /\ proc[p].cmd = "build"
        /\ Leased(p) /\ proc[p].pc = "encode" /\ Child(p).pc = "ended"
        /\ proc[p].on \in Projects
    BY <1>7, Gotos DEF Rendered, WaitForExit, At, ProcPcs, Leased, TypeOK
  <2>2. files[proc[p].on]["project"] # None
    BY <2>1 DEF FreshInv
  <2> QED
    BY <1>2, <1>7, <2>1, <2>2 DEF Rendered, WaitForExit, ProcPcs
<1>8. CASE BuildChecks(p)
  <2>1. CASE Leave(p)
    BY <1>1, <1>8, <2>1 DEF BuildChecks
  <2>2. CASE ~Leave(p)
    <3>1. PICK pc \in {"promote", "render"} :
            /\ Goto(p, pc) /\ UNCHANGED lease /\ Here(p)["project"] # None
      BY <1>8, <2>2 DEF BuildChecks
    <3>2. Leased(p)
      BY <1>8 DEF BuildChecks, At, Leased
    <3> QED
      BY <1>2, <1>8, <3>1, <3>2 DEF BuildChecks, At, Here, ProcPcs
  <2> QED BY <2>1, <2>2
<1>9. ASSUME NEW l \in Projects \cup {Heavy}, NEW pc \in ProcPcs, Acquire(p, l, pc),
             proc[p].pc # "idle", SameFiles, pc \notin {"encode", "seal"},
             Leased(p) \/ l = proc[p].on,
             proc[p].cmd = "build" => pc \in {"heavy lease", "checks"}
      PROVE  Inv'
  <2>1. CASE Gone(p)
    BY <1>9, <2>1, Acquires, GoneKeeps
  <2>2. CASE ~Gone(p)
    <3>1. /\ Moved(p, pc) /\ proc'[p].child = proc[p].child /\ UNCHANGED encoder
          /\ DOMAIN lease' = DOMAIN lease /\ lease'[l] = p
          /\ \A m \in DOMAIN lease : lease[m] # None => lease'[m] = lease[m]
      BY <1>9, <2>2, Acquires
    <3>2. Leased(p)' => Leased(p) \/ lease'[proc[p].on] = p
      BY <1>9, <3>1
    <3>3. proc[p].cmd = "build" => pc \in {"project lease", "heavy lease", "checks"}
      BY <1>9
    <3> HIDE DEF Inv
    <3> QED BY <1>9, <3>1, <3>2, <3>3, MovedKeeps
  <2> QED BY <2>1, <2>2
<1>10. CASE InitLease(p)
  <2>1. SameFiles /\ proc[p].pc # "idle" /\ proc[p].on \in Projects
    BY <1>10, LockPut DEF InitLease, AcquireProject, At, TypeOK
  <2> QED BY <1>9, <1>10, <2>1 DEF InitLease, AcquireProject, At, ProcPcs
<1>11. CASE BuildLease(p)
  <2>1. SameFiles /\ proc[p].pc # "idle" /\ proc[p].on \in Projects
    BY <1>11, LockPut DEF BuildLease, AcquireProject, At, TypeOK
  <2> QED BY <1>9, <1>11, <2>1 DEF BuildLease, AcquireProject, At, ProcPcs
<1>12. CASE HeavyLease(p)
  BY <1>9, <1>12 DEF HeavyLease, At, ProcPcs, SameFiles, Leased
<1> QED BY <1>3, <1>4, <1>5, <1>6, <1>7, <1>8, <1>10, <1>11, <1>12

-----------------------------------------------------------------------------
(* The steps that start, stop and run encoders *)

(* An encoder that has not ended may only go on as itself.                 *)
LEMMA SpawnStep ==
  ASSUME Inv, NEW p \in Procs, NEW target \in {"source", "staged"},
         Spawn(p, target), proc[p].pc # "idle",
         \/ proc[p].cmd # "build" /\ target = "source"
         \/ Leased(p) /\ target = "staged" /\ files[proc[p].on]["project"] # None
               /\ proc[p].cmd = "build"
  PROVE  Inv'
<1> USE DEF Inv
<1> DEFINE w == proc[p].on
<1>1. PICK k \in Encoders :
        /\ encoder[k] = NotStarted
        /\ encoder' = [encoder EXCEPT ![k] = [pc |-> "starting", target |-> target,
                                              on |-> w]]
        /\ proc' = [proc EXCEPT ![p].pc = "encode", ![p].child = k]
        /\ UNCHANGED <<files, lease>>
  BY DEF Spawn
<1>2. w \in Projects /\ encoder[k].pc = "none"
  BY <1>1 DEF TypeOK, NotStarted
<1>3. /\ proc' \in [Procs -> ProcType] /\ Others(p)
      /\ proc'[p].cmd = proc[p].cmd /\ proc'[p].on = w
      /\ proc'[p].pc = "encode" /\ proc'[p].child = k
  <2> DEFINE new == [proc[p] EXCEPT !.pc = "encode", !.child = k]
  <2>1. proc' = [proc EXCEPT ![p] = new]
    BY <1>1
  <2>2. proc \in [Procs -> ProcType] /\ "encode" \in ProcPcs
    BY DEF TypeOK, ProcType, ProcPcs
  <2>3. /\ new \in ProcType /\ new.cmd = proc[p].cmd /\ new.on = w
        /\ new.pc = "encode" /\ new.child = k
    BY <2>2 DEF ProcType
  <2> HIDE DEF new
  <2> QED BY <2>1, <2>2, <2>3 DEF Others
<1>4. /\ \A j \in Encoders \ {k} : encoder'[j] = encoder[j]
      /\ encoder'[k].pc = "starting" /\ encoder'[k].target = target
      /\ encoder'[k].on = w
      /\ encoder' \in [Encoders -> [pc : {"none", "starting", "writing", "ended", "failed"},
                                    on : Projects \cup {None},
                                    target : {"source", "staged", None}]]
  BY <1>1, <1>2 DEF TypeOK
<1>5. TypeOK'
  BY <1>1, <1>2, <1>3, <1>4 DEF TypeOK, ProcType, Others
<1>6. LeaseInv'
  BY <1>1, <1>3 DEF LeaseInv, Leased, At, Others
<1>7. FreshInv'
  <2> SUFFICES ASSUME NEW u \in Projects, files[u]["project"] = None
               PROVE  /\ \A j \in Encoders :
                           encoder'[j].pc # "none" /\ encoder'[j].target = "staged"
                             => encoder'[j].on # u
                      /\ \A q \in Procs : proc'[q].cmd = "build" /\ proc'[q].on = u =>
                           proc'[q].pc \in {"idle", "project lease", "heavy lease", "checks"}
    BY <1>1 DEF FreshInv
  <2>1. /\ \A j \in Encoders : encoder[j].pc # "none" /\ encoder[j].target = "staged"
                                => encoder[j].on # u
        /\ \A q \in Procs : proc[q].cmd = "build" /\ proc[q].on = u =>
             proc[q].pc \in {"idle", "project lease", "heavy lease", "checks"}
    BY DEF FreshInv
  <2>2. target = "staged" => w # u
    OBVIOUS
  <2>3. \A j \in Encoders : encoder'[j].pc # "none" /\ encoder'[j].target = "staged"
                             => encoder'[j].on # u
    BY <1>4, <2>1, <2>2
  <2>4. w = u => proc[p].cmd # "build"
    BY <2>2
  <2> QED BY <1>3, <2>1, <2>3, <2>4 DEF Others
<1>8. RenderInv'
  <2> SUFFICES ASSUME NEW q \in Procs, (At(q, {"build"}, "encode") \/ At(q, {"build"}, "seal"))'
               PROVE  (/\ proc[q].child \in Encoders
                       /\ Child(q).pc # "none" /\ Child(q).target = "staged"
                       /\ Child(q).on = proc[q].on
                       /\ proc[q].pc = "seal" => Child(q).pc = "ended"
                       /\ Child(q).pc \in {"writing", "ended"}
                            => Here(q)["staged"] = proc[q].child)'
    BY DEF RenderInv
  <2>1. CASE q = p
    BY <1>3, <1>4, <2>1 DEF At, Child
  <2>2. CASE q # p
    <3>1. proc'[q] = proc[q] /\ (At(q, {"build"}, "encode") \/ At(q, {"build"}, "seal"))
      BY <1>3, <2>2 DEF At, Others
    <3>2. Child(q).pc # "none" /\ proc[q].child \in Encoders
      BY <3>1 DEF RenderInv
    <3>3. Child(q)' = Child(q) /\ Here(q)' = Here(q)
      BY <1>1, <1>2, <1>4, <3>1, <3>2 DEF Child, Here
    <3> QED BY <3>1, <3>3 DEF RenderInv
  <2> QED BY <2>1, <2>2
<1>9. SealedInv'
  BY <1>1, <1>2, <1>4 DEF SealedInv
<1> QED BY <1>5, <1>6, <1>7, <1>8, <1>9

(* An encoder goes on or stops: what has ended stays so.                   *)
Went(k, pc) ==
  /\ \A j \in Encoders \ {k} : encoder'[j] = encoder[j]
  /\ encoder'[k].on = encoder[k].on /\ encoder'[k].target = encoder[k].target
  /\ encoder'[k].pc = pc
  /\ encoder' \in [Encoders -> [pc : {"none", "starting", "writing", "ended", "failed"},
                                on : Projects \cup {None},
                                target : {"source", "staged", None}]]

LEMMA EncoderGoes ==
  ASSUME TypeOK, NEW k \in Encoders,
         NEW pc \in {"none", "starting", "writing", "ended", "failed"},
         encoder' = [encoder EXCEPT ![k].pc = pc]
  PROVE  Went(k, pc)
BY DEF TypeOK, Went

(* Ending, with the files as they are. *)
LEMMA EndStep ==
  ASSUME Inv, NEW k \in Encoders, NEW pc \in {"ended", "failed"}, Went(k, pc),
         encoder[k].pc # "none",
         pc = "ended" => encoder[k].pc \in {"writing", "ended"},
         encoder[k].pc = "ended" => pc = "ended",
         UNCHANGED <<files, lease, proc>>
  PROVE  Inv'
<1> USE DEF Inv
<1>1. TypeOK'
  <2>1. ASSUME NEW q \in Procs, proc'[q].pc # "idle"
        PROVE  /\ proc'[q].on \in Projects
               /\ proc'[q].pc = "encode" =>
                    /\ proc'[q].child \in Encoders
                    /\ encoder'[proc'[q].child].pc # "none"
    BY <2>1 DEF TypeOK, Went
  <2>2. ASSUME NEW j \in Encoders, encoder'[j].pc # "none"
        PROVE  encoder'[j].on \in Projects /\ encoder'[j].target \in {"source", "staged"}
    BY <2>2 DEF TypeOK, Went
  <2> QED BY <2>1, <2>2 DEF TypeOK, Went
<1>2. LeaseInv'
  BY DEF LeaseInv, Leased, At
<1>3. FreshInv'
  <2> SUFFICES ASSUME NEW u \in Projects, files[u]["project"] = None,
                      NEW j \in Encoders, encoder'[j].pc # "none",
                      encoder'[j].target = "staged"
               PROVE  encoder'[j].on # u
    BY DEF FreshInv
  <2>1. encoder[j].pc # "none" /\ encoder[j].target = "staged"
          => encoder[j].on # u
    BY DEF FreshInv
  <2> QED BY <2>1 DEF Went
<1>4. RenderInv'
  <2> SUFFICES ASSUME NEW q \in Procs, At(q, {"build"}, "encode") \/ At(q, {"build"}, "seal")
               PROVE  (/\ proc[q].child \in Encoders
                       /\ Child(q).pc # "none" /\ Child(q).target = "staged"
                       /\ Child(q).on = proc[q].on
                       /\ proc[q].pc = "seal" => Child(q).pc = "ended"
                       /\ Child(q).pc \in {"writing", "ended"}
                            => Here(q)["staged"] = proc[q].child)'
    BY DEF RenderInv, At
  <2>1. CASE proc[q].child = k
    BY <2>1 DEF RenderInv, Child, Here, Went
  <2>2. CASE proc[q].child # k
    <3>1. Child(q)' = Child(q)
      BY <2>2 DEF RenderInv, Child, Went
    <3> QED BY <3>1 DEF RenderInv, Here
  <2> QED BY <2>1, <2>2
<1>5. SealedInv'
  BY DEF SealedInv, Went
<1> QED BY <1>1, <1>2, <1>3, <1>4, <1>5

(* A killed child, and then its command gone: two of the steps above.      *)
LEMMA TimeoutStep == ASSUME Inv, NEW p \in Procs, Timeout(p) PROVE Inv'
<1> USE DEF Inv
<1> DEFINE k == proc[p].child
           pc == IF encoder[k].pc \in {"ended", "failed"} THEN encoder[k].pc ELSE "failed"
<1>1. /\ k \in Encoders /\ encoder[k].pc # "none"
      /\ encoder' = [encoder EXCEPT ![k].pc = pc]
  BY DEF Timeout, TypeOK
<1>2. Went(k, pc) /\ pc \in {"ended", "failed"}
  BY <1>1, EncoderGoes
<1>3. Gone(p) /\ UNCHANGED files
  BY Leaves DEF Timeout
<1>0. pc = "ended" <=> encoder[k].pc = "ended"
  OBVIOUS
<1> HIDE DEF k, pc
<1>4. NoProc.pc = "idle" /\ NoProc.cmd = None
  BY DEF NoProc
<1>5. TypeOK'
  <2>1. \A j \in Encoders : encoder'[j].pc # "none" =>
          encoder'[j].on \in Projects /\ encoder'[j].target \in {"source", "staged"}
    <3> SUFFICES ASSUME NEW j \in Encoders, encoder'[j].pc # "none"
                 PROVE  encoder'[j].on \in Projects
                        /\ encoder'[j].target \in {"source", "staged"}
      OBVIOUS
    <3>1. CASE j = k
      BY <1>1, <1>2, <3>1 DEF TypeOK, Went
    <3>2. CASE j # k
      BY <1>2, <3>2 DEF TypeOK, Went
    <3> QED BY <3>1, <3>2
  <2>2. ASSUME NEW q \in Procs, proc'[q].pc # "idle"
        PROVE  /\ proc'[q].on \in Projects
               /\ proc'[q].pc = "encode" =>
                    /\ proc'[q].child \in Encoders
                    /\ encoder'[proc'[q].child].pc # "none"
    <3>1. proc'[q] = proc[q]
      BY <1>3, <1>4, <2>2 DEF Gone, Others
    <3> QED BY <1>2, <2>2, <3>1 DEF TypeOK, Went
  <2> QED
    BY <1>2, <1>3, <2>1, <2>2 DEF TypeOK, Went, Gone, ProcType
<1>6. LeaseInv'
  <2> SUFFICES ASSUME NEW q \in Procs, Leased(q)' PROVE (lease[proc[q].on] = q)'
    BY DEF LeaseInv
  <2>1. q # p
    BY <1>3, <1>4 DEF Leased, At, Gone
  <2>2. proc'[q] = proc[q] /\ proc[q].pc # "idle"
    BY <1>3, <2>1 DEF Gone, Others, Leased, At
  <2>3. Leased(q) /\ lease[proc[q].on] = q
    BY <2>2 DEF Leased, At, LeaseInv
  <2> QED BY <1>3, <2>1, <2>2, <2>3 DEF Gone, TypeOK
<1>7. FreshInv'
  <2> SUFFICES ASSUME NEW u \in Projects, files[u]["project"] = None
               PROVE  /\ \A j \in Encoders :
                           encoder'[j].pc # "none" /\ encoder'[j].target = "staged"
                             => encoder'[j].on # u
                      /\ \A q \in Procs : proc'[q].cmd = "build" /\ proc'[q].on = u =>
                           proc'[q].pc \in {"idle", "project lease", "heavy lease", "checks"}
    BY <1>3 DEF FreshInv
  <2>1. /\ \A j \in Encoders : encoder[j].pc # "none" /\ encoder[j].target = "staged"
                                => encoder[j].on # u
        /\ \A q \in Procs : proc[q].cmd = "build" /\ proc[q].on = u =>
             proc[q].pc \in {"idle", "project lease", "heavy lease", "checks"}
    BY DEF FreshInv
  <2>2. \A j \in Encoders : encoder'[j].pc # "none" /\ encoder'[j].target = "staged"
                             => encoder'[j].on # u
    <3> SUFFICES ASSUME NEW j \in Encoders, encoder'[j].pc # "none",
                        encoder'[j].target = "staged"
                 PROVE  encoder'[j].on # u
      OBVIOUS
    <3>1. CASE j # k
      BY <1>2, <2>1, <3>1 DEF Went
    <3>2. CASE j = k
      <4>1. encoder'[k].on = encoder[k].on /\ encoder'[k].target = encoder[k].target
        BY <1>2 DEF Went
      <4>2. encoder[k].pc # "none" /\ encoder[k].target = "staged" => encoder[k].on # u
        BY ONLY <1>1, <2>1
      <4>3. encoder'[k].target = "staged"
        BY <3>2
      <4>4. encoder'[k].on # u
        BY ONLY <1>1, <4>1, <4>2, <4>3
      <4> QED BY <3>2, <4>4
    <3> QED BY <3>1, <3>2
  <2>3. \A q \in Procs : proc'[q].cmd = "build" /\ proc'[q].on = u =>
          proc'[q].pc \in {"idle", "project lease", "heavy lease", "checks"}
    <3> SUFFICES ASSUME NEW q \in Procs, proc'[q].cmd = "build", proc'[q].on = u
                 PROVE  proc'[q].pc \in {"idle", "project lease", "heavy lease",
                                         "checks"}
      OBVIOUS
    <3>1. CASE q = p
      BY <1>3, <1>4, <3>1 DEF Gone
    <3>2. CASE q # p
      <4>1. proc'[q] = proc[q]
        BY <1>3, <3>2 DEF Gone, Others
      <4> QED BY <2>1, <4>1
    <3> QED BY <3>1, <3>2
  <2> QED BY <2>2, <2>3
<1>8. RenderInv'
  <2> SUFFICES ASSUME NEW q \in Procs, (At(q, {"build"}, "encode") \/ At(q, {"build"}, "seal"))'
               PROVE  (/\ proc[q].child \in Encoders
                       /\ Child(q).pc # "none" /\ Child(q).target = "staged"
                       /\ Child(q).on = proc[q].on
                       /\ proc[q].pc = "seal" => Child(q).pc = "ended"
                       /\ Child(q).pc \in {"writing", "ended"}
                            => Here(q)["staged"] = proc[q].child)'
    BY DEF RenderInv
  <2>1. proc'[q] = proc[q] /\ (At(q, {"build"}, "encode") \/ At(q, {"build"}, "seal"))
    BY <1>3, <1>4 DEF At, Gone, Others
  <2>2. Here(q)' = Here(q)
    BY <1>3, <2>1 DEF Here
  <2>3. CASE proc[q].child = k
    BY <1>0, <1>2, <2>1, <2>2, <2>3 DEF RenderInv, Child, Went
  <2>4. CASE proc[q].child # k
    <3>1. Child(q)' = Child(q)
      BY <1>2, <2>1, <2>4 DEF RenderInv, Child, Went
    <3> QED BY <2>1, <2>2, <3>1 DEF RenderInv
  <2> QED BY <2>3, <2>4
<1>9. SealedInv'
  BY <1>0, <1>2, <1>3 DEF SealedInv, Went
<1> QED BY <1>5, <1>6, <1>7, <1>8, <1>9

LEMMA EncoderStep ==
  ASSUME Inv, NEW k \in Encoders, Open(k) \/ End(k)
  PROVE  Inv'
<1> USE DEF Inv
<1>1. CASE End(k)
  <2>1. PICK pc \in {"ended", "failed"} : encoder' = [encoder EXCEPT ![k].pc = pc]
    BY <1>1 DEF End
  <2> QED BY <1>1, <2>1, EncoderGoes, EndStep DEF End
<1>2. CASE Open(k)
  <2> DEFINE w == encoder[k].on
             target == encoder[k].target
  <2>1. /\ w \in Projects /\ target \in {"source", "staged"}
        /\ encoder[k].pc = "starting" /\ UNCHANGED <<lease, proc>>
    BY <1>2 DEF Open, TypeOK
  <2>2. CASE files[w][target] # None
    <3>1. encoder' = [encoder EXCEPT ![k].pc = "failed"] /\ UNCHANGED files
      BY <1>2, <2>2 DEF Open
    <3> QED BY <2>1, <3>1, EncoderGoes, EndStep
  <2>3. CASE files[w][target] = None
    <3> DEFINE held == [files[w] EXCEPT ![target] = k]
    <3>1. /\ files' = [files EXCEPT ![w] = held]
          /\ encoder' = [encoder EXCEPT ![k].pc = "writing"]
      BY <1>2, <2>3 DEF Open
    <3>2. Went(k, "writing")
      BY <3>1, EncoderGoes
    <3>3. /\ DOMAIN files' = Projects /\ DOMAIN held = Names
          /\ files'[w] = held /\ held[target] = k
          /\ \A n \in Names \ {target} : held[n] = files[w][n]
          /\ \A u \in Projects \ {w} : files'[u] = files[u]
      BY <2>1, <3>1 DEF TypeOK, Names
    <3> HIDE DEF held, w, target
    <3>4. TypeOK'
      <4>1. ASSUME NEW q \in Procs, proc'[q].pc # "idle"
            PROVE  /\ proc'[q].on \in Projects
                   /\ proc'[q].pc = "encode" =>
                        /\ proc'[q].child \in Encoders
                        /\ encoder'[proc'[q].child].pc # "none"
        BY <2>1, <3>2, <4>1 DEF TypeOK, Went
      <4>2. ASSUME NEW j \in Encoders, encoder'[j].pc # "none"
            PROVE  encoder'[j].on \in Projects /\ encoder'[j].target \in {"source", "staged"}
        <5>1. encoder[j].pc # "none"
          BY <2>1, <3>2, <4>2 DEF Went
        <5> QED BY <3>2, <5>1 DEF TypeOK, Went
      <4> QED BY <2>1, <3>2, <3>3, <4>1, <4>2 DEF TypeOK, Went
    <3>5. LeaseInv'
      BY <2>1 DEF LeaseInv, Leased, At
    <3>6. FreshInv'
      <4> SUFFICES ASSUME NEW u \in Projects, files'[u]["project"] = None
                   PROVE  /\ \A n \in {"staged", "receipt", "master"} : files'[u][n] = None
                          /\ \A j \in Encoders :
                               encoder'[j].pc # "none" /\ encoder'[j].target = "staged"
                                 => encoder'[j].on # u
                          /\ \A p \in Procs : proc'[p].cmd = "build" /\ proc'[p].on = u =>
                               proc'[p].pc \in {"idle", "project lease", "heavy lease",
                                               "checks"}
        BY DEF FreshInv
      <4>1. files[u]["project"] = None
        BY <2>1, <3>3 DEF Names
      <4>2. /\ \A n \in {"staged", "receipt", "master"} : files[u][n] = None
            /\ \A j \in Encoders : encoder[j].pc # "none" /\ encoder[j].target = "staged"
                                  => encoder[j].on # u
            /\ \A p \in Procs : proc[p].cmd = "build" /\ proc[p].on = u =>
                 proc[p].pc \in {"idle", "project lease", "heavy lease", "checks"}
        BY <4>1 DEF FreshInv
      <4>3. u = w => target = "source"
        BY <2>1, <4>2 DEF w, target
      <4>4. \A j \in Encoders : encoder'[j].on = encoder[j].on
                                /\ encoder'[j].target = encoder[j].target
                                /\ (encoder'[j].pc # "none" => encoder[j].pc # "none")
        BY <2>1, <3>2 DEF Went
      <4>5. \A n \in {"staged", "receipt", "master"} : files'[u][n] = files[u][n]
        BY <3>3, <4>3 DEF Names
      <4> QED BY <2>1, <4>2, <4>4, <4>5
    <3>7. RenderInv'
      <4> SUFFICES ASSUME NEW q \in Procs, At(q, {"build"}, "encode") \/ At(q, {"build"}, "seal")
                   PROVE  (/\ proc[q].child \in Encoders
                           /\ Child(q).pc # "none" /\ Child(q).target = "staged"
                           /\ Child(q).on = proc[q].on
                           /\ proc[q].pc = "seal" => Child(q).pc = "ended"
                           /\ Child(q).pc \in {"writing", "ended"}
                                => Here(q)["staged"] = proc[q].child)'
        BY <2>1 DEF RenderInv, At
      <4>0. proc[q].on \in Projects
        BY DEF TypeOK, At
      <4>1. CASE proc[q].child = k
        <5>1. target = "staged" /\ w = proc[q].on /\ proc[q].pc # "seal"
          BY <2>1, <4>1 DEF RenderInv, Child, w, target
        <5>2. Here(q)'["staged"] = k
          BY <2>1, <3>3, <5>1 DEF Here
        <5>3. Child(q)' = encoder'[k]
          BY <2>1, <4>1 DEF Child
        <5> QED
          BY <2>1, <3>2, <4>1, <5>1, <5>2, <5>3 DEF Went, w, target
      <4>2. CASE proc[q].child # k
        <5>1. Child(q)' = Child(q)
          BY <2>1, <3>2, <4>2 DEF RenderInv, Child, Went
        <5>2. Child(q).pc \in {"writing", "ended"} => Here(q)["staged"] = proc[q].child
          BY DEF RenderInv
        <5>3. proc[q].child \in Encoders /\ proc[q].child # None
          BY SessionsAssumption DEF RenderInv
        <5>4. Here(q)["staged"] # None => Here(q)'["staged"] = Here(q)["staged"]
          BY <2>1, <2>3, <3>3, <4>0 DEF Here, Names, w, target
        <5> QED BY <2>1, <5>1, <5>2, <5>3, <5>4 DEF RenderInv
      <4> QED BY <4>1, <4>2
    <3>8. SealedInv'
      <4> SUFFICES ASSUME NEW u \in Projects, NEW n \in {"receipt", "master"},
                          NEW j \in Encoders, files'[u][n] = j
                   PROVE  encoder'[j].pc \in {"ended", "failed"}
        BY DEF SealedInv
      <4>1. files[u][n] = j
        BY <2>1, <3>3 DEF Names
      <4>2. encoder[j].pc \in {"ended", "failed"}
        BY <4>1 DEF SealedInv
      <4> QED BY <2>1, <3>2, <4>2 DEF Went
    <3> QED BY <3>4, <3>5, <3>6, <3>7, <3>8
  <2> QED BY <2>2, <2>3
<1> QED BY <1>1, <1>2

-----------------------------------------------------------------------------
(* The steps that write documents and move files *)

(* The lease's holder, or the operator of an idle workspace, writes there. *)
Written(w, held) ==
  /\ DOMAIN files' = Projects /\ DOMAIN held = Names
  /\ files'[w] = held
  /\ \A u \in Projects \ {w} : files'[u] = files[u]

LEMMA WriteStep ==
  ASSUME Inv, UNCHANGED encoder, NEW w \in Projects, NEW held, Written(w, held),
         \* the processes
         NEW p \in Procs,
         \/ UNCHANGED <<proc, lease>> /\ lease[w] = None
         \/ /\ Leased(p) /\ proc[p].on = w
            /\ \/ Gone(p)
               \/ Moved(p, "promote") /\ files[w]["project"] # None
                    /\ UNCHANGED lease,
         \* the files
         held["project"] = None =>
           /\ files[w]["project"] = None
           /\ \A n \in {"staged", "receipt", "master"} : held[n] = None,
         \A n \in {"receipt", "master"}, k \in Encoders :
           held[n] = k => encoder[k].pc \in {"ended", "failed"}
  PROVE  Inv'
<1> USE DEF Inv
<1>0. NoProc.pc = "idle" /\ NoProc.cmd = None /\ p # None
  BY SessionsAssumption DEF NoProc
<1>1. /\ proc' \in [Procs -> ProcType] /\ Others(p)
      /\ \/ proc'[p] = NoProc
         \/ proc'[p] = proc[p]
         \/ /\ proc'[p].pc = "promote" /\ Leased(p) /\ proc'[p].on = proc[p].on
            /\ proc'[p].cmd = proc[p].cmd
  BY DEF TypeOK, ProcType, Others, Gone, Moved
<1>2. /\ DOMAIN lease' = DOMAIN lease
      /\ \A l \in DOMAIN lease : lease[l] # p => lease'[l] = lease[l]
  BY DEF Gone
<1>3. TypeOK'
  <2>1. ASSUME NEW q \in Procs, proc'[q].pc # "idle"
        PROVE  /\ proc'[q].on \in Projects
               /\ proc'[q].pc = "encode" =>
                    /\ proc'[q].child \in Encoders
                    /\ encoder'[proc'[q].child].pc # "none"
    <3>1. CASE proc'[q] = proc[q]
      BY <2>1, <3>1 DEF TypeOK
    <3>2. CASE proc'[q] # proc[q]
      BY <1>0, <1>1, <2>1, <3>2 DEF Others
    <3> QED BY <3>1, <3>2
  <2>2. \A u \in Projects : DOMAIN files'[u] = Names
    BY DEF Written, TypeOK
  <2> QED BY <1>1, <1>2, <2>1, <2>2 DEF TypeOK, ProcType, Written
<1>4. LeaseInv'
  <2> SUFFICES ASSUME NEW q \in Procs, Leased(q)' PROVE (lease[proc[q].on] = q)'
    BY DEF LeaseInv
  <2>1. CASE q # p
    <3>1. proc'[q] = proc[q] /\ proc[q].on \in DOMAIN lease
      BY <1>1, <2>1 DEF Others, Leased, At, TypeOK
    <3>2. lease[proc[q].on] = q
      BY <3>1 DEF Leased, At, LeaseInv
    <3> QED BY <1>2, <2>1, <3>1, <3>2
  <2>2. CASE q = p
    <3>1. UNCHANGED lease /\ proc'[p].on = proc[p].on /\ Leased(p)
      BY <1>0, <2>2 DEF Leased, At, Gone, Moved
    <3> QED BY <2>2, <3>1 DEF LeaseInv
  <2> QED BY <2>1, <2>2
<1>5. FreshInv'
  <2> SUFFICES ASSUME NEW u \in Projects, files'[u]["project"] = None
               PROVE  /\ \A n \in {"staged", "receipt", "master"} : files'[u][n] = None
                      /\ \A j \in Encoders :
                           encoder[j].pc # "none" /\ encoder[j].target = "staged"
                             => encoder[j].on # u
                      /\ \A q \in Procs : proc'[q].cmd = "build" /\ proc'[q].on = u =>
                           proc'[q].pc \in {"idle", "project lease", "heavy lease",
                                           "checks"}
    BY DEF FreshInv
  <2>1. files[u]["project"] = None
    BY DEF Written
  <2>2. \A n \in {"staged", "receipt", "master"} : files'[u][n] = None
    <3>1. CASE u = w
      BY <3>1 DEF Written
    <3>2. CASE u # w
      <4>1. \A n \in {"staged", "receipt", "master"} : files[u][n] = None
        BY <2>1 DEF FreshInv
      <4> QED BY <3>2, <4>1 DEF Written
    <3> QED BY <3>1, <3>2
  <2>3. ASSUME NEW q \in Procs, proc'[q].cmd = "build", proc'[q].on = u
        PROVE  proc'[q].pc \in {"idle", "project lease", "heavy lease", "checks"}
    <3>1. CASE proc'[q] = proc[q]
      BY <2>1, <2>3, <3>1 DEF FreshInv
    <3>2. CASE q = p /\ proc'[p] = NoProc
      BY <1>0, <3>2
    <3>3. CASE proc'[q] # proc[q] /\ ~(q = p /\ proc'[p] = NoProc)
      BY <1>1, <2>1, <2>3, <3>3 DEF Others, Gone, Moved
    <3> QED BY <3>1, <3>2, <3>3
  <2> QED BY <2>1, <2>2, <2>3 DEF FreshInv
<1>6. RenderInv'
  <2> SUFFICES ASSUME NEW q \in Procs, (At(q, {"build"}, "encode") \/ At(q, {"build"}, "seal"))'
               PROVE  (/\ proc[q].child \in Encoders
                       /\ Child(q).pc # "none" /\ Child(q).target = "staged"
                       /\ Child(q).on = proc[q].on
                       /\ proc[q].pc = "seal" => Child(q).pc = "ended"
                       /\ Child(q).pc \in {"writing", "ended"}
                            => Here(q)["staged"] = proc[q].child)'
    BY DEF RenderInv
  <2>1. proc'[q] = proc[q]
    BY <1>0, <1>1 DEF At, Others
  <2>2. At(q, {"build"}, "encode") \/ At(q, {"build"}, "seal")
    BY <2>1 DEF At
  <2>3. lease[proc[q].on] = q /\ q # None /\ proc[q].on \in Projects
    BY <2>2, SessionsAssumption DEF LeaseInv, Leased, At, TypeOK
  <2>4. proc[q].on # w
    <3>1. CASE lease[w] = None
      BY <2>3, <3>1
    <3>2. CASE Leased(p) /\ proc[p].on = w /\ (Gone(p) \/ Moved(p, "promote"))
      <4>1. q # p
        BY <1>0, <2>1, <2>2, <3>2 DEF At, Gone, Moved
      <4> QED BY <2>3, <3>2, <4>1 DEF LeaseInv
    <3> QED BY <3>1, <3>2
  <2>5. Here(q)' = Here(q) /\ Child(q)' = Child(q)
    BY <2>1, <2>3, <2>4 DEF Here, Child, Written
  <2> QED BY <2>1, <2>2, <2>5 DEF RenderInv
<1>7. SealedInv'
  <2> SUFFICES ASSUME NEW u \in Projects, NEW n \in {"receipt", "master"},
                      NEW k \in Encoders, files'[u][n] = k
               PROVE  encoder[k].pc \in {"ended", "failed"}
    BY DEF SealedInv
  <2> QED BY DEF SealedInv, Written
<1> QED BY <1>3, <1>4, <1>5, <1>6, <1>7

LEMMA RegisterStep == ASSUME Inv, NEW p \in Procs, Register(p) PROVE Inv'
<1> USE DEF Inv
<1> DEFINE w == proc[p].on
           held == [files[w] EXCEPT !["project"] = Registration(p)]
<1>1. Leased(p) /\ w \in Projects /\ Leave(p) /\ UNCHANGED encoder
  BY DEF Register, Leased, At, TypeOK
<1>2. CASE UNCHANGED files
  BY <1>1, <1>2, Leaves, GoneKeeps DEF SameFiles
<1>3. CASE files' # files
  <2>1. files' = [files EXCEPT ![w] = held] /\ files[w]["project"] = None
    BY <1>3 DEF Register, Put, Here
  <2>2. Written(w, held) /\ \A n \in Names \ {"project"} : held[n] = files[w][n]
    BY <1>1, <2>1 DEF Written, TypeOK
  <2> HIDE DEF held
  <2>3. \A n \in {"staged", "receipt", "master"} : held[n] = files[w][n]
    BY <2>2 DEF Names
  <2>4. \A n \in {"staged", "receipt", "master"} : held[n] = None
    BY <1>1, <2>1, <2>3 DEF FreshInv
  <2>5. \A n \in {"receipt", "master"}, k \in Encoders :
          held[n] = k => encoder[k].pc \in {"ended", "failed"}
    BY <2>4, SessionsAssumption
  <2> HIDE DEF w, Inv
  <2> QED BY <1>1, <2>1, <2>2, <2>4, <2>5, Leaves, WriteStep DEF w, Inv
<1> QED BY <1>2, <1>3

LEMMA SealStep == ASSUME Inv, NEW p \in Procs, Seal(p) PROVE Inv'
<1> USE DEF Inv
<1> DEFINE w == proc[p].on
           held == [files[w] EXCEPT !["receipt"] = files[w]["staged"]]
<1>1. /\ Leased(p) /\ w \in Projects /\ UNCHANGED encoder
      /\ proc[p].cmd = "build" /\ proc[p].pc = "seal"
  BY DEF Seal, Leased, At, TypeOK
<1>2. CASE files[w]["staged"] = None
  BY <1>2, Leaves, GoneKeeps DEF Seal, Here, SameFiles
<1>3. CASE files[w]["staged"] # None
  <2>1. /\ files' = [files EXCEPT ![w] = held]
        /\ Goto(p, "promote") /\ UNCHANGED lease
    BY <1>3 DEF Seal, Put, Here
  <2>2. files[w]["project"] # None
    BY <1>1 DEF FreshInv
  <2>3. /\ Written(w, held) /\ held["receipt"] = files[w]["staged"]
        /\ \A n \in Names \ {"receipt"} : held[n] = files[w][n]
    BY <1>1, <2>1 DEF Written, TypeOK, Names
  <2> HIDE DEF held
  <2>4. held["project"] # None /\ held["master"] = files[w]["master"]
    BY <2>2, <2>3 DEF Names
  <2>5. /\ files[w]["staged"] = proc[p].child /\ proc[p].child \in Encoders
        /\ encoder[proc[p].child].pc = "ended"
    BY <1>1 DEF RenderInv, At, Child, Here
  <2>6. \A n \in {"receipt", "master"}, k \in Encoders :
          held[n] = k => encoder[k].pc \in {"ended", "failed"}
    BY <1>1, <2>3, <2>4, <2>5 DEF SealedInv
  <2>7. Moved(p, "promote")
    BY <2>1, Gotos DEF ProcPcs
  <2> HIDE DEF w, Inv
  <2> QED BY <1>1, <2>1, <2>2, <2>3, <2>4, <2>6, <2>7, WriteStep DEF w, Inv
<1> QED BY <1>2, <1>3

LEMMA PromoteStep == ASSUME Inv, NEW p \in Procs, Promote(p) PROVE Inv'
<1> USE DEF Inv
<1> DEFINE w == proc[p].on
           held == [files[w] EXCEPT !["master"] = files[w]["staged"],
                                    !["staged"] = None, !["receipt"] = None]
<1>1. /\ Leased(p) /\ w \in Projects /\ Leave(p) /\ UNCHANGED encoder
      /\ proc[p].cmd = "build" /\ proc[p].pc = "promote"
  BY DEF Promote, Leased, At, TypeOK
<1>2. CASE UNCHANGED files
  BY <1>1, <1>2, Leaves, GoneKeeps DEF SameFiles
<1>3. CASE files' # files
  <2>1. files' = [files EXCEPT ![w] = held] /\ files[w]["staged"] = files[w]["receipt"]
    BY <1>3 DEF Promote, Here
  <2>2. files[w]["project"] # None
    BY <1>1 DEF FreshInv
  <2>3. /\ Written(w, held) /\ held["receipt"] = None
        /\ held["master"] = files[w]["receipt"] /\ held["project"] = files[w]["project"]
    BY <1>1, <2>1 DEF Written, TypeOK, Names
  <2> HIDE DEF held
  <2>4. \A n \in {"receipt", "master"}, k \in Encoders :
          held[n] = k => encoder[k].pc \in {"ended", "failed"}
    BY <1>1, <2>3, SessionsAssumption DEF SealedInv
  <2> HIDE DEF w, Inv
  <2> QED BY <1>1, <2>1, <2>2, <2>3, <2>4, Leaves, WriteStep DEF w, Inv
<1> QED BY <1>2, <1>3

LEMMA RemoveStep ==
  ASSUME Inv, NEW w \in Projects, NEW p \in Procs, RemoveStaged(w)
  PROVE  Inv'
<1> USE DEF Inv
<1> DEFINE held == [files[w] EXCEPT !["staged"] = None]
<1>1. /\ files' = [files EXCEPT ![w] = held] /\ lease[w] = None
      /\ files[w]["staged"] # None /\ UNCHANGED <<lease, proc, encoder>>
  BY DEF RemoveStaged
<1>2. files[w]["project"] # None
  BY <1>1 DEF FreshInv
<1>3. /\ Written(w, held)
      /\ \A n \in {"project", "receipt", "master"} : held[n] = files[w][n]
  BY <1>1 DEF Written, TypeOK, Names
<1> HIDE DEF held
<1>4. \A n \in {"receipt", "master"}, k \in Encoders :
        held[n] = k => encoder[k].pc \in {"ended", "failed"}
  BY <1>3 DEF SealedInv
<1> HIDE DEF Inv
<1> QED BY <1>1, <1>2, <1>3, <1>4, WriteStep

LEMMA InvInit == Init => Inv
<1> SUFFICES ASSUME Init PROVE Inv
  OBVIOUS
<1>1. /\ NoProc \in ProcType /\ NoProc.pc = "idle" /\ NoProc.cmd = None
      /\ \A p \in Procs : proc[p] = NoProc
      /\ proc \in [Procs -> ProcType]
  BY DEF Init, NoProc, ProcType, ProcPcs
<1>2. /\ NotStarted.pc = "none" /\ \A k \in Encoders : encoder[k] = NotStarted
      /\ encoder \in [Encoders -> [pc : {"none", "starting", "writing", "ended", "failed"},
                                   on : Projects \cup {None},
                                   target : {"source", "staged", None}]]
  BY DEF Init, NotStarted
<1>3. /\ DOMAIN files = Projects
      /\ \A w \in Projects : /\ DOMAIN files[w] = Names
                             /\ \A n \in Names \ {"source"} : files[w][n] = None
  BY DEF Init
<1>4. TypeOK
  BY <1>1, <1>2, <1>3 DEF TypeOK, Init, ProcType
<1>5. LeaseInv /\ RenderInv
  BY <1>1 DEF LeaseInv, RenderInv, Leased, At
<1>6. FreshInv
  BY <1>1, <1>2, <1>3 DEF FreshInv, Names
<1>7. SealedInv
  BY <1>3, SessionsAssumption DEF SealedInv, Names
<1> QED BY <1>4, <1>5, <1>6, <1>7 DEF Inv

LEMMA InvStep == Inv /\ [Next]_vars => Inv'
<1> SUFFICES ASSUME Inv, [Next]_vars PROVE Inv'
  OBVIOUS
<1>1. ASSUME NEW p \in Procs, Command(p)
      PROVE  Inv'
  <2>1. CASE \E cmd \in {"init", "demo", "build"}, w \in Projects : Start(p, cmd, w)
    BY <2>1, StartStep
  <2>2. CASE DemoGenerate(p)
    <3>1. CASE Here(p)["source"] = None
      BY <2>2, <3>1, SpawnStep DEF DemoGenerate, At
    <3>2. CASE Here(p)["source"] # None
      <4>1. NoEncoder(p)
        BY <2>2, <3>2 DEF DemoGenerate, NoEncoder, At
      <4> QED BY <4>1, LightStep
    <3> QED BY <3>1, <3>2
  <2>3. CASE Render(p)
    <3>1. CASE Here(p)["staged"] = None
      <4>1. /\ Spawn(p, "staged") /\ Leased(p) /\ proc[p].cmd = "build"
            /\ proc[p].pc = "render" /\ proc[p].on \in Projects
        BY <2>3, <3>1 DEF Render, Leased, At, Inv, TypeOK
      <4>2. files[proc[p].on]["project"] # None
        BY <4>1 DEF Inv, FreshInv
      <4> QED BY <4>1, <4>2, SpawnStep
    <3>2. CASE Here(p)["staged"] # None
      <4>1. NoEncoder(p)
        BY <2>3, <3>2 DEF Render, NoEncoder, At
      <4> QED BY <4>1, LightStep
    <3> QED BY <3>1, <3>2
  <2> QED
    BY <1>1, <2>1, <2>2, <2>3, LightStep, TimeoutStep, RegisterStep, SealStep,
       PromoteStep DEF Command
<1>2. ASSUME NEW p \in Procs, Kill(p) PROVE Inv'
  BY <1>2, LightStep
<1>3. ASSUME NEW k \in Encoders, Open(k) \/ End(k) PROVE Inv'
  BY <1>3, EncoderStep
<1>4. ASSUME NEW w \in Projects, RemoveStaged(w) PROVE Inv'
  BY <1>4, RemoveStep, SessionsAssumption
<1>5. CASE UNCHANGED vars
  <2>1. UNCHANGED <<files, lease, proc, encoder>>
    BY <1>5 DEF vars
  <2>2. TypeOK'
    BY <2>1 DEF Inv, TypeOK
  <2>3. LeaseInv' /\ RenderInv'
    BY <2>1 DEF Inv, LeaseInv, Leased, RenderInv, At, Child, Here
  <2>4. FreshInv' /\ SealedInv'
    BY <2>1, FreshKeeps, SealedKeeps DEF Inv, SameFiles
  <2> QED BY <2>2, <2>3, <2>4 DEF Inv
<1> QED BY <1>1, <1>2, <1>3, <1>4, <1>5 DEF Next

(* Who writes receipts and registrations. *)
LEMMA FilesWritten ==
  ASSUME TypeOK, Next, NEW w \in Projects,
         NEW n \in {"receipt", "project"}, files'[w][n] # files[w][n]
  PROVE  /\ n = "project" => files[w][n] = None
         /\ n = "receipt" /\ files'[w][n] # None =>
              \E p \in Procs : Seal(p) /\ proc[p].on = w
<1>1. ASSUME NEW p \in Procs, Command(p) \/ Kill(p)
      PROVE  /\ n = "project" => files[w][n] = None
             /\ n = "receipt" /\ files'[w][n] # None => Seal(p) /\ proc[p].on = w
  <2>1. proc[p].pc # "idle" => proc[p].on \in Projects
    BY DEF TypeOK
  <2>2. CASE Register(p)
    <3>1. w = proc[p].on => files' = [files EXCEPT ![w]["project"] = Registration(p)]
      BY <2>2 DEF Register, Put
    <3> QED BY <2>2 DEF Register, Put, Here, TypeOK, Names
  <2>3. CASE Seal(p)
    BY <2>3 DEF Seal, Put, TypeOK, Names
  <2>4. CASE Promote(p)
    BY <2>4 DEF Promote, TypeOK, Names
  <2>5. CASE ~(Register(p) \/ Seal(p) \/ Promote(p))
    <3>1. files' = files \/ (proc[p].pc # "idle" /\ Put(p, "lock", TRUE))
      BY <1>1, <2>5 DEF Command, Kill, Start, NoEncoder, ChildFailed, Timeout,
         DemoEmpty, DemoGenerate, DemoGenerated, Preflight, InitLease, BuildLease,
         HeavyLease, BuildChecks, Render, Rendered, Spawn, Exit, WaitForExit, At,
         AcquireProject
    <3>2. SameFiles
      BY <3>1, LockPut DEF SameFiles
    <3> QED BY <3>2 DEF SameFiles, Names
  <2> QED BY <2>2, <2>3, <2>4, <2>5
<1>2. ASSUME NEW k \in Encoders, Open(k) \/ End(k) PROVE FALSE
  <2>1. CASE End(k)
    BY <2>1 DEF End
  <2>2. CASE Open(k)
    BY <2>2 DEF Open, TypeOK, Names
  <2> QED BY <1>2, <2>1, <2>2
<1>3. ASSUME NEW u \in Projects, RemoveStaged(u) PROVE FALSE
  BY <1>3 DEF RemoveStaged, TypeOK, Names
<1> QED BY <1>1, <1>2, <1>3 DEF Next

THEOREM SessionsInvariant == Spec => []Inv
BY InvInit, InvStep, PTL DEF Spec

(* Nobody still writes to bytes a receipt or a registration speaks for.    *)
THEOREM SealedStaysQuiet == Spec => []SealedBytesQuiet
<1>1. Inv => SealedBytesQuiet
  BY DEF Inv, SealedInv, SealedBytesQuiet, Writing
<1> QED BY <1>1, SessionsInvariant, PTL

(* A receipt appears only over what the build's own encoder finished.      *)
THEOREM BuildsSealTheirOwn == Spec => SealsOwnRender
<1>1. Inv /\ [Next]_vars
        => [\A w \in Projects :
              files[w]["receipt"] = None /\ files'[w]["receipt"] # None
                => \E p \in Procs :
                     /\ At(p, {"build"}, "seal") /\ proc[p].on = w
                     /\ files'[w]["receipt"] = proc[p].child
                     /\ Child(p).pc = "ended"]_vars
  <2> SUFFICES ASSUME Inv, Next, NEW w \in Projects, files[w]["receipt"] = None,
                      files'[w]["receipt"] # None
               PROVE  \E p \in Procs :
                        /\ At(p, {"build"}, "seal") /\ proc[p].on = w
                        /\ files'[w]["receipt"] = proc[p].child
                        /\ Child(p).pc = "ended"
    OBVIOUS
  <2>1. PICK p \in Procs : Seal(p) /\ proc[p].on = w
    BY FilesWritten DEF Inv
  <2>2. /\ At(p, {"build"}, "seal") /\ Here(p)["staged"] = proc[p].child
        /\ Child(p).pc = "ended"
    BY <2>1 DEF Seal, Inv, RenderInv, At
  <2>3. files'[w]["receipt"] = Here(p)["staged"]
    <3>1. Here(p)["staged"] # None
      BY <2>1 DEF Seal
    <3> QED BY <2>1, <3>1 DEF Seal, Put, Here, Inv, TypeOK, Names
  <2> QED BY <2>1, <2>2, <2>3
<1> QED BY <1>1, SessionsInvariant, PTL DEF Spec, SealsOwnRender

(* A project is registered once, where nothing of an earlier one is left.  *)
THEOREM RegistersFresh == Spec => RegisteredFresh
<1>1. Inv /\ [Next]_vars
        => [\A w \in Projects :
              files[w]["project"] # files'[w]["project"]
                => \A n \in Names \ {"source", "lock"} : files[w][n] = None]_vars
  <2> SUFFICES ASSUME Inv, Next, NEW w \in Projects,
                      files[w]["project"] # files'[w]["project"]
               PROVE  \A n \in Names \ {"source", "lock"} : files[w][n] = None
    OBVIOUS
  <2>1. files[w]["project"] = None
    BY FilesWritten DEF Inv
  <2> QED BY <2>1 DEF Inv, FreshInv, Names
<1> QED BY <1>1, SessionsInvariant, PTL DEF Spec, RegisteredFresh

=============================================================================
