----------------------------- MODULE Durability -----------------------------
(***************************************************************************)
(* The store of Journal over a directory whose updates reach the disk      *)
(* later (atomic.py).  project and journal are the entries a program sees; *)
(* disk holds the entries a power loss would leave.  atomic_write_bytes    *)
(* syncs the new bytes before it gives them a name, so a name never leads  *)
(* to half a document; it then syncs the directory, as atomic_unlink does, *)
(* and the program goes on when all earlier updates are on disk.           *)
(*                                                                         *)
(* A kill or a failing fsync leaves the updates queued: the next program   *)
(* sees them, a power loss may still undo them.  Some file systems write   *)
(* directory updates back in their order, some do not.                     *)
(***************************************************************************)
EXTENDS Journal, SequencesExt

CONSTANT MaxKills   \* bound on processes stopped before their directory sync

ASSUME DurabilityAssumption == MaxKills \in Nat

VARIABLES ordered,   \* do entries reach the disk in the order of the calls?
          disk,      \* the entries a power loss would leave
          queue,     \* updates the disk does not have yet
          syncing,   \* is the program inside fsync_directory?
          told,      \* the revision a command last reported, -1 for none
          acked,     \* the same, of the reports made with nothing left queued
          kills      \* processes stopped with updates queued

durableVars == <<vars, ordered, disk, queue, syncing, told, acked, kills>>

NothingOnDisk == [project |-> None, journal |-> None]

DurableInit ==
  /\ Init
  /\ ordered \in BOOLEAN
  /\ disk = NothingOnDisk
  /\ queue = <<>>
  /\ syncing = FALSE
  /\ told = -1 /\ acked = -1
  /\ kills = 0

-----------------------------------------------------------------------------
(* The program *)

(* The name may reach the disk before bytes nobody synced. *)
EntryOfUnsyncedBytes(name, document) ==
  [name |-> name,
   document |-> IF document = None THEN None ELSE Garbage]

Entry(name, document) == [name |-> name, document |-> document]

Updates ==
  (IF project' = project THEN <<>> ELSE <<Entry("project", project')>>)
  \o (IF journal' = journal THEN <<>> ELSE <<Entry("journal", journal')>>)

(* os.replace or unlink: at once for every reader, queued for the disk. *)
Update(action) ==
  /\ ~syncing
  /\ action
  /\ queue' = queue \o Updates
  /\ syncing' = (Updates # <<>>)
  /\ UNCHANGED <<ordered, disk, told, acked, kills>>

Reported(revision) == told' = revision /\ acked' = revision

DirectoryAssumedSynced ==
  /\ syncing
  /\ syncing' = FALSE
  /\ IF tx.pc = "idle" THEN Reported(project.revision) ELSE UNCHANGED <<told, acked>>
  /\ UNCHANGED <<vars, ordered, disk, queue, kills>>

(* initialize has nothing left to do after its only sync. *)
DirectorySynced ==
  /\ syncing /\ queue = <<>>
  /\ syncing' = FALSE
  /\ IF tx.pc = "idle" THEN Reported(project.revision) ELSE UNCHANGED <<told, acked>>
  /\ UNCHANGED <<vars, ordered, disk, queue, kills>>

(* A command that wrote is back from its last directory sync. *)
Report ==
  /\ ~syncing
  /\ Return
  /\ IF tx.pc = "done" THEN Reported(project.revision) ELSE UNCHANGED <<told, acked>>
  /\ UNCHANGED <<ordered, disk, queue, syncing, kills>>

(* recover with no record, or build of a built project, prints the state it *)
(* loaded and syncs nothing, though a kill may have left updates queued.   *)
ReportUnchanged ==
  /\ ~syncing /\ tx.pc = "idle"
  /\ journal = None
  /\ ValidState(project)
  /\ told' = project.revision
  /\ acked' = IF queue = <<>> THEN project.revision ELSE acked
  /\ UNCHANGED <<vars, ordered, disk, queue, syncing, kills>>

(* Killed, or fsync_directory raised: nothing queued is taken back. *)
Kill ==
  /\ tx.pc # "idle" \/ syncing
  /\ queue # <<>> => kills < MaxKills
  /\ kills' = IF queue = <<>> THEN kills ELSE kills + 1
  /\ tx' = Idle
  /\ syncing' = FALSE
  /\ UNCHANGED <<project, journal, ordered, disk, queue, told, acked>>

-----------------------------------------------------------------------------
(* The file system *)

(* Two updates of one entry are never exchanged. *)
Writable(i) ==
  /\ ordered => i = 1
  /\ \A k \in 1..(i - 1) : queue[k].name # queue[i].name

Writeback(i) ==
  /\ Writable(i)
  /\ disk' = [disk EXCEPT ![queue[i].name] = queue[i].document]
  /\ queue' = RemoveAt(queue, i)
  /\ UNCHANGED <<vars, ordered, syncing, told, acked, kills>>

(* Only fsync and the order of the file system hold the updates together;  *)
(* where a kill has cut off the one and the other is missing, the disk is   *)
(* not resumed from.                                                       *)
HeldTogether == ordered \/ kills = 0

PowerLoss ==
  /\ HeldTogether
  /\ project' = disk.project
  /\ journal' = disk.journal
  /\ tx' = Idle
  /\ queue' = <<>>
  /\ syncing' = FALSE
  /\ UNCHANGED <<ordered, disk, told, acked, kills>>

DurableNext ==
  \/ \E id \in Ids, source \in Digests :
       Update(Initialize(NewState(id, source)))
  \/ \E s \in Mutations : Update(TransactBegin(s))
  \/ Update(Step) \/ Update(Recover)
  \/ DirectorySynced \/ Report \/ ReportUnchanged \/ Kill
  \/ \E i \in DOMAIN queue : Writeback(i)
  \/ PowerLoss

DurableSpec == DurableInit /\ [][DurableNext]_durableVars

(* A started program keeps running, the disk catches up, and an operator   *)
(* told RECOVERY_REQUIRED runs recover sooner or later.                    *)
FairDurableSpec ==
  /\ DurableSpec
  /\ WF_durableVars(Update(Step)) /\ WF_durableVars(Update(Recover))
  /\ WF_durableVars(Report) /\ WF_durableVars(DirectorySynced)
  /\ WF_durableVars(\E i \in DOMAIN queue : Writeback(i))

-----------------------------------------------------------------------------
(* Properties *)

(* Wherever the power goes, whole documents are under both names, and the   *)
(* next recover finds a sound record with project.json on one of its sides, *)
(* or no record: without kills, the directory syncs alone see to it on any *)
(* file system.                                                            *)
DiskOneSide ==
  /\ disk.project \in States \cup {None}
  /\ disk.journal \in Records \cup {None}
  /\ HeldTogether /\ disk.journal # None =>
       /\ Sound(disk.journal)
       /\ disk.project \in {disk.journal.before, disk.journal.after}

Surviving == IF disk.journal = None THEN disk.project ELSE disk.journal.after

Held(revision) == Surviving # None /\ Surviving.revision >= revision

(* No power loss takes back what a command that wrote has reported, even   *)
(* after kills that left updates queued.  A command with nothing to write  *)
(* does not sync: its report counts here only when no update was queued    *)
(* under it, see EveryReportSurvives.                                      *)
AckedSurvives == acked >= 0 => Held(acked)

(* While no directory sync has been cut off, no power loss takes back what  *)
(* any command has reported, the commands that wrote nothing included, on  *)
(* any file system.                                                        *)
ToldSurvives == told >= 0 /\ kills = 0 => Held(told)

(* Not so for every report: initialize killed between its rename and its    *)
(* directory sync, then recover, reports a revision a power loss undoes.   *)
EveryReportSurvives == told >= 0 => Held(told)

(* On a file system that keeps the order of its updates, what the disk     *)
(* would give back is itself a journalled project: a record that reached   *)
(* the disk is never undone, however kills and power losses alternate.     *)
DurableLifecycle ==
  INSTANCE Lifecycle WITH committed <- IF ordered THEN Surviving ELSE None,
                          visible <- IF ordered THEN disk.project ELSE None

DiskImplementsLifecycle == DurableLifecycle!Spec

(* Once kills and power losses stop, a pending record is rolled forward    *)
(* and reported, from whatever they left.                                  *)
PendingResolved ==
  <>[][~(Kill \/ PowerLoss)]_durableVars
    => [](journal # None => <>(journal = None /\ tx.pc = "idle"))

=============================================================================
