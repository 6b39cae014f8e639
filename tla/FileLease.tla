----------------------------- MODULE FileLease ------------------------------
(***************************************************************************)
(* FileLease (locks.py): the advisory, never-waiting lease that makes the  *)
(* commands of Workspace run one at a time.  Processes race through open,  *)
(* marker check, flock, second check, truncate and write on one path; the  *)
(* kernel drops the flock of a process that dies.                          *)
(*                                                                         *)
(* A lease file is an inode, so that a path removed and created again is   *)
(* another file.  Its content is Empty, Foreign (not a marker of this      *)
(* label) or the marker of a process.                                      *)
(***************************************************************************)
CONSTANTS Procs, Inodes,
          Absent,           \* no file at the path, no holder, no descriptor
          Empty, Foreign,   \* contents that are no marker
          Crashes,          \* may a process be killed?
          ForeignWrites,    \* may another program write the path?
          Removals          \* may someone delete the path?

ASSUME LeaseAssumption ==
  /\ Absent \notin Procs \cup Inodes
  /\ Empty # Foreign /\ {Empty, Foreign} \cap Procs = {}
  /\ {Crashes, ForeignWrites, Removals} \subseteq BOOLEAN

VARIABLES path,     \* the inode the lease path names
          content,  \* of each inode
          owner,    \* of the exclusive flock on each inode
          pc, fd,   \* of each process
          created,  \* did this process create the file it opened?
          refused,  \* why each process was last refused
          lost      \* holders whose file was deleted under them

vars == <<path, content, owner, pc, fd, created, refused, lost>>

Pcs == {"idle", "opened", "flock", "recheck", "truncate", "write", "held"}

TypeOK ==
  /\ path \in Inodes \cup {Absent}
  /\ content \in [Inodes -> Procs \cup {Empty, Foreign}]
  /\ owner \in [Inodes -> Procs \cup {Absent}]
  /\ pc \in [Procs -> Pcs]
  /\ fd \in [Procs -> Inodes \cup {Absent}]
  /\ created \in [Procs -> BOOLEAN]
  /\ refused \in [Procs -> {"no", "busy", "contract"}]
  /\ lost \in SUBSET Procs

Init ==
  /\ path = Absent
  /\ content = [i \in Inodes |-> Empty]
  /\ owner = [i \in Inodes |-> Absent]
  /\ pc = [p \in Procs |-> "idle"]
  /\ fd = [p \in Procs |-> Absent]
  /\ created = [p \in Procs |-> FALSE]
  /\ refused = [p \in Procs |-> "no"]
  /\ lost = {}

-----------------------------------------------------------------------------
(* __enter__ *)

Free(i) == path # i /\ \A p \in Procs : fd[p] # i

(* O_CREAT with O_EXCL *)
Create(p, i) ==
  /\ pc[p] = "idle" /\ path = Absent /\ Free(i)
  /\ path' = i
  /\ content' = [content EXCEPT ![i] = Empty]
  /\ fd' = [fd EXCEPT ![p] = i]
  /\ created' = [created EXCEPT ![p] = TRUE]
  /\ refused' = [refused EXCEPT ![p] = "no"]
  /\ pc' = [pc EXCEPT ![p] = "opened"]
  /\ UNCHANGED <<owner, lost>>

Open(p) ==
  /\ pc[p] = "idle" /\ path # Absent
  /\ fd' = [fd EXCEPT ![p] = path]
  /\ refused' = [refused EXCEPT ![p] = "no"]
  /\ pc' = [pc EXCEPT ![p] = "opened"]
  /\ UNCHANGED <<path, content, owner, created, lost>>

(* Closing the descriptor releases the flock this process had on it. *)
Close(p) ==
  /\ fd' = [fd EXCEPT ![p] = Absent]
  /\ owner' = [i \in Inodes |-> IF owner[i] = p THEN Absent ELSE owner[i]]
  /\ created' = [created EXCEPT ![p] = FALSE]
  /\ pc' = [pc EXCEPT ![p] = "idle"]
  /\ lost' = lost \ {p}
  /\ UNCHANGED <<path, content>>

Refuse(p, why) ==
  /\ Close(p)
  /\ refused' = [refused EXCEPT ![p] = why]

PathUnchecked(p) == created[p] \/ content[fd[p]] \in Procs

(* _assert_safe_identity, then _read_and_validate_marker unless created. *)
Acceptable(p) ==
  /\ path = fd[p]
  /\ created[p] \/ content[fd[p]] \in Procs

Check(p) ==
  /\ pc[p] = "opened"
  /\ \/ /\ Acceptable(p)
        /\ pc' = [pc EXCEPT ![p] = "flock"]
        /\ UNCHANGED <<path, content, owner, fd, created, refused, lost>>
     \/ ~Acceptable(p) /\ Refuse(p, "contract")

BlindFlock(p) ==
  /\ pc[p] = "flock"
  /\ owner' = [owner EXCEPT ![fd[p]] = p]
  /\ pc' = [pc EXCEPT ![p] = "recheck"]
  /\ UNCHANGED <<path, content, fd, created, refused, lost>>

Flock(p) ==
  /\ pc[p] = "flock"
  /\ \/ /\ owner[fd[p]] = Absent
        /\ owner' = [owner EXCEPT ![fd[p]] = p]
        /\ pc' = [pc EXCEPT ![p] = "recheck"]
        /\ UNCHANGED <<path, content, fd, created, refused, lost>>
     \/ owner[fd[p]] # Absent /\ Refuse(p, "busy")

RecheckSkipped(p) ==
  /\ pc[p] = "recheck"
  /\ pc' = [pc EXCEPT ![p] = "truncate"]
  /\ UNCHANGED <<path, content, owner, fd, created, refused, lost>>

Recheck(p) ==
  /\ pc[p] = "recheck"
  /\ \/ /\ Acceptable(p)
        /\ pc' = [pc EXCEPT ![p] = "truncate"]
        /\ UNCHANGED <<path, content, owner, fd, created, refused, lost>>
     \/ ~Acceptable(p) /\ Refuse(p, "contract")

Truncate(p) ==
  /\ pc[p] = "truncate"
  /\ content' = [content EXCEPT ![fd[p]] = Empty]
  /\ pc' = [pc EXCEPT ![p] = "write"]
  /\ UNCHANGED <<path, owner, fd, created, refused, lost>>

(* The marker is shorter than the stream's buffer: one write, at flush. *)
Write(p) ==
  /\ pc[p] = "write"
  /\ content' = [content EXCEPT ![fd[p]] = p]
  /\ pc' = [pc EXCEPT ![p] = "held"]
  /\ UNCHANGED <<path, owner, fd, created, refused, lost>>

-----------------------------------------------------------------------------

(* Past the last check: the process behaves as the owner from here. *)
Holding == {p \in Procs : pc[p] \in {"truncate", "write", "held"}}

(* __exit__ leaves the file and its marker. *)
Exit(p) ==
  /\ pc[p] = "held"
  /\ Close(p)
  /\ UNCHANGED refused

Crash(p) ==
  /\ Crashes
  /\ pc[p] # "idle"
  /\ Close(p)
  /\ UNCHANGED refused

(* A program that does not know the lease writes the path while nobody     *)
(* holds it, but not into the file a contender has just created: its       *)
(* creator does not look at the content again.                             *)
ForeignWrite ==
  /\ ForeignWrites
  /\ path # Absent /\ owner[path] = Absent
  /\ \A p \in Procs : fd[p] = path => ~created[p]
  /\ content' = [content EXCEPT ![path] = Foreign]
  /\ UNCHANGED <<path, owner, pc, fd, created, refused, lost>>

(* Someone deletes the lease file, at any time. *)
Remove ==
  /\ Removals
  /\ path # Absent
  /\ path' = Absent
  /\ lost' = lost \cup {p \in Holding : fd[p] = path}
  /\ UNCHANGED <<content, owner, pc, fd, created, refused>>

Enter(p) ==
  \/ \E i \in Inodes : Create(p, i)
  \/ Open(p) \/ Check(p) \/ Flock(p) \/ Recheck(p) \/ Truncate(p) \/ Write(p)

Next ==
  \/ \E p \in Procs : Enter(p) \/ Exit(p) \/ Crash(p)
  \/ ForeignWrite \/ Remove

Spec == Init /\ [][Next]_vars

-----------------------------------------------------------------------------
(* Properties *)

(* At most one process owns the lease, whatever is killed, overwritten or  *)
(* deleted, leaving out those whose lease file was deleted while they held *)
(* it: one that opened the old file before a deletion is refused.          *)
MutualExclusion == \A p, q \in Holding \ lost : p = q

(* What makes it so: the flock travels with the descriptor, and a holder   *)
(* has the file at the path unless it was deleted under it.                *)
LeaseInv ==
  /\ \A p \in Procs : /\ pc[p] = "idle" <=> fd[p] = Absent
                      /\ pc[p] \in {"recheck", "truncate", "write", "held"}
                           => owner[fd[p]] = p
  /\ \A i \in Inodes : owner[i] # Absent => fd[owner[i]] = i
  /\ \A p \in Holding \ lost : fd[p] = path

(* A holder's marker names it: no contender, refused or entering, writes   *)
(* into the file of another.                                               *)
MarkerNamesHolder == \A p \in Procs : pc[p] = "held" => content[fd[p]] = p

(* Bytes the lease does not own are never modified by a contender, even    *)
(* when they appear between its first check and its flock.                 *)
ForeignUntouched ==
  [][(\E p \in Procs : Enter(p)) /\ path # Absent /\ content[path] = Foreign
       => content'[path] = Foreign]_vars

(* What the failure model says of contention: a contender of a live,       *)
(* well-behaved owner is told LeaseBusy, never that the path is unsafe.    *)
ContenderToldBusy == \A p \in Procs : refused[p] # "contract"

(* What the refusal "retry after the owner exits" says: when no process    *)
(* uses the lease, its file is one the next contender accepts.             *)
RetryAfterExit ==
  (\A p \in Procs : pc[p] = "idle") /\ path # Absent => content[path] \in Procs

=============================================================================
