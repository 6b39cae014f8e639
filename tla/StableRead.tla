----------------------------- MODULE StableRead ------------------------------
(***************************************************************************)
(* stable_sha256_file and stable_read_bytes (hashing.py) against programs  *)
(* that change the file meanwhile.  The reader opens the path, takes the   *)
(* identity of what it opened, reads chunk by chunk to the end, and takes  *)
(* the identity of the open file and of the path again: device, inode,     *)
(* size and modification time must not have changed.                       *)
(*                                                                         *)
(* A chunk is one element of a file's bytes.  A digest is the bytes it was *)
(* made of.  FineClock says whether any two changes get different times.   *)
(***************************************************************************)
EXTENDS Integers, Sequences

CONSTANTS None, Error, Symlink,
          Inodes,      \* regular files
          Chunks,      \* contents of a chunk
          MaxSize,     \* bound on the chunks of a file
          MaxBytes,    \* the chunks stable_read_bytes accepts at most
          MaxEdits,    \* bound on changes
          FineClock

Contents == UNION {[1..n -> Chunks] : n \in 0..MaxSize}

Results == [bytes : Seq(Chunks), size : Nat]

ASSUME StableReadAssumption ==
  /\ {MaxSize, MaxBytes, MaxEdits} \subseteq Nat
  /\ FineClock \in BOOLEAN
  /\ {None, Error, Symlink} \cap Inodes = {}
  /\ None # Error
  /\ None \notin Contents \cup Results /\ Error \notin Results

VARIABLES inodes,    \* each file's bytes and modification time
          path,      \* what the path names
          clock,     \* the time a change gets
          edits,     \* changes so far
          reader,    \* the running call and its locals
          answer,    \* what the last call returned, None while it runs
          disturbed, \* has anything changed since the running call began?
          versions   \* what the path has held since then

worldVars == <<inodes, path, clock, edits>>
historyVars == <<disturbed, versions>>
vars == <<worldVars, reader, answer, historyVars>>

Identity(i) ==
  [inode |-> i, size |-> Len(inodes[i].bytes), mtime |-> inodes[i].mtime]

Content == IF path \in Inodes THEN inodes[path].bytes ELSE None

At(pc) == reader.pc = pc

Idle == [pc |-> "idle", bounded |-> FALSE, fd |-> None, before |-> None,
         after |-> None, data |-> <<>>]

Init ==
  /\ inodes \in [Inodes -> [bytes : Contents, mtime : {0}]]
  /\ path \in Inodes \cup {None, Symlink}
  /\ clock = IF FineClock THEN 1 ELSE 0
  /\ edits = 0
  /\ reader = Idle
  /\ answer = Error
  /\ disturbed = FALSE
  /\ versions = {}

-----------------------------------------------------------------------------
(* The reader *)

Finish(result) ==
  /\ answer' = result
  /\ reader' = Idle
  /\ disturbed' = FALSE /\ versions' = {}
  /\ UNCHANGED worldVars

Fail == Finish(Error)

Begin(bounded) ==
  /\ At("idle")
  /\ reader' = [Idle EXCEPT !.pc = "open", !.bounded = bounded]
  /\ answer' = None
  /\ disturbed' = FALSE
  /\ versions' = {Content}
  /\ UNCHANGED worldVars

(* _safe_read_fd: O_NOFOLLOW, then fstat of what was opened.               *)
Open ==
  /\ At("open") /\ path \in Inodes
  /\ reader' = [reader EXCEPT !.pc = "fstat", !.fd = path]
  /\ UNCHANGED <<worldVars, answer, historyVars>>

CannotOpen ==
  /\ At("open") /\ path \notin Inodes
  /\ Fail

IdentityAtOpen ==
  /\ At("fstat")
  /\ reader' = [reader EXCEPT !.pc = "read", !.before = Identity(reader.fd)]
  /\ UNCHANGED <<worldVars, answer, historyVars>>

FitsStrictly == reader.bounded => Len(reader.data) < MaxBytes

Fits == reader.bounded => Len(reader.data) <= MaxBytes

Bytes == inodes[reader.fd].bytes

AtEnd == Len(reader.data) >= Len(Bytes)

ReadChunk ==
  /\ At("read") /\ Fits /\ ~AtEnd
  /\ reader' = [reader EXCEPT !.data = Append(@, Bytes[Len(@) + 1])]
  /\ UNCHANGED <<worldVars, answer, historyVars>>

TooLarge == At("read") /\ ~Fits /\ Fail

IdentityAtEnd ==
  /\ At("read") /\ Fits /\ AtEnd
  /\ reader' = [reader EXCEPT !.pc = "verify", !.after = Identity(reader.fd)]
  /\ UNCHANGED <<worldVars, answer, historyVars>>

SameSizeAndFile ==
  /\ path = reader.fd
  /\ {reader.before.size, reader.after.size} = {Len(Bytes)}

(* _verify_open_identity *)
Unchanged ==
  /\ reader.before = reader.after
  /\ path \in Inodes
  /\ reader.after = Identity(path)

Return ==
  /\ At("verify") /\ Unchanged
  /\ Finish([bytes |-> reader.data,
             size |-> IF reader.bounded THEN Len(reader.data)
                      ELSE reader.after.size])

Changed == At("verify") /\ ~Unchanged /\ Fail

Read ==
  \/ \E bounded \in BOOLEAN : Begin(bounded)
  \/ Open \/ CannotOpen \/ IdentityAtOpen \/ ReadChunk \/ TooLarge
  \/ IdentityAtEnd \/ Return \/ Changed

-----------------------------------------------------------------------------
(* Other programs *)

Edit ==
  /\ edits < MaxEdits
  /\ edits' = edits + 1
  /\ disturbed' = ~At("idle")
  /\ versions' = IF At("idle") THEN {} ELSE versions \cup {Content'}
  /\ clock' \in {clock + 1} \cup (IF FineClock THEN {} ELSE {clock})
  /\ UNCHANGED <<reader, answer>>

(* In place: overwritten, truncated or appended to, possibly with what it had. *)
Rewrite(i, bytes) ==
  /\ inodes' = [inodes EXCEPT ![i] = [bytes |-> bytes, mtime |-> clock]]
  /\ UNCHANGED path
  /\ Edit

(* Renamed over, removed, or a symbolic link put in its place.             *)
Rename(target) ==
  /\ target # path
  /\ path' = target
  /\ UNCHANGED inodes
  /\ Edit

World ==
  \/ \E i \in Inodes, bytes \in Contents : Rewrite(i, bytes)
  \/ \E target \in Inodes \cup {None, Symlink} : Rename(target)

Next == Read \/ World

Spec == Init /\ [][Next]_vars

-----------------------------------------------------------------------------
(* Properties *)

(* A returned digest is of the bytes the path holds at that instant: no     *)
(* mixture of two versions, none of a file the path no longer names.        *)
Snapshot == INSTANCE SnapshotRead WITH content <- Content

ImplementsSnapshot == Snapshot!Spec

(* What coarse clocks leave of it (architecture.md: "reject mutation during  *)
(* the read"): the digest is of some version of the file, not of the front  *)
(* of one and the end of another.                                           *)
DigestOfOneVersion ==
  [][answer = None /\ answer' \notin {None, Error}
       => answer'.bytes \in versions]_vars

(* A call that nothing disturbs fails only for what the path names, or for  *)
(* a document over the limit: quiet files are never reported as changed.    *)
RefusedOnlyForCause ==
  [][answer = None /\ answer' = Error /\ ~disturbed
       => \/ path \notin Inodes
          \/ reader.bounded /\ Len(inodes[path].bytes) > MaxBytes]_vars

=============================================================================
