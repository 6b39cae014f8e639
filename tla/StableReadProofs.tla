-------------------------- MODULE StableReadProofs --------------------------
(***************************************************************************)
(* A read that verifies the identity of what it opened is as good as one   *)
(* at an instant, for any files, any contents and any number of changes,   *)
(* as long as two changes never get the same time.                         *)
(***************************************************************************)
EXTENDS StableRead, TLAPS

Pcs == {"idle", "open", "fstat", "read", "verify"}

Identities == [inode : Inodes, size : Nat, mtime : Nat]

TypeOK ==
  /\ inodes \in [Inodes -> [bytes : Contents, mtime : Nat]]
  /\ path \in Inodes \cup {None, Symlink}
  /\ clock \in Nat
  /\ reader \in [pc : Pcs, bounded : BOOLEAN, fd : Inodes \cup {None},
                 before : Identities \cup {None},
                 after : Identities \cup {None}, data : Seq(Chunks)]
  /\ answer \in {None, Error} \cup Results

(* What was read so far is the front of the open file, and all of it once  *)
(* the reader has seen the end.                                            *)
FrontOf(bytes) ==
  /\ Len(reader.data) <= Len(bytes)
  /\ \A k \in 1..Len(reader.data) : reader.data[k] = bytes[k]
  /\ At("verify") => Len(reader.data) = Len(bytes)

Reading == reader.pc \in {"read", "verify"}

(* Nothing has touched the open file since its identity was taken: because *)
(* nothing has been touched at all, or as its time of change tells.        *)
Fresh ==
  \/ ~disturbed
  \/ FineClock /\ reader.before.mtime = inodes[reader.fd].mtime

(* A time of change only grows, so a file that shows the time it had when  *)
(* it was opened holds what it held then, and the data read are its own.   *)
ReadInv ==
  /\ answer = None <=> ~At("idle")
  /\ FineClock => \A i \in Inodes : inodes[i].mtime < clock
  /\ reader.pc \in {"open", "fstat"} => reader.data = <<>>
  /\ reader.pc \in {"fstat", "read", "verify"} =>
       reader.fd \in Inodes /\ (~disturbed => path = reader.fd)
  /\ Reading =>
       /\ reader.before \in Identities /\ reader.before.inode = reader.fd
       /\ FineClock => reader.before.mtime <= inodes[reader.fd].mtime
       /\ Fresh => /\ reader.before = Identity(reader.fd)
                   /\ FrontOf(Bytes)
  /\ At("verify") => /\ reader.after \in Identities
                     /\ ~disturbed => reader.after = reader.before

Inv == TypeOK /\ ReadInv

(* Contents are finite sequences. *)
LEMMA ContentsAreSequences ==
  ASSUME NEW bytes \in Contents
  PROVE  bytes \in Seq(Chunks) /\ Len(bytes) \in Nat
<1>1. PICK n \in 0..MaxSize : bytes \in [1..n -> Chunks]
  BY DEF Contents
<1>2. n \in Nat
  BY StableReadAssumption
<1> QED BY <1>1, <1>2

LEMMA IdentityTyped ==
  ASSUME TypeOK, NEW i \in Inodes
  PROVE  Identity(i) \in Identities
<1>1. inodes[i].bytes \in Contents /\ inodes[i].mtime \in Nat
  BY DEF TypeOK
<1> QED BY <1>1, ContentsAreSequences DEF Identity, Identities

LEMMA InvInit == Init => Inv
<1> SUFFICES ASSUME Init PROVE Inv
  OBVIOUS
<1>1. inodes \in [Inodes -> [bytes : Contents, mtime : {0}]]
  BY DEF Init
<1>2. TypeOK
  BY <1>1, StableReadAssumption DEF Init, TypeOK, Idle, Pcs
<1>3. ReadInv
  BY <1>1, StableReadAssumption DEF Init, ReadInv, At, Idle, Reading
<1> QED BY <1>2, <1>3 DEF Inv

(* A call that ends forgets its locals, whatever it answers. *)
LEMMA FinishKeeps ==
  ASSUME Inv, NEW result \in {Error} \cup Results, Finish(result)
  PROVE  Inv'
<1>1. TypeOK'
  BY DEF Inv, TypeOK, Finish, worldVars, Idle, Pcs
<1>2. ReadInv'
  BY StableReadAssumption DEF Inv, ReadInv, Finish, worldVars, Idle, At, Reading
<1> QED BY <1>1, <1>2 DEF Inv

(* Opening, and the two identities taken of the open file. *)
LEMMA OpenKeeps ==
  ASSUME Inv, \/ \E bounded \in BOOLEAN : Begin(bounded)
              \/ Open \/ IdentityAtOpen \/ IdentityAtEnd
  PROVE  Inv'
<1> USE DEF Inv
<1>1. ASSUME NEW bounded \in BOOLEAN, Begin(bounded) PROVE Inv'
  <2>0. reader' = [pc |-> "open", bounded |-> bounded, fd |-> None,
                    before |-> None, after |-> None, data |-> <<>>]
    BY <1>1 DEF Begin, Idle
  <2>1. TypeOK'
    <3>1. reader' \in [pc : Pcs, bounded : BOOLEAN, fd : Inodes \cup {None},
                      before : Identities \cup {None},
                      after : Identities \cup {None}, data : Seq(Chunks)]
      BY <2>0 DEF Pcs
    <3>2. UNCHANGED <<inodes, path, clock>> /\ answer' = None
      BY <1>1 DEF Begin, worldVars
    <3> QED BY <3>1, <3>2 DEF TypeOK
  <2>2. ReadInv'
    BY <1>1 DEF Begin, ReadInv, Idle, At, Reading, worldVars
  <2> QED BY <2>1, <2>2
<1>2. CASE Open
  <2>1. TypeOK'
    BY <1>2 DEF Open, TypeOK, Pcs, worldVars
  <2>2. /\ reader'.pc = "fstat" /\ reader'.fd = path /\ reader'.data = reader.data
        /\ reader.pc = "open"
        /\ UNCHANGED <<inodes, path, clock, answer, disturbed>>
    BY <1>2 DEF Open, TypeOK, At, worldVars, historyVars
  <2>3. ReadInv'
    BY <1>2, <2>2 DEF Open, ReadInv, At, Reading
  <2> QED BY <2>1, <2>3
<1>3. CASE IdentityAtOpen
  <2>1. reader.fd \in Inodes /\ Identity(reader.fd) \in Identities
    BY <1>3, IdentityTyped DEF IdentityAtOpen, ReadInv, At
  <2>2. TypeOK'
    BY <1>3, <2>1 DEF IdentityAtOpen, TypeOK, Pcs, worldVars
  <2>3. /\ reader'.pc = "read" /\ reader'.fd = reader.fd
        /\ reader'.before = Identity(reader.fd) /\ reader'.data = <<>>
        /\ reader.pc = "fstat"
        /\ UNCHANGED <<inodes, path, clock, answer, disturbed>>
    BY <1>3 DEF IdentityAtOpen, TypeOK, At, worldVars, historyVars, ReadInv
  <2>4. inodes[reader.fd].bytes \in Contents /\ inodes[reader.fd].mtime \in Nat
    BY <2>1 DEF TypeOK
  <2>5. /\ Identity(reader.fd).inode = reader.fd
        /\ Identity(reader.fd).mtime = inodes[reader.fd].mtime
    BY DEF Identity
  <2>6. FrontOf(Bytes)'
    BY <2>3, <2>4, ContentsAreSequences DEF FrontOf, Bytes, At
  <2>7. Identity(reader.fd)' = Identity(reader.fd)
    BY <2>3 DEF Identity
  <2>8. ReadInv'
    BY <2>1, <2>3, <2>4, <2>5, <2>6, <2>7 DEF ReadInv, At, Reading
  <2> QED BY <2>2, <2>8
<1>4. CASE IdentityAtEnd
  <2>1. reader.fd \in Inodes /\ Identity(reader.fd) \in Identities
    BY <1>4, IdentityTyped DEF IdentityAtEnd, ReadInv, At
  <2>2. TypeOK'
    BY <1>4, <2>1 DEF IdentityAtEnd, TypeOK, Pcs, worldVars
  <2>3. /\ reader'.pc = "verify" /\ reader'.fd = reader.fd
        /\ reader'.before = reader.before /\ reader'.data = reader.data
        /\ reader'.after = Identity(reader.fd)
        /\ reader.pc = "read" /\ Reading
        /\ UNCHANGED <<inodes, path, clock, answer, disturbed>>
    BY <1>4 DEF IdentityAtEnd, TypeOK, At, worldVars, historyVars, Reading
  <2>4. Identity(reader.fd)' = Identity(reader.fd) /\ (Fresh' <=> Fresh)
    BY <2>3 DEF Identity, Fresh
  <2>5. Fresh => FrontOf(Bytes)'
    <3> SUFFICES ASSUME Fresh PROVE FrontOf(Bytes)'
      OBVIOUS
    <3>1. FrontOf(Bytes) /\ Len(reader.data) >= Len(Bytes)
      BY <1>4, <2>3 DEF ReadInv, IdentityAtEnd, AtEnd
    <3>2. Bytes \in Seq(Chunks) /\ reader.data \in Seq(Chunks)
      BY <2>1, ContentsAreSequences DEF TypeOK, Bytes
    <3>3. Len(reader.data) = Len(Bytes)
      BY <3>1, <3>2 DEF FrontOf
    <3>4. Bytes' = Bytes
      BY <2>3 DEF Bytes
    <3> QED BY <2>3, <3>1, <3>3, <3>4 DEF FrontOf
  <2>6. ReadInv'
    BY <2>1, <2>3, <2>4, <2>5 DEF ReadInv, At, Reading, Fresh
  <2> QED BY <2>2, <2>6
<1> QED BY <1>1, <1>2, <1>3, <1>4

(* The next chunk of an untouched file is the next of its own bytes. *)
LEMMA ReadChunkKeeps ==
  ASSUME Inv, ReadChunk
  PROVE  Inv'
<1> USE DEF Inv
<1>1. /\ reader.pc = "read" /\ Reading /\ reader.fd \in Inodes
      /\ UNCHANGED <<inodes, path, clock, answer, disturbed>>
  BY DEF ReadChunk, At, ReadInv, Reading, worldVars, historyVars
<1>2. Bytes \in Seq(Chunks) /\ reader.data \in Seq(Chunks)
  BY <1>1, ContentsAreSequences DEF TypeOK, Bytes
<1> DEFINE chunk == Bytes[Len(reader.data) + 1]
<1>3. Len(reader.data) < Len(Bytes) /\ chunk \in Chunks
  BY <1>2 DEF ReadChunk, AtEnd
<1>4. /\ reader'.pc = "read" /\ reader'.fd = reader.fd
      /\ reader'.before = reader.before
      /\ reader'.data = Append(reader.data, chunk)
      /\ Bytes' = Bytes
  BY <1>1 DEF ReadChunk, TypeOK, Bytes
<1>5. TypeOK'
  <2>1. Append(reader.data, chunk) \in Seq(Chunks)
    BY <1>2, <1>3
  <2>2. reader' = [reader EXCEPT !.data = Append(reader.data, chunk)]
    BY DEF ReadChunk
  <2> QED BY <1>1, <2>1, <2>2 DEF TypeOK
<1>6. FrontOf(Bytes) => FrontOf(Bytes)'
  <2> SUFFICES ASSUME FrontOf(Bytes) PROVE FrontOf(Bytes)'
    OBVIOUS
  <2>1. /\ Len(reader'.data) = Len(reader.data) + 1
        /\ \A k \in 1..Len(reader.data) : reader'.data[k] = reader.data[k]
        /\ reader'.data[Len(reader.data) + 1] = chunk
    BY <1>2, <1>3, <1>4
  <2>2. \A k \in 1..Len(reader'.data) : reader'.data[k] = Bytes[k]
    BY <1>2, <2>1 DEF FrontOf
  <2> QED BY <1>2, <1>3, <1>4, <2>1, <2>2 DEF FrontOf, At
<1>7. Identity(reader.fd)' = Identity(reader.fd) /\ (Fresh' <=> Fresh)
  BY <1>1, <1>4 DEF Identity, Fresh
<1>8. ReadInv'
  BY <1>1, <1>4, <1>6, <1>7 DEF ReadInv, At, Reading
<1> QED BY <1>5, <1>8

(* Other programs: a change of the open file shows in its time, which a    *)
(* fine clock never gives twice.                                           *)
LEMMA WorldKeeps ==
  ASSUME Inv, World
  PROVE  Inv'
<1> USE DEF Inv
<1>1. /\ UNCHANGED <<reader, answer>>
      /\ disturbed' = ~At("idle")
      /\ clock' \in Nat /\ clock' >= clock
      /\ FineClock => clock' > clock
  BY StableReadAssumption DEF World, Rewrite, Rename, Edit, TypeOK
<1>2. TypeOK'
  BY <1>1 DEF World, Rewrite, Rename, TypeOK
<1>3. \A i \in Inodes : \/ inodes'[i] = inodes[i]
                        \/ inodes'[i].mtime = clock
  BY DEF World, Rewrite, Rename, TypeOK
<1>4. FineClock => \A i \in Inodes : inodes'[i].mtime < clock'
  BY <1>1, <1>3 DEF ReadInv, TypeOK
<1>5. ASSUME Reading
      PROVE  /\ FineClock => reader.before.mtime <= inodes'[reader.fd].mtime
             /\ Fresh' => Fresh /\ inodes'[reader.fd] = inodes[reader.fd]
  <2>1. /\ reader.fd \in Inodes /\ disturbed'
        /\ reader.before.mtime \in Nat
    BY <1>1, <1>5 DEF Reading, At, ReadInv, Identities
  <2>2. /\ inodes[reader.fd].mtime \in Nat /\ clock \in Nat
    BY <2>1 DEF TypeOK
  <2>3. FineClock => /\ reader.before.mtime <= inodes[reader.fd].mtime
                     /\ inodes[reader.fd].mtime < clock
    BY <1>5, <2>1 DEF ReadInv
  <2>4. inodes'[reader.fd] = inodes[reader.fd] \/ inodes'[reader.fd].mtime = clock
    BY <1>3, <2>1
  <2> QED BY <1>1, <2>1, <2>2, <2>3, <2>4 DEF Fresh
<1>6. ReadInv'
  <2>1. At("idle")' = At("idle") /\ Reading' = Reading /\ At("verify")' = At("verify")
    BY <1>1 DEF At, Reading
  <2>2. ASSUME Reading, Fresh'
        PROVE  /\ reader'.before = Identity(reader.fd)'
               /\ FrontOf(Bytes)'
    <3>1. Fresh /\ inodes'[reader.fd] = inodes[reader.fd]
      BY <1>5, <2>2
    <3>2. reader.before = Identity(reader.fd) /\ FrontOf(Bytes)
      BY <2>2, <3>1 DEF ReadInv
    <3> QED BY <1>1, <2>1, <3>1, <3>2 DEF Identity, FrontOf, Bytes
  <2>3. ~At("idle") => disturbed'
    BY <1>1
  <2>4. \A pc \in {"fstat", "read", "verify"} : reader.pc = pc => disturbed'
    BY <2>3 DEF At
  <2> QED BY <1>1, <1>4, <1>5, <2>1, <2>2, <2>4 DEF ReadInv, Reading, At
<1> QED BY <1>2, <1>6

(* What Return answers is what the path holds as it answers. *)
LEMMA ReturnsContent ==
  ASSUME Inv, FineClock, At("verify"), Unchanged
  PROVE  /\ path \in Inodes /\ path = reader.fd
         /\ Content \in Contents /\ reader.data = Content
         /\ reader.after.size = Len(Content)
<1> USE DEF Inv
<1>1. /\ path \in Inodes /\ Reading
      /\ reader.before = Identity(path) /\ reader.after = Identity(path)
  BY DEF Unchanged, Reading, At
<1>2. path = reader.fd
  BY <1>1 DEF ReadInv, Identity
<1>3. Fresh
  BY <1>1, <1>2 DEF Fresh, Identity
<1>4. FrontOf(Bytes)
  BY <1>1, <1>3 DEF ReadInv
<1>5. Content = Bytes /\ Bytes \in Contents
  BY <1>1, <1>2 DEF Content, Bytes, TypeOK
<1>6. reader.data \in Seq(Chunks) /\ Bytes \in Seq(Chunks)
  BY <1>5, ContentsAreSequences DEF TypeOK
<1>7. reader.data = Bytes
  BY <1>4, <1>6 DEF FrontOf
<1> QED BY <1>1, <1>2, <1>5, <1>7 DEF Identity, Bytes

LEMMA ReturnTyped ==
  ASSUME Inv, Return
  PROVE  answer' \in Results
<1>1. reader.data \in Seq(Chunks) /\ reader.after \in Identities
  BY DEF Return, Inv, ReadInv, TypeOK
<1>2. Len(reader.data) \in Nat /\ reader.after.size \in Nat
  BY <1>1 DEF Identities
<1> QED BY <1>1, <1>2 DEF Return, Finish, Results

LEMMA InvStep == Inv /\ [Next]_vars => Inv'
<1> SUFFICES ASSUME Inv, [Next]_vars PROVE Inv'
  OBVIOUS
<1>1. CASE Return
  <2>1. Finish(answer')
    BY <1>1 DEF Return, Finish
  <2> QED BY <1>1, <2>1, ReturnTyped, FinishKeeps
<1>2. CASE Fail
  BY <1>2, FinishKeeps DEF Fail
<1>3. CASE UNCHANGED vars
  BY <1>3 DEF vars, worldVars, historyVars, Inv, TypeOK, ReadInv, At, Reading,
              Fresh, FrontOf, Bytes, Identity
<1> QED
  BY <1>1, <1>2, <1>3, OpenKeeps, ReadChunkKeeps, WorldKeeps
     DEF Next, Read, CannotOpen, TooLarge, Changed

THEOREM ReadInvariant == Spec => []Inv
BY InvInit, InvStep, PTL DEF Spec

-----------------------------------------------------------------------------

LEMMA ContentTyped == TypeOK => Content \in Contents \cup {None}
BY DEF TypeOK, Content

(* Every step of the reader or of another program is a call, an answer     *)
(* with what the path holds, a refusal, or a change the reader may not see. *)
LEMMA SnapshotStep ==
  ASSUME FineClock
  PROVE  Inv /\ [Next]_vars => [Snapshot!Next]_<<Content, answer>>
<1> SUFFICES ASSUME Inv, [Next]_vars
             PROVE  Snapshot!Next \/ UNCHANGED <<Content, answer>>
  OBVIOUS
<1>1. UNCHANGED worldVars => Content' = Content
  BY DEF worldVars, Content
<1>2. ASSUME NEW bounded \in BOOLEAN, Begin(bounded)
      PROVE  Snapshot!Call
  BY <1>1, <1>2 DEF Begin, Snapshot!Call, Inv, ReadInv
<1>3. CASE Return
  <2>1. Content' = Content /\ answer = None
    BY <1>1, <1>3 DEF Return, Finish, Inv, ReadInv, At
  <2>2. /\ reader.data = Content /\ Content # None
        /\ reader.after.size = Len(Content)
    BY <1>3, ReturnsContent, StableReadAssumption DEF Return
  <2>3. answer' = [bytes |-> Content, size |-> Len(Content)]
    BY <1>3, <2>2 DEF Return, Finish
  <2> QED BY <2>1, <2>2, <2>3 DEF Snapshot!Return, Snapshot!Next
<1>4. CASE Fail /\ ~At("idle")
  BY <1>1, <1>4 DEF Fail, Finish, Inv, ReadInv, Snapshot!Return, Snapshot!Next
<1>5. CASE World
  BY <1>5 DEF World, Rewrite, Rename, Edit, Snapshot!Mutate, Snapshot!Next
<1>6. CASE Open \/ IdentityAtOpen \/ ReadChunk \/ IdentityAtEnd \/ UNCHANGED vars
  BY <1>6 DEF Open, IdentityAtOpen, ReadChunk, IdentityAtEnd, vars,
              Snapshot!Mutate, Snapshot!Next
<1> QED
  BY <1>2, <1>3, <1>4, <1>5, <1>6
     DEF Next, Read, CannotOpen, TooLarge, Changed, At, Snapshot!Next

(* With times of change that never repeat, stable_sha256_file and          *)
(* stable_read_bytes answer with the bytes the path holds at that instant  *)
(* and their number, or not at all.                                        *)
THEOREM ReadsAreSnapshots ==
  ASSUME FineClock
  PROVE  Spec => ImplementsSnapshot
<1>1. Init => Snapshot!Init
  BY DEF Init, Snapshot!Init
<1> QED
  BY <1>1, SnapshotStep, ReadInvariant, PTL
     DEF Spec, ImplementsSnapshot, Snapshot!Spec

(* On any clock, a call that nothing disturbs fails only for what the path *)
(* names, or for a document over the limit.                                *)
THEOREM QuietReadsAnswer == Spec => RefusedOnlyForCause
<1>1. Inv /\ [Next]_vars
        => [answer = None /\ answer' = Error /\ ~disturbed
              => \/ path \notin Inodes
                 \/ reader.bounded /\ Len(inodes[path].bytes) > MaxBytes]_vars
  <2> SUFFICES ASSUME Inv, Next, answer = None, answer' = Error, ~disturbed,
                      path \in Inodes
               PROVE  reader.bounded /\ Len(inodes[path].bytes) > MaxBytes
    OBVIOUS
  <2>1. Return \/ CannotOpen \/ TooLarge \/ Changed
    BY StableReadAssumption
       DEF Next, Read, Begin, Open, IdentityAtOpen, ReadChunk, IdentityAtEnd,
           World, Rewrite, Rename, Edit
  <2>2. CASE TooLarge
    <3>1. /\ Reading /\ reader.fd = path /\ FrontOf(Bytes)
          /\ reader.bounded /\ ~(Len(reader.data) <= MaxBytes)
      BY <2>2 DEF TooLarge, Fits, Inv, ReadInv, Reading, At, Fresh
    <3>2. inodes[path].bytes \in Contents /\ Bytes = inodes[path].bytes
      BY <3>1 DEF Inv, TypeOK, Bytes
    <3>3. /\ Len(reader.data) \in Nat /\ Len(Bytes) \in Nat /\ MaxBytes \in Nat
      BY <3>2, ContentsAreSequences, StableReadAssumption DEF Inv, TypeOK
    <3> QED BY <3>1, <3>2, <3>3 DEF FrontOf
  <2>3. ~ Changed
    BY DEF Changed, Unchanged, Inv, ReadInv, Reading, At, Fresh
  <2>4. ~ Return
    <3> SUFFICES ASSUME Return PROVE FALSE
      OBVIOUS
    <3>1. answer' \in Results
      BY ReturnTyped
    <3> QED BY <3>1, StableReadAssumption
  <2> QED BY <2>1, <2>2, <2>3, <2>4 DEF CannotOpen
<1> QED BY <1>1, ReadInvariant, PTL DEF Spec, RefusedOnlyForCause

=============================================================================
