-------------------------- MODULE FileLeaseProofs ---------------------------
(***************************************************************************)
(* The lease is exclusive for any number of contenders, with any number of *)
(* kills, deletions and foreign writes.                                    *)
(***************************************************************************)
EXTENDS FileLease, TLAPS

LInv == TypeOK /\ LeaseInv /\ MarkerNamesHolder

LEMMA LInvInit == Init => LInv
BY LeaseAssumption
   DEF Init, LInv, TypeOK, LeaseInv, MarkerNamesHolder, Holding, Pcs

(* Closing a descriptor: nothing a process still relies on is touched. *)
LEMMA CloseKeeps ==
  ASSUME LInv, NEW p \in Procs, pc[p] # "idle", Close(p),
         refused' \in [Procs -> {"no", "busy", "contract"}]
  PROVE  LInv'
<1> USE DEF LInv
<1>1. TypeOK'
  BY DEF TypeOK, Close, Pcs
<1>2. ASSUME NEW q \in Procs, q # p
      PROVE  pc'[q] = pc[q] /\ fd'[q] = fd[q]
  BY <1>2 DEF Close, TypeOK
<1>3. pc'[p] = "idle" /\ fd'[p] = Absent
  BY DEF Close, TypeOK
<1>4. \A i \in Inodes : owner'[i] = IF owner[i] = p THEN Absent ELSE owner[i]
  BY DEF Close
<1>5. \A q \in Procs : q # p /\ fd[q] # Absent => fd[q] \in Inodes
  BY DEF TypeOK
<1>6. Holding' = Holding \ {p} /\ Holding' \ lost' \subseteq Holding \ lost
  BY <1>2, <1>3 DEF Holding, Close
<1>7. LeaseInv'
  <2>1. \A q \in Procs : /\ pc'[q] = "idle" <=> fd'[q] = Absent
                         /\ pc'[q] \in {"recheck", "truncate", "write", "held"}
                              => owner'[fd'[q]] = q
    BY <1>2, <1>3, <1>4, <1>5 DEF LeaseInv
  <2>2. \A i \in Inodes : owner'[i] # Absent => fd'[owner'[i]] = i
    BY <1>2, <1>4 DEF LeaseInv, TypeOK
  <2>3. \A q \in Holding' \ lost' : fd'[q] = path'
    BY <1>2, <1>3, <1>6 DEF LeaseInv, Close, Holding
  <2> QED BY <2>1, <2>2, <2>3 DEF LeaseInv
<1>8. MarkerNamesHolder'
  BY <1>2, <1>3 DEF MarkerNamesHolder, Close
<1> QED BY <1>1, <1>7, <1>8

LEMMA RefuseKeeps ==
  ASSUME LInv, NEW p \in Procs, pc[p] # "idle",
         NEW why \in {"busy", "contract"}, Refuse(p, why)
  PROVE  LInv'
<1>1. Close(p) /\ refused' = [refused EXCEPT ![p] = why]
  BY DEF Refuse
<1>2. refused' \in [Procs -> {"no", "busy", "contract"}]
  BY <1>1 DEF LInv, TypeOK
<1> QED BY <1>1, <1>2, CloseKeeps

(* A created file is one nobody has open, so no holder's. *)
LEMMA CreateKeeps ==
  ASSUME LInv, NEW p \in Procs, NEW i \in Inodes, Create(p, i)
  PROVE  LInv'
<1> USE DEF LInv
<1>1. TypeOK'
  BY DEF TypeOK, Create, Pcs
<1>2. \A q \in Procs : q # p => pc'[q] = pc[q] /\ fd'[q] = fd[q] /\ fd[q] # i
  BY DEF Create, Free, TypeOK
<1>3. pc'[p] = "opened" /\ fd'[p] = i /\ i # Absent
  BY LeaseAssumption DEF Create, TypeOK
<1>4. /\ owner' = owner /\ path' = i /\ path = Absent /\ lost' = lost
      /\ \A j \in Inodes : j # i => content'[j] = content[j]
  BY DEF Create, TypeOK
<1>5. Holding' \ lost' = {}
  <2>1. \A q \in Procs : pc[q] # "idle" => fd[q] # Absent
    BY DEF LeaseInv
  <2>2. \A q \in Holding \ lost : FALSE
    BY <1>4, <2>1 DEF LeaseInv, Holding
  <2>3. Holding' = Holding
    BY <1>2, <1>3 DEF Holding, Create
  <2> QED BY <1>4, <2>2, <2>3
<1>6. LeaseInv'
  <2>1. \A q \in Procs : /\ pc'[q] = "idle" <=> fd'[q] = Absent
                         /\ pc'[q] \in {"recheck", "truncate", "write", "held"}
                              => owner'[fd'[q]] = q
    BY <1>2, <1>3, <1>4 DEF LeaseInv
  <2>2. \A j \in Inodes : owner'[j] # Absent => fd'[owner'[j]] = j
    <3>1. \A j \in Inodes : owner[j] # Absent => owner[j] # p
      BY LeaseAssumption DEF LeaseInv, Create
    <3> QED BY <1>2, <1>4, <3>1 DEF LeaseInv, TypeOK
  <2> QED BY <1>5, <2>1, <2>2 DEF LeaseInv
<1>7. MarkerNamesHolder'
  <2> SUFFICES ASSUME NEW q \in Procs, pc'[q] = "held"
               PROVE  content'[fd'[q]] = q
    BY DEF MarkerNamesHolder
  <2>1. q # p /\ fd'[q] = fd[q] /\ fd[q] # i /\ pc[q] = "held"
    BY <1>2, <1>3
  <2>2. fd[q] \in Inodes
    BY <2>1 DEF LeaseInv, TypeOK
  <2> QED BY <1>4, <2>1, <2>2 DEF MarkerNamesHolder
<1> QED BY <1>1, <1>6, <1>7

LEMMA OpenKeeps ==
  ASSUME LInv, NEW p \in Procs, Open(p)
  PROVE  LInv'
<1> USE DEF LInv
<1>1. TypeOK'
  BY DEF TypeOK, Open, Pcs
<1>2. \A q \in Procs : q # p => pc'[q] = pc[q] /\ fd'[q] = fd[q]
  BY DEF Open, TypeOK
<1>3. pc'[p] = "opened" /\ fd'[p] = path /\ path \in Inodes /\ path # Absent
  BY DEF Open, TypeOK
<1>4. UNCHANGED <<path, content, owner, lost>>
  BY DEF Open
<1>5. Holding' = Holding
  BY <1>2, <1>3 DEF Holding, Open
<1>6. \A j \in Inodes : owner[j] # Absent => owner[j] # p
  BY LeaseAssumption DEF LeaseInv, Open
<1>7. LeaseInv'
  <2>1. \A q \in Procs : /\ pc'[q] = "idle" <=> fd'[q] = Absent
                         /\ pc'[q] \in {"recheck", "truncate", "write", "held"}
                              => owner'[fd'[q]] = q
    BY <1>2, <1>3, <1>4 DEF LeaseInv
  <2>2. \A j \in Inodes : owner'[j] # Absent => fd'[owner'[j]] = j
    BY <1>2, <1>4, <1>6 DEF LeaseInv, TypeOK
  <2>3. \A q \in Holding' \ lost' : fd'[q] = path'
    BY <1>2, <1>4, <1>5 DEF LeaseInv, Holding, Open
  <2> QED BY <2>1, <2>2, <2>3 DEF LeaseInv
<1>8. MarkerNamesHolder'
  BY <1>2, <1>3, <1>4 DEF MarkerNamesHolder
<1> QED BY <1>1, <1>7, <1>8

(* Both checks: passing the second one is what makes a process a holder.   *)
LEMMA CheckKeeps ==
  ASSUME LInv, NEW p \in Procs, Check(p) \/ Recheck(p)
  PROVE  LInv'
<1> USE DEF LInv
<1>1. CASE Refuse(p, "contract")
  BY <1>1, RefuseKeeps DEF Check, Recheck
<1>2. CASE ~Refuse(p, "contract")
  <2>1. /\ UNCHANGED <<path, content, owner, fd, created, refused, lost>>
        /\ path = fd[p]
        /\ pc[p] \in {"opened", "recheck"}
        /\ \/ pc[p] = "opened" /\ pc' = [pc EXCEPT ![p] = "flock"]
           \/ pc[p] = "recheck" /\ pc' = [pc EXCEPT ![p] = "truncate"]
    BY <1>2 DEF Check, Recheck, Acceptable
  <2>2. TypeOK'
    BY <2>1 DEF TypeOK, Pcs
  <2>3. \A q \in Procs : q # p => pc'[q] = pc[q]
    BY <2>1 DEF TypeOK
  <2>4. \/ pc[p] = "opened" /\ pc'[p] = "flock"
        \/ pc[p] = "recheck" /\ pc'[p] = "truncate"
    BY <2>1 DEF TypeOK
  <2>5. LeaseInv'
    <3>1. \A q \in Holding' \ lost' : q = p \/ q \in Holding \ lost
      BY <2>1, <2>3 DEF Holding
    <3> QED BY <2>1, <2>3, <2>4, <3>1 DEF LeaseInv
  <2>6. MarkerNamesHolder'
    BY <2>1, <2>3, <2>4 DEF MarkerNamesHolder
  <2> QED BY <2>2, <2>5, <2>6
<1> QED BY <1>1, <1>2

LEMMA FlockKeeps ==
  ASSUME LInv, NEW p \in Procs, Flock(p)
  PROVE  LInv'
<1> USE DEF LInv
<1>1. CASE Refuse(p, "busy")
  BY <1>1, RefuseKeeps DEF Flock
<1>2. CASE ~Refuse(p, "busy")
  <2>1. /\ UNCHANGED <<path, content, fd, created, refused, lost>>
        /\ pc[p] = "flock" /\ pc' = [pc EXCEPT ![p] = "recheck"]
        /\ owner[fd[p]] = Absent /\ owner' = [owner EXCEPT ![fd[p]] = p]
    BY <1>2 DEF Flock
  <2>2. fd[p] \in Inodes
    BY <2>1 DEF TypeOK, LeaseInv
  <2>3. TypeOK'
    BY <2>1, <2>2 DEF TypeOK, Pcs
  <2>4. /\ \A q \in Procs : q # p => pc'[q] = pc[q]
        /\ pc'[p] = "recheck"
        /\ \A i \in Inodes : owner'[i] = IF i = fd[p] THEN p ELSE owner[i]
    BY <2>1, <2>2 DEF TypeOK
  <2>5. \A q \in Procs : pc[q] \in {"recheck", "truncate", "write", "held"}
                           => fd[q] \in Inodes /\ fd[q] # fd[p]
    BY <2>1, LeaseAssumption DEF LeaseInv, TypeOK
  <2>6. Holding' = Holding
    BY <2>1, <2>4 DEF Holding
  <2>7. LeaseInv'
    BY <2>1, <2>2, <2>4, <2>5, <2>6 DEF LeaseInv
  <2>8. MarkerNamesHolder'
    BY <2>1, <2>4 DEF MarkerNamesHolder
  <2> QED BY <2>3, <2>7, <2>8
<1> QED BY <1>1, <1>2

(* A holder writes into the file it alone has locked. *)
LEMMA WriteKeeps ==
  ASSUME LInv, NEW p \in Procs, Truncate(p) \/ Write(p)
  PROVE  LInv'
<1> USE DEF LInv
<1>1. /\ pc[p] \in {"truncate", "write"}
      /\ UNCHANGED <<path, owner, fd, created, refused, lost>>
      /\ \A q \in Procs : q # p => pc'[q] = pc[q]
      /\ pc'[p] \in {"write", "held"}
      /\ pc'[p] = "held" => content' = [content EXCEPT ![fd[p]] = p]
      /\ \E c \in {Empty, p} : content' = [content EXCEPT ![fd[p]] = c]
  BY DEF Truncate, Write, TypeOK
<1>2. fd[p] \in Inodes /\ owner[fd[p]] = p
  BY <1>1 DEF LeaseInv, TypeOK
<1>3. TypeOK'
  BY <1>1, <1>2 DEF TypeOK, Truncate, Write, Pcs
<1>4. Holding' = Holding
  BY <1>1 DEF Holding
<1>5. LeaseInv'
  <2>1. \A q \in Holding' \ lost' : fd'[q] = path'
    BY <1>1, <1>4 DEF LeaseInv
  <2> QED BY <1>1, <1>2, <2>1 DEF LeaseInv
<1>6. MarkerNamesHolder'
  <2> SUFFICES ASSUME NEW q \in Procs, pc'[q] = "held"
               PROVE  content'[fd'[q]] = q
    BY DEF MarkerNamesHolder
  <2>1. CASE q = p
    BY <1>1, <1>2, <2>1 DEF TypeOK
  <2>2. CASE q # p
    <3>1. pc[q] = "held" /\ fd'[q] = fd[q] /\ owner[fd[q]] = q
      BY <1>1, <2>2 DEF LeaseInv
    <3>2. fd[q] # fd[p]
      BY <1>2, <2>2, <3>1
    <3>3. content'[fd[q]] = content[fd[q]]
      BY <1>1, <3>1, <3>2 DEF TypeOK, LeaseInv
    <3> QED BY <3>1, <3>3 DEF MarkerNamesHolder
  <2> QED BY <2>1, <2>2
<1> QED BY <1>3, <1>5, <1>6

(* The environment: a foreign write spares a locked file, and a deletion   *)
(* turns the holders of the path into lost ones.                           *)
LEMMA OutsideKeeps ==
  ASSUME LInv, ForeignWrite \/ Remove
  PROVE  LInv'
<1> USE DEF LInv
<1>1. CASE ForeignWrite
  <2>1. TypeOK'
    BY <1>1 DEF ForeignWrite, TypeOK
  <2>2. LeaseInv'
    BY <1>1 DEF ForeignWrite, LeaseInv, Holding
  <2>3. MarkerNamesHolder'
    <3> SUFFICES ASSUME NEW q \in Procs, pc'[q] = "held"
                 PROVE  content'[fd'[q]] = q
      BY DEF MarkerNamesHolder
    <3>1. pc[q] = "held" /\ fd'[q] = fd[q] /\ owner[fd[q]] = q
      BY <1>1 DEF ForeignWrite, LeaseInv
    <3>2. fd[q] \in Inodes /\ fd[q] # path
      BY <1>1, <3>1, LeaseAssumption DEF ForeignWrite, LeaseInv, TypeOK
    <3> QED BY <1>1, <3>1, <3>2 DEF ForeignWrite, TypeOK, MarkerNamesHolder
  <2> QED BY <2>1, <2>2, <2>3
<1>2. CASE Remove
  <2>1. TypeOK'
    BY <1>2 DEF Remove, TypeOK, Holding
  <2>2. Holding' \ lost' = {}
    BY <1>2 DEF Remove, LeaseInv, Holding
  <2>3. LeaseInv'
    BY <1>2, <2>2 DEF Remove, LeaseInv
  <2>4. MarkerNamesHolder'
    BY <1>2 DEF Remove, MarkerNamesHolder
  <2> QED BY <2>1, <2>3, <2>4
<1> QED BY <1>1, <1>2

THEOREM LeaseInvariant == Spec => []LInv
<1>1. LInv /\ [Next]_vars => LInv'
  <2> SUFFICES ASSUME LInv, [Next]_vars PROVE LInv'
    OBVIOUS
  <2>1. ASSUME NEW p \in Procs, Enter(p) PROVE LInv'
    BY <2>1, CreateKeeps, OpenKeeps, CheckKeeps, FlockKeeps, WriteKeeps DEF Enter
  <2>2. ASSUME NEW p \in Procs, Exit(p) \/ Crash(p) PROVE LInv'
    <3>1. Close(p) /\ pc[p] # "idle" /\ refused' = refused
      BY <2>2 DEF Exit, Crash
    <3> QED BY <3>1, CloseKeeps DEF LInv, TypeOK
  <2>3. CASE ForeignWrite \/ Remove
    BY <2>3, OutsideKeeps
  <2>4. CASE UNCHANGED vars
    BY <2>4 DEF vars, LInv, TypeOK, LeaseInv, MarkerNamesHolder, Holding
  <2> QED BY <2>1, <2>2, <2>3, <2>4 DEF Next
<1> QED BY <1>1, LInvInit, PTL DEF Spec

(* At most one process owns the lease, leaving out those whose lease file  *)
(* was deleted while they held it (FileLease.__enter__).                   *)
THEOREM Exclusive == Spec => []MutualExclusion
<1>1. LInv => MutualExclusion
  <2> SUFFICES ASSUME LInv, NEW p \in Holding \ lost, NEW q \in Holding \ lost
               PROVE  p = q
    BY DEF MutualExclusion
  <2>1. fd[p] = path /\ fd[q] = path
    BY DEF LInv, LeaseInv
  <2>2. owner[fd[p]] = p /\ owner[fd[q]] = q
    BY DEF LInv, LeaseInv, Holding
  <2> QED BY <2>1, <2>2
<1> QED BY <1>1, LeaseInvariant, PTL

(* No contender, refused or entering, writes into a holder's file. *)
THEOREM MarkersKept == Spec => []MarkerNamesHolder
<1>1. LInv => MarkerNamesHolder
  BY DEF LInv
<1> QED BY <1>1, LeaseInvariant, PTL

-----------------------------------------------------------------------------
(* Foreign bytes *)

(* The creator's own file, and the file of a process past the second       *)
(* check, hold nothing foreign: whoever may write has looked.              *)
Cleared ==
  /\ \A p \in Procs : pc[p] = "idle" => ~created[p]
  /\ \A p \in Procs : created[p] \/ pc[p] \in {"truncate", "write"}
                        => content[fd[p]] # Foreign

LEMMA ClearedStep == LInv /\ Cleared /\ [Next]_vars => Cleared'
<1> SUFFICES ASSUME LInv, Cleared, [Next]_vars PROVE Cleared'
  OBVIOUS
<1> USE DEF LInv
<1>0. \A q \in Procs : pc[q] # "idle" => fd[q] \in Inodes
  BY DEF TypeOK, LeaseInv
<1>1. ASSUME NEW p \in Procs, Close(p) PROVE Cleared'
  BY <1>1 DEF Close, Cleared, TypeOK
<1>2. ASSUME NEW p \in Procs, NEW i \in Inodes, Create(p, i) PROVE Cleared'
  <2>1. \A q \in Procs : q # p => /\ pc'[q] = pc[q] /\ created'[q] = created[q]
                                  /\ fd'[q] = fd[q] /\ fd[q] # i
    BY <1>2 DEF Create, Free, TypeOK
  <2>2. pc'[p] = "opened" /\ fd'[p] = i /\ content'[i] = Empty
    BY <1>2 DEF Create, TypeOK
  <2>3. \A j \in Inodes : j # i => content'[j] = content[j]
    BY <1>2 DEF Create, TypeOK
  <2> QED BY <1>0, <2>1, <2>2, <2>3, LeaseAssumption DEF Cleared
<1>3. ASSUME NEW p \in Procs, Open(p) PROVE Cleared'
  BY <1>3 DEF Open, Cleared, TypeOK
<1>4. ASSUME NEW p \in Procs, Check(p) \/ Recheck(p) PROVE Cleared'
  <2>1. CASE Refuse(p, "contract")
    BY <1>1, <2>1 DEF Refuse
  <2>2. CASE ~Refuse(p, "contract")
    <3>1. /\ UNCHANGED <<content, fd, created>>
          /\ created[p] \/ content[fd[p]] \in Procs
          /\ \A q \in Procs : q # p => pc'[q] = pc[q]
          /\ pc'[p] # "idle"
      BY <1>4, <2>2 DEF Check, Recheck, Acceptable, TypeOK
    <3> QED BY <3>1, LeaseAssumption DEF Cleared
  <2> QED BY <2>1, <2>2
<1>5. ASSUME NEW p \in Procs, Flock(p) PROVE Cleared'
  BY <1>1, <1>5 DEF Flock, Refuse, Cleared, TypeOK
<1>6. ASSUME NEW p \in Procs, Truncate(p) \/ Write(p) PROVE Cleared'
  <2>1. PICK c \in {Empty, p} : content' = [content EXCEPT ![fd[p]] = c]
    BY <1>6 DEF Truncate, Write
  <2>2. c # Foreign
    BY LeaseAssumption
  <2>3. /\ UNCHANGED <<fd, created>>
        /\ pc[p] \in {"truncate", "write"} /\ pc'[p] \in {"write", "held"}
        /\ \A q \in Procs : q # p => pc'[q] = pc[q]
    BY <1>6 DEF Truncate, Write, TypeOK
  <2>4. \A j \in Inodes : content'[j] = content[j] \/ content'[j] # Foreign
    BY <2>1, <2>2 DEF TypeOK
  <2> QED BY <1>0, <2>3, <2>4 DEF Cleared
<1>7. CASE ForeignWrite
  <2>1. /\ UNCHANGED <<pc, fd, created>>
        /\ \A j \in Inodes : j # path => content'[j] = content[j]
    BY <1>7 DEF ForeignWrite, TypeOK
  <2>2. \A q \in Procs : created[q] \/ pc[q] \in {"truncate", "write"}
                            => fd[q] \in Inodes /\ fd[q] # path
    BY <1>0, <1>7, LeaseAssumption DEF ForeignWrite, Cleared, LeaseInv
  <2> QED BY <2>1, <2>2 DEF Cleared
<1>8. CASE Remove \/ UNCHANGED vars
  BY <1>8 DEF Remove, vars, Cleared
<1> QED
  BY <1>1, <1>2, <1>3, <1>4, <1>5, <1>6, <1>7, <1>8
     DEF Next, Enter, Exit, Crash

(* A contender never modifies bytes the lease does not own, not even those *)
(* that appear between its first check and its flock.                      *)
THEOREM ForeignBytesKept == Spec => ForeignUntouched
<1>1. Init => Cleared
  BY DEF Init, Cleared
<1>2. LInv /\ Cleared /\ [Next]_vars
        => [(\E p \in Procs : Enter(p)) /\ path # Absent /\ content[path] = Foreign
              => content'[path] = Foreign]_vars
  <2> SUFFICES ASSUME LInv, Cleared, NEW p \in Procs, Enter(p),
                      path # Absent, content[path] = Foreign
               PROVE  content'[path] = Foreign
    OBVIOUS
  <2>1. CASE Truncate(p) \/ Write(p)
    <3>1. fd[p] # path /\ fd[p] \in Inodes /\ path \in Inodes
      BY <2>1 DEF Truncate, Write, Cleared, LInv, LeaseInv, TypeOK
    <3> QED BY <2>1, <3>1 DEF Truncate, Write, LInv, TypeOK
  <2> QED
    BY <2>1 DEF Enter, Create, Open, Check, Flock, Recheck, Refuse, Close
<1> QED
  BY <1>1, <1>2, ClearedStep, LeaseInvariant, PTL DEF Spec, ForeignUntouched

=============================================================================
