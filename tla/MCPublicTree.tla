---------------------------- MODULE MCPublicTree -----------------------------
(* Two commits, the second on top of the first; tags of a commit, of a blob *)
(* and of a tree; two file names, three blobs.                              *)
EXTENDS PublicTree

CONSTANTS c1, c2, ofCommit, ofBlob, ofTree, t1, t2, t3, good, bad, big,
          readme, project

MCTreeOf(c) == IF c = c1 THEN t1 ELSE t2
MCParentsOf(c) == IF c = c2 THEN {c1} ELSE {}
MCTargetOf(t) == CASE t = ofCommit -> c1 [] t = ofBlob -> good [] t = ofTree -> t3
MCContent(b) ==
  CASE b = good -> "public" [] b = bad -> "private" [] b = big -> "large"
MCNaming(path) == IF path = readme THEN "public" ELSE "denied"

(* At most one entry under each name. *)
Listings(modes, blobs) ==
  LET links == IF "gitlink" \in modes
               THEN {[type |-> "commit", mode |-> "gitlink", object |-> c1]}
               ELSE {}
      choices == links \cup [type : {"blob"}, mode : modes \ {"gitlink"},
                             object : blobs]
      named(f) == {[path |-> p, type |-> f[p].type, mode |-> f[p].mode,
                    object |-> f[p].object] :
                     p \in {q \in DOMAIN f : f[q] # None}}
  IN {named(f) : f \in [Paths -> choices \cup {None}]}

Histories(refs, last) ==
  [refs : refs, shallow : BOOLEAN, private : {{}, {c1}, {ofCommit}},
   entries : {[t \in Trees |-> CASE t = t1 -> a [] t = t2 -> b [] t = t3 -> c] :
                a \in Listings({"regular", "symlink", "gitlink"}, {good, bad}),
                b \in Listings({"regular"}, {good, bad, big}), c \in last},
   worktree : {[p \in Paths |-> "absent"]}]

(* Any working tree over a history without a fault. *)
Worktrees ==
  [refs : {{c1}}, shallow : {FALSE}, private : {{}},
   entries : {[t \in Trees |-> {}]},
   worktree : [Paths -> {"absent", "symlink", "directory"} \cup Blobs]]

CommitRefs == {{c1}, {c2}, {c1, c2}, {c1, ofCommit}, {ofCommit}, {c2, ofBlob},
               {c2, bad}}

(* A tag on a bare tree, whose blobs a commit may hold under other names.   *)
TaggedTrees == Histories({{c2, ofTree}}, Listings({"regular"}, {good, bad}))

MCRepositories == Worktrees \cup Histories(CommitRefs, {{}}) \cup TaggedTrees

=============================================================================
