--------------------------- MODULE DiscoveryProofs ---------------------------
(***************************************************************************)
(* Proofs about file.c and discovery.c, for any number of processes, files *)
(* and directories, and any number of removals, failed calls and deaths.   *)
(*                                                                         *)
(* The invariant of File says which inodes are whole: the one behind a     *)
(* file's own name, and the one a process holds from ftruncate on.  While  *)
(* nobody removes files, the creator's inode is the one behind the name    *)
(* from its link on.  Temporary names are private.  The invariant of       *)
(* Discovery ties the calls of the callback to the map that guards them.   *)
(***************************************************************************)
EXTENDS Discovery, SequenceTheorems, TLAPS

PCs == {"idle", "makedirs", "mkdir", "open", "mkstemp", "ftruncate", "link", "unlink_won",
        "unlink_lost", "unlink_failed", "opened", "error", "closed", "dead"}
\* Where a process has an inode, one of its full size, and no temporary name.
Holding == {"ftruncate", "link", "unlink_won", "unlink_lost", "unlink_failed", "opened"}
Sized   == Holding \ {"ftruncate"}
Tidy    == {"idle", "makedirs", "mkdir", "open", "mkstemp", "opened"}

FileTypeOK ==
  /\ size \in Seq(Nat) /\ removals \in Nat
  /\ pc \in [Procs -> PCs]
  /\ DOMAIN path = Procs /\ DOMAIN ino = Procs
  /\ \A n \in DOMAIN inode : inode[n] \in 1..Len(size)

\* The path of a process is that of a file.
Paths == \A p \in Procs : pc[p] # "idle" => path[p] \in Files

\* What stands under a file's name is whole.
WholeNames == \A f \in Files \cap DOMAIN inode : size[inode[f]] # 0

\* What a process holds exists, and is whole once it was sized.
WholeHeld ==
  \A p \in Procs : /\ pc[p] \in Holding => ino[p] \in 1..Len(size)
                   /\ pc[p] \in Sized => size[ino[p]] # 0

\* A creator that won, and whoever opened the file, has the one under the name.
Agreed ==
  removals = 0 =>
    \A p \in Procs : pc[p] \in {"unlink_won", "opened"} =>
      path[p] \in DOMAIN inode /\ inode[path[p]] = ino[p]

\* Nobody keeps a temporary name but one that is at work or was stopped.
NoLitter == \A p \in Procs : pc[p] \in Tidy => Tmp(p) \notin DOMAIN inode

FInv == FileTypeOK /\ Paths /\ WholeNames /\ WholeHeld /\ Agreed /\ NoLitter

-----------------------------------------------------------------------------
(* Temporary names. *)

(* A temporary name belongs to one process and is not the name of a file. *)
LEMMA TmpNames ==
  /\ \A p, q \in Procs : Tmp(p) = Tmp(q) => p = q
  /\ \A p \in Procs : Tmp(p) \notin Files
PROOF
<1>1. \A p, q \in Procs : Tmp(p) = Tmp(q) => p = q
  BY DEF Tmp
<1>2. \A p \in Procs : Tmp(p) \notin Files
  BY FileAssumption DEF Tmp
<1> QED BY <1>1, <1>2

-----------------------------------------------------------------------------
(* The steps of file.c. *)

(* A process moves without touching names, sizes or inodes it has not got: *)
(* it walks down the directories, finds no file, gives up or dies.         *)
LEMMA WalkKeeps ==
  ASSUME FInv, NEW p \in Procs,
         UNCHANGED <<inode, size>>, removals' = removals,
         DOMAIN path' = Procs, DOMAIN ino' = Procs,
         \A q \in Procs : q # p => pc'[q] = pc[q] /\ path'[q] = path[q] /\ ino'[q] = ino[q],
         pc' \in [Procs -> PCs], pc'[p] \notin Holding, path'[p] \in Files,
         pc'[p] \in Tidy => pc[p] \in Tidy
  PROVE  FInv'
PROOF
<1>1. FileTypeOK /\ Paths /\ WholeNames /\ WholeHeld /\ Agreed /\ NoLitter
  BY DEF FInv
<1>2. FileTypeOK' /\ WholeNames'
  BY <1>1 DEF FileTypeOK, WholeNames
<1>3. Paths'
  BY <1>1 DEF Paths
<1>4. WholeHeld'
  <2> SUFFICES ASSUME NEW q \in Procs
               PROVE  /\ pc'[q] \in Holding => ino'[q] \in 1..Len(size)
                      /\ pc'[q] \in Sized => size[ino'[q]] # 0
    BY DEF WholeHeld
  <2> QED BY <1>1 DEF WholeHeld, Sized
<1>5. Agreed'
  BY <1>1 DEF Agreed, Holding
<1>6. NoLitter'
  BY <1>1 DEF NoLitter
<1> QED BY <1>2, <1>3, <1>4, <1>5, <1>6 DEF FInv

(* Opening, the walk of a0_makedirs, failures, deaths and closing. *)
LEMMA WalkStep ==
  ASSUME FInv, NEW p \in Procs,
         \/ a0_file_open(p) \/ a0_makedirs(p) \/ a0_mkdir(p)
         \/ a0_file_close(p) \/ Die(p)
         \/ Fails(p) /\ pc[p] # "link"
  PROVE  FInv'
PROOF
<1> USE DEF fsys, inotify, proc
<1>1. FileTypeOK /\ Paths
  BY DEF FInv
<1>2. UNCHANGED <<inode, size>> /\ removals' = removals
  BY DEF a0_file_open, a0_makedirs, a0_mkdir, a0_file_close, Die, Fails
<1>3. /\ DOMAIN path' = Procs /\ DOMAIN ino' = Procs
      /\ \A q \in Procs : q # p => path'[q] = path[q] /\ ino'[q] = ino[q]
  BY <1>1 DEF FileTypeOK, a0_file_open, a0_makedirs, a0_mkdir, a0_file_close, Die, Fails
<1>4. \E l \in {"makedirs", "mkdir", "open", "error", "dead", "closed"} :
        pc' = [pc EXCEPT ![p] = l] /\ (l \in Tidy => pc[p] \in Tidy)
  BY <1>1 DEF FileTypeOK, Goto, Descend, a0_file_open, a0_makedirs, a0_mkdir, a0_file_close,
              Die, Fails, Tidy
<1>5. path'[p] \in Files
  <2>1. CASE a0_file_open(p)
    BY <1>1, <2>1 DEF FileTypeOK, a0_file_open
  <2>2. CASE ~a0_file_open(p)
    <3>1. path' = path /\ pc[p] # "idle"
      BY <2>2 DEF a0_makedirs, a0_mkdir, a0_file_close, Die, Fails
    <3> QED BY <1>1, <3>1 DEF Paths
  <2> QED BY <2>1, <2>2
<1>6. /\ pc' \in [Procs -> PCs] /\ pc'[p] \notin Holding
      /\ pc'[p] \in Tidy => pc[p] \in Tidy
      /\ \A q \in Procs : q # p => pc'[q] = pc[q]
  BY <1>1, <1>4 DEF FileTypeOK, PCs, Holding
<1> QED BY <1>2, <1>3, <1>5, <1>6, WalkKeeps

(* A file that is there is opened. *)
LEMMA OpenKeeps ==
  ASSUME FInv, NEW p \in Procs, a0_open(p)
  PROVE  FInv'
PROOF
<1> USE DEF fsys, inotify, proc
<1>1. FileTypeOK /\ Paths /\ WholeNames /\ WholeHeld /\ Agreed /\ NoLitter
  BY DEF FInv
<1>2. /\ pc[p] = "open" /\ path[p] \in Files
      /\ UNCHANGED <<inode, size, removals, path>>
  BY <1>1 DEF a0_open, Paths
<1>3. CASE path[p] \notin DOMAIN inode
  <2>1. pc' = [pc EXCEPT ![p] = "mkstemp"] /\ ino' = ino
    BY <1>3 DEF a0_open, Goto
  <2>2. /\ pc' \in [Procs -> PCs] /\ pc'[p] \notin Holding
        /\ \A q \in Procs : q # p => pc'[q] = pc[q]
    BY <1>1, <2>1 DEF FileTypeOK, PCs, Holding
  <2>3. pc[p] \in Tidy
    BY <1>2 DEF Tidy
  <2> QED BY <1>1, <1>2, <2>1, <2>2, <2>3, WalkKeeps DEF FileTypeOK
<1>4. CASE path[p] \in DOMAIN inode
  <2>1. /\ pc' = [pc EXCEPT ![p] = "opened"]
        /\ ino' = [ino EXCEPT ![p] = inode[path[p]]]
    BY <1>4 DEF a0_open, Goto
  <2>2. /\ pc' \in [Procs -> PCs] /\ pc'[p] = "opened" /\ ino'[p] = inode[path[p]]
        /\ DOMAIN ino' = Procs
        /\ \A q \in Procs : q # p => pc'[q] = pc[q] /\ ino'[q] = ino[q]
    BY <1>1, <2>1 DEF FileTypeOK, PCs
  <2>3. inode[path[p]] \in 1..Len(size) /\ size[inode[path[p]]] # 0
    BY <1>1, <1>2, <1>4 DEF FileTypeOK, WholeNames
  <2>4. FileTypeOK' /\ Paths' /\ WholeNames'
    BY <1>1, <1>2, <2>2 DEF FileTypeOK, Paths, WholeNames
  <2>5. WholeHeld'
    <3> SUFFICES ASSUME NEW q \in Procs
                 PROVE  /\ pc'[q] \in Holding => ino'[q] \in 1..Len(size)
                        /\ pc'[q] \in Sized => size[ino'[q]] # 0
      BY <1>2 DEF WholeHeld
    <3> QED BY <1>1, <2>2, <2>3 DEF WholeHeld
  <2>6. Agreed'
    BY <1>1, <1>2, <1>4, <2>2 DEF Agreed
  <2>7. NoLitter'
    BY <1>1, <1>2, <2>2 DEF NoLitter, Tidy
  <2> QED BY <2>4, <2>5, <2>6, <2>7 DEF FInv
<1> QED BY <1>3, <1>4

(* An empty file under a name of its own. *)
LEMMA MktmpKeeps ==
  ASSUME FInv, NEW p \in Procs, a0_mktmp(p)
  PROVE  FInv'
PROOF
<1> USE DEF fsys, inotify, proc
<1>1. FileTypeOK /\ Paths /\ WholeNames /\ WholeHeld /\ Agreed /\ NoLitter
  BY DEF FInv
<1>2. /\ pc[p] = "mkstemp" /\ size' = Append(size, 0)
      /\ inode' = [n \in DOMAIN inode \cup {Tmp(p)} |-> IF n = Tmp(p) THEN Len(size) + 1 ELSE inode[n]]
      /\ ino' = [ino EXCEPT ![p] = Len(size) + 1]
      /\ pc' = [pc EXCEPT ![p] = "ftruncate"]
      /\ UNCHANGED <<removals, path>>
  BY DEF a0_mktmp, Goto
<1>3. /\ size' \in Seq(Nat) /\ Len(size) \in Nat /\ Len(size') = Len(size) + 1
      /\ \A k \in 1..Len(size) : size'[k] = size[k]
  BY <1>1, <1>2 DEF FileTypeOK
<1>4. /\ pc' \in [Procs -> PCs] /\ DOMAIN ino' = Procs
      /\ pc'[p] = "ftruncate" /\ ino'[p] = Len(size) + 1
      /\ \A q \in Procs : q # p => pc'[q] = pc[q] /\ ino'[q] = ino[q]
  BY <1>1, <1>2 DEF FileTypeOK, PCs
<1>5. /\ DOMAIN inode' = DOMAIN inode \cup {Tmp(p)} /\ inode'[Tmp(p)] = Len(size) + 1
      /\ \A n \in DOMAIN inode : n # Tmp(p) => inode'[n] = inode[n]
  BY <1>2
<1>6. \A f \in Files : /\ f \in DOMAIN inode' <=> f \in DOMAIN inode
                       /\ f \in DOMAIN inode => inode'[f] = inode[f]
  BY <1>5, TmpNames
<1>7. FileTypeOK'
  <2>1. \A n \in DOMAIN inode' : inode'[n] \in 1..Len(size')
    <3> SUFFICES ASSUME NEW n \in DOMAIN inode' PROVE inode'[n] \in 1..Len(size')
      OBVIOUS
    <3>1. CASE n = Tmp(p)
      BY <1>3, <1>5, <3>1
    <3>2. CASE n # Tmp(p)
      <4>1. inode'[n] = inode[n] /\ inode[n] \in 1..Len(size)
        BY <1>1, <1>5, <3>2 DEF FileTypeOK
      <4> QED BY <1>3, <4>1
    <3> QED BY <3>1, <3>2
  <2> QED BY <1>1, <1>2, <1>3, <1>4, <2>1 DEF FileTypeOK
<1>8. Paths'
  BY <1>1, <1>2, <1>4 DEF Paths
<1>9. WholeNames'
  <2> SUFFICES ASSUME NEW f \in Files, f \in DOMAIN inode'
               PROVE  size'[inode'[f]] # 0
    BY DEF WholeNames
  <2>1. f \in DOMAIN inode /\ inode'[f] = inode[f] /\ inode[f] \in 1..Len(size)
    BY <1>1, <1>6 DEF FileTypeOK
  <2> QED BY <1>1, <1>3, <2>1 DEF WholeNames
<1>10. WholeHeld'
  <2> SUFFICES ASSUME NEW q \in Procs
               PROVE  /\ pc'[q] \in Holding => ino'[q] \in 1..Len(size')
                      /\ pc'[q] \in Sized => size'[ino'[q]] # 0
    BY DEF WholeHeld
  <2>1. CASE q = p
    BY <1>3, <1>4, <2>1 DEF Sized
  <2>2. CASE q # p
    <3>1. pc'[q] = pc[q] /\ ino'[q] = ino[q]
      BY <1>4, <2>2
    <3>2. /\ pc[q] \in Holding => ino[q] \in 1..Len(size)
          /\ pc[q] \in Sized => pc[q] \in Holding /\ size[ino[q]] # 0
      BY <1>1 DEF WholeHeld, Sized
    <3> QED BY <1>3, <3>1, <3>2
  <2> QED BY <2>1, <2>2
<1>11. Agreed'
  <2> SUFFICES ASSUME removals' = 0, NEW q \in Procs, pc'[q] \in {"unlink_won", "opened"}
               PROVE  path'[q] \in DOMAIN inode' /\ inode'[path'[q]] = ino'[q]
    BY DEF Agreed
  <2>1. q # p /\ pc'[q] = pc[q] /\ ino'[q] = ino[q] /\ path'[q] = path[q]
    BY <1>2, <1>4
  <2>2. path[q] \in DOMAIN inode /\ inode[path[q]] = ino[q] /\ path[q] \in Files
    BY <1>1, <1>2, <2>1 DEF Agreed, Paths
  <2> QED BY <1>6, <2>1, <2>2
<1>12. NoLitter'
  <2> SUFFICES ASSUME NEW q \in Procs, pc'[q] \in Tidy
               PROVE  Tmp(q) \notin DOMAIN inode'
    BY DEF NoLitter
  <2>1. q # p
    BY <1>4 DEF Tidy
  <2>2. Tmp(q) \notin DOMAIN inode
    BY <1>1, <1>4, <2>1 DEF NoLitter
  <2> QED BY <1>5, <2>1, <2>2, TmpNames
<1> QED BY <1>7, <1>8, <1>9, <1>10, <1>11, <1>12 DEF FInv

(* The file gets its size, under its temporary name. *)
LEMMA ResizeKeeps ==
  ASSUME FInv, NEW p \in Procs, Resize(p)
  PROVE  FInv'
PROOF
<1> USE DEF fsys, inotify, proc
<1>1. FileTypeOK /\ Paths /\ WholeNames /\ WholeHeld /\ Agreed /\ NoLitter
  BY DEF FInv
<1>2. /\ pc[p] = "ftruncate" /\ size' = [size EXCEPT ![ino[p]] = SizeOf[p]]
      /\ pc' = [pc EXCEPT ![p] = "link"]
      /\ UNCHANGED <<inode, removals, path, ino>>
  BY DEF Resize, Goto
<1>3. ino[p] \in 1..Len(size) /\ SizeOf[p] \in Nat \ {0}
  BY <1>1, <1>2, FileAssumption DEF WholeHeld, Holding
<1>4. /\ size' \in Seq(Nat) /\ Len(size') = Len(size)
      /\ size'[ino[p]] # 0
      /\ \A k \in 1..Len(size) : size[k] # 0 => size'[k] # 0
  BY <1>1, <1>2, <1>3 DEF FileTypeOK
<1>5. /\ pc' \in [Procs -> PCs] /\ pc'[p] = "link"
      /\ \A q \in Procs : q # p => pc'[q] = pc[q]
  BY <1>1, <1>2 DEF FileTypeOK, PCs
<1>6. FileTypeOK' /\ Paths'
  BY <1>1, <1>2, <1>4, <1>5 DEF FileTypeOK, Paths
<1>7. WholeNames'
  BY <1>1, <1>2, <1>4 DEF WholeNames, FileTypeOK
<1>8. WholeHeld'
  <2> SUFFICES ASSUME NEW q \in Procs
               PROVE  /\ pc'[q] \in Holding => ino[q] \in 1..Len(size')
                      /\ pc'[q] \in Sized => size'[ino[q]] # 0
    BY <1>2 DEF WholeHeld
  <2>1. CASE q = p
    BY <1>3, <1>4, <2>1
  <2>2. CASE q # p
    BY <1>1, <1>4, <1>5, <2>2 DEF WholeHeld, Sized
  <2> QED BY <2>1, <2>2
<1>9. Agreed' /\ NoLitter'
  BY <1>1, <1>2, <1>5 DEF Agreed, NoLitter, Tidy
<1> QED BY <1>6, <1>7, <1>8, <1>9 DEF FInv

(* The link finds the name free, finds it taken, or fails otherwise. *)
LEMMA MoveKeeps ==
  ASSUME FInv, NEW p \in Procs, a0_tmp_move(p) \/ (Fails(p) /\ pc[p] = "link")
  PROVE  FInv'
PROOF
<1> USE DEF fsys, inotify, proc
<1>1. FileTypeOK /\ Paths /\ WholeNames /\ WholeHeld /\ Agreed /\ NoLitter
  BY DEF FInv
<1>2. /\ pc[p] = "link" /\ UNCHANGED <<size, removals, path, ino>>
      /\ \/ path[p] \notin DOMAIN inode /\ inode' = Linked(p) /\ pc' = [pc EXCEPT ![p] = "unlink_won"]
         \/ inode' = inode /\ \E l \in {"unlink_lost", "unlink_failed"} : pc' = [pc EXCEPT ![p] = l]
  BY DEF a0_tmp_move, Fails, Goto
<1>3. path[p] \in Files /\ ino[p] \in 1..Len(size) /\ size[ino[p]] # 0
  BY <1>1, <1>2 DEF Paths, WholeHeld, Holding, Sized
<1>4. /\ pc' \in [Procs -> PCs] /\ pc'[p] \in {"unlink_won", "unlink_lost", "unlink_failed"}
      /\ \A q \in Procs : q # p => pc'[q] = pc[q]
  BY <1>1, <1>2 DEF FileTypeOK, PCs
<1>5. /\ \A n \in DOMAIN inode : n \in DOMAIN inode' /\ inode'[n] = inode[n]
      /\ \A n \in DOMAIN inode' : n \in DOMAIN inode \/ (n = path[p] /\ inode'[n] = ino[p])
      /\ pc'[p] = "unlink_won" => path[p] \in DOMAIN inode' /\ inode'[path[p]] = ino[p]
  <2>1. CASE path[p] \notin DOMAIN inode /\ inode' = Linked(p)
    BY <2>1 DEF Linked
  <2>2. CASE inode' = inode /\ \E l \in {"unlink_lost", "unlink_failed"} : pc' = [pc EXCEPT ![p] = l]
    BY <1>1, <2>2 DEF FileTypeOK
  <2> QED BY <1>2, <2>1, <2>2
<1>6. FileTypeOK' /\ Paths' /\ WholeNames'
  <2>1. \A n \in DOMAIN inode' : inode'[n] \in 1..Len(size)
    BY <1>1, <1>3, <1>5 DEF FileTypeOK
  <2> QED BY <1>1, <1>2, <1>3, <1>4, <1>5, <2>1 DEF FileTypeOK, Paths, WholeNames
<1>7. WholeHeld'
  <2> SUFFICES ASSUME NEW q \in Procs
               PROVE  /\ pc'[q] \in Holding => ino[q] \in 1..Len(size)
                      /\ pc'[q] \in Sized => size[ino[q]] # 0
    BY <1>2 DEF WholeHeld
  <2> QED BY <1>1, <1>3, <1>4 DEF WholeHeld
<1>8. Agreed'
  <2> SUFFICES ASSUME removals = 0, NEW q \in Procs, pc'[q] \in {"unlink_won", "opened"}
               PROVE  path[q] \in DOMAIN inode' /\ inode'[path[q]] = ino[q]
    BY <1>2 DEF Agreed
  <2>1. CASE q = p
    BY <1>4, <1>5, <2>1
  <2>2. CASE q # p
    BY <1>1, <1>4, <1>5, <2>2 DEF Agreed
  <2> QED BY <2>1, <2>2
<1>9. NoLitter'
  <2> SUFFICES ASSUME NEW q \in Procs, pc'[q] \in Tidy
               PROVE  Tmp(q) \notin DOMAIN inode'
    BY DEF NoLitter
  <2>1. q # p
    BY <1>4 DEF Tidy
  <2> QED BY <1>1, <1>3, <1>4, <1>5, <2>1, TmpNames DEF NoLitter
<1> QED BY <1>6, <1>7, <1>8, <1>9 DEF FInv

(* Either way the temporary name goes. *)
LEMMA UnlinkKeeps ==
  ASSUME FInv, NEW p \in Procs, Unlink(p)
  PROVE  FInv'
PROOF
<1> USE DEF fsys, inotify, proc
<1>1. FileTypeOK /\ Paths /\ WholeNames /\ WholeHeld /\ Agreed /\ NoLitter
  BY DEF FInv
<1>2. /\ UNCHANGED <<size, removals, path>>
      /\ inode' = [n \in DOMAIN inode \ {Tmp(p)} |-> inode[n]]
      /\ \/ pc[p] = "unlink_won" /\ pc' = [pc EXCEPT ![p] = "opened"] /\ ino' = ino
         \/ /\ pc[p] \in {"unlink_lost", "unlink_failed"}
            /\ \E l \in {"open", "error"} : pc' = [pc EXCEPT ![p] = l]
            /\ ino' = [ino EXCEPT ![p] = Nobody]
  <2>1. pc[p] \in {"unlink_won", "unlink_lost", "unlink_failed"}
    BY DEF Unlink, AfterUnlink
  <2>2. /\ AfterUnlink["unlink_won"] = "opened" /\ AfterUnlink["unlink_lost"] = "open"
        /\ AfterUnlink["unlink_failed"] = "error"
    BY DEF AfterUnlink
  <2>3. /\ UNCHANGED <<size, removals, path>>
        /\ inode' = [n \in DOMAIN inode \ {Tmp(p)} |-> inode[n]]
        /\ pc' = [pc EXCEPT ![p] = AfterUnlink[pc[p]]]
        /\ ino' = IF pc[p] = "unlink_won" THEN ino ELSE [ino EXCEPT ![p] = Nobody]
    BY DEF Unlink, Goto
  <2> QED BY <2>1, <2>2, <2>3
<1>3. /\ pc' \in [Procs -> PCs] /\ DOMAIN ino' = Procs
      /\ \A q \in Procs : q # p => pc'[q] = pc[q] /\ ino'[q] = ino[q]
      /\ \/ pc[p] = "unlink_won" /\ pc'[p] = "opened" /\ ino'[p] = ino[p]
         \/ pc'[p] \in {"open", "error"}
      /\ pc[p] # "idle"
  BY <1>1, <1>2 DEF FileTypeOK, PCs
<1>4. /\ DOMAIN inode' = DOMAIN inode \ {Tmp(p)}
      /\ \A n \in DOMAIN inode' : inode'[n] = inode[n]
  BY <1>2
<1>5. \A f \in Files : f \in DOMAIN inode' <=> f \in DOMAIN inode
  BY <1>4, TmpNames
<1>6. FileTypeOK' /\ Paths' /\ WholeNames'
  BY <1>1, <1>2, <1>3, <1>4 DEF FileTypeOK, Paths, WholeNames
<1>7. WholeHeld'
  <2> SUFFICES ASSUME NEW q \in Procs
               PROVE  /\ pc'[q] \in Holding => ino'[q] \in 1..Len(size)
                      /\ pc'[q] \in Sized => size[ino'[q]] # 0
    BY <1>2 DEF WholeHeld
  <2>1. CASE q = p
    BY <1>1, <1>3, <2>1 DEF WholeHeld, Holding, Sized
  <2>2. CASE q # p
    BY <1>1, <1>3, <2>2 DEF WholeHeld
  <2> QED BY <2>1, <2>2
<1>8. Agreed'
  <2> SUFFICES ASSUME removals = 0, NEW q \in Procs, pc'[q] \in {"unlink_won", "opened"}
               PROVE  path[q] \in DOMAIN inode' /\ inode'[path[q]] = ino'[q]
    BY <1>2 DEF Agreed
  <2>1. pc[q] \in {"unlink_won", "opened"} /\ ino'[q] = ino[q]
    BY <1>3
  <2>2. path[q] \in Files /\ path[q] \in DOMAIN inode /\ inode[path[q]] = ino[q]
    BY <1>1, <2>1 DEF Agreed, Paths
  <2> QED BY <1>4, <1>5, <2>1, <2>2
<1>9. NoLitter'
  BY <1>1, <1>3, <1>4 DEF NoLitter
<1> QED BY <1>6, <1>7, <1>8, <1>9 DEF FInv

(* Somebody removes a file. *)
LEMMA RemoveKeeps ==
  ASSUME FInv, NEW f \in Files, a0_file_remove(f)
  PROVE  FInv'
PROOF
<1>1. FileTypeOK /\ Paths /\ WholeNames /\ WholeHeld /\ Agreed /\ NoLitter
  BY DEF FInv
<1>2. /\ UNCHANGED <<size, pc, path, ino>> /\ removals' = removals + 1
      /\ inode' = [n \in DOMAIN inode \ {f} |-> inode[n]]
  BY DEF a0_file_remove, proc
<1>3. /\ DOMAIN inode' = DOMAIN inode \ {f}
      /\ \A n \in DOMAIN inode' : inode'[n] = inode[n]
  BY <1>2
<1>4. removals' \in Nat /\ removals' # 0
  BY <1>1, <1>2 DEF FileTypeOK
<1> QED BY <1>1, <1>2, <1>3, <1>4
        DEF FInv, FileTypeOK, Paths, WholeNames, WholeHeld, Agreed, NoLitter

-----------------------------------------------------------------------------
(* The whole of file.c. *)

(* Nothing is held at the start. *)
LEMMA InitFInv == Init => FInv
  BY DEF Init, FileInit, FInv, FileTypeOK, Paths, WholeNames, WholeHeld, Agreed, NoLitter, PCs,
         Holding, Sized

(* The thread of discovery.c changes no file. *)
LEMMA NextFInv == FInv /\ [Next]_vars => FInv'
PROOF
<1> SUFFICES ASSUME FInv, [Next]_vars PROVE FInv'
  OBVIOUS
<1> USE DEF fsys, inotify, proc, filevars
<1>1. CASE FileNext
  <2>1. ASSUME NEW f \in Files, a0_file_remove(f) PROVE FInv'
    BY <2>1, RemoveKeeps
  <2>2. ASSUME NEW p \in Procs,
               a0_file_open(p) \/ OpenStep(p) \/ a0_file_close(p) \/ Fails(p) \/ Die(p)
        PROVE  FInv'
    BY <2>2, WalkStep, OpenKeeps, MktmpKeeps, ResizeKeeps, MoveKeeps, UnlinkKeeps DEF OpenStep
  <2> QED BY <1>1, <2>1, <2>2 DEF FileNext
<1>2. CASE ~FileNext
  <2>1. UNCHANGED <<inode, size, removals, pc, path, ino>>
    BY <1>2 DEF Next, vars, a0_discovery_init, a0_discovery_close, a0_discovery_thread,
           a0_discovery_rootlen, a0_discovery_watch_path, a0_file_iter_init, a0_file_iter_next,
           a0_discovery_inotify_runone, a0_discovery_epoll_runone
  <2> QED BY <2>1 DEF FInv, FileTypeOK, Paths, WholeNames, WholeHeld, Agreed, NoLitter
<1> QED BY <1>1, <1>2

(* The inductive invariant of file.c. *)
THEOREM FileInvariant == Spec => []FInv
  BY InitFInv, NextFInv, PTL DEF Spec

(* Whatever races with whatever: a file is never visible before it has its *)
(* size, and while nobody removes files everyone who opened a path mapped  *)
(* the same one, the creator that lost included, and left no temporary.    *)
THEOREM FilesAreWhole == Spec => []OneWholeFile
PROOF
<1>1. FInv => OneWholeFile
  BY DEF FInv, OneWholeFile, WholeNames, WholeHeld, Agreed, NoLitter, Holding, Sized, Tidy
<1> QED BY <1>1, FileInvariant, PTL

-----------------------------------------------------------------------------
(* The callback of discovery.c. *)

\* The map holds what was announced, each path once.
Announced ==
  /\ announced \in Seq(Matches)
  /\ \A i, j \in 1..Len(announced) : announced[i] = announced[j] => i = j
  /\ discovered = {announced[i] : i \in 1..Len(announced)}

(* A name is considered. *)
LEMMA ConsiderKeeps ==
  ASSUME Announced, NEW f, Consider(f)
  PROVE  Announced'
PROOF
<1>1. CASE UNCHANGED <<discovered, announced>>
  BY <1>1 DEF Announced
<1>2. CASE f \in Matches /\ f \notin discovered
           /\ discovered' = discovered \cup {f} /\ announced' = Append(announced, f)
  <2>1. /\ announced' \in Seq(Matches) /\ Len(announced) \in Nat
        /\ Len(announced') = Len(announced) + 1
        /\ \A i \in 1..Len(announced) : announced'[i] = announced[i]
        /\ announced'[Len(announced) + 1] = f
    BY <1>2 DEF Announced
  <2>2. \A i \in 1..Len(announced) : announced[i] # f
    BY <1>2 DEF Announced
  <2>3. \A i, j \in 1..Len(announced') : announced'[i] = announced'[j] => i = j
    <3> SUFFICES ASSUME NEW i \in 1..Len(announced'), NEW j \in 1..Len(announced'),
                        announced'[i] = announced'[j]
                 PROVE  i = j
      OBVIOUS
    <3>1. CASE i \in 1..Len(announced) /\ j \in 1..Len(announced)
      BY <2>1, <3>1 DEF Announced
    <3>2. CASE ~(i \in 1..Len(announced) /\ j \in 1..Len(announced))
      BY <2>1, <2>2, <3>2
    <3> QED BY <3>1, <3>2
  <2>4. discovered' = {announced'[i] : i \in 1..Len(announced')}
    <3>1. ASSUME NEW x \in discovered' PROVE \E i \in 1..Len(announced') : x = announced'[i]
      <4>1. CASE x = f
        BY <2>1, <4>1
      <4>2. CASE x # f
        <5>1. PICK i \in 1..Len(announced) : x = announced[i]
          BY <1>2, <4>2 DEF Announced
        <5>2. i \in 1..Len(announced') /\ x = announced'[i]
          BY <2>1, <5>1
        <5> QED BY <5>2
      <4> QED BY <4>1, <4>2
    <3>2. ASSUME NEW i \in 1..Len(announced') PROVE announced'[i] \in discovered'
      <4>1. CASE i \in 1..Len(announced)
        BY <1>2, <2>1, <4>1 DEF Announced
      <4>2. CASE i = Len(announced) + 1
        BY <1>2, <2>1, <4>2
      <4> QED BY <2>1, <4>1, <4>2
    <3> QED BY <3>1, <3>2
  <2> QED BY <2>1, <2>3, <2>4 DEF Announced
<1> QED BY <1>1, <1>2 DEF Consider, a0_discovery_announce

(* A path is announced once, and only if it matches, though a scan and an  *)
(* event, or two scans of one directory, may both find it.                 *)
THEOREM PathsAnnouncedOnce == Spec => []AnnouncedOnce
PROOF
<1>1. Init => Announced
  BY DEF Init, Announced
<1>2. Announced /\ [Next]_vars => Announced'
  <2> SUFFICES ASSUME Announced, [Next]_vars PROVE Announced'
    OBVIOUS
  <2>1. CASE \E f : Consider(f)
    BY <2>1, ConsiderKeeps
  <2>2. CASE UNCHANGED <<discovered, announced>>
    BY <2>2 DEF Announced
  <2> QED BY <2>1, <2>2 DEF Next, vars, discovery, a0_discovery_init, a0_discovery_close,
           a0_discovery_thread, a0_discovery_rootlen, a0_discovery_watch_path, a0_file_iter_init,
           a0_file_iter_next, a0_discovery_inotify_runone, a0_discovery_epoll_runone
<1>3. Announced => AnnouncedOnce
  BY DEF Announced, AnnouncedOnce
<1> QED BY <1>1, <1>2, <1>3, PTL DEF Spec
=============================================================================
