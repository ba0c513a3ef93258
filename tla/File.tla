-------------------------------- MODULE File --------------------------------
(***************************************************************************)
(* file.c: processes that open, and if need be create, a file of the right *)
(* size under a directory that may not exist yet, while others do the same *)
(* and somebody removes it.                                                *)
(*                                                                         *)
(* The file system is a set of directories and a map from names to inodes; *)
(* the kernel queues an event for every name that appears in a watched     *)
(* directory (not for temporary names, which match no pattern in use).  A  *)
(* step is one system call.  Directories are not removed.                  *)
(***************************************************************************)
EXTENDS Integers, Sequences, FiniteSets

CONSTANTS
  Procs,        \* processes, each of which opens one file, once
  Dirs,         \* directories
  Files,        \* paths of files
  PathTo,       \* the directories on the way to a file, below the top
  ParentOf,     \* the directory that holds a directory
  Top,          \* the directory that exists from the start
  SizeOf,       \* the size a process asks for
  Nobody,       \* no inode
  MaxInodes,    \* bound: files ever created, temporary ones included
  MaxFaults     \* bound: removals, failed system calls and deaths, together

ASSUME FileAssumption ==
  /\ MaxInodes \in Nat /\ MaxFaults \in Nat
  /\ \A p \in Procs : SizeOf[p] \in Nat \ {0}
  /\ Top \in Dirs
  /\ \A p \in Procs : <<"alephzero_mkstemp", p>> \notin Files   \* users open no temporary name

VARIABLES
  dirs,      \* the directories that exist
  inode,     \* the inode of every name that exists, temporary names included
  size,      \* the size of each inode, in order of creation
  watched,   \* the directories with an inotify watch
  events,    \* the queue of inotify events: what appeared
  removals, failures,
  pc,        \* per process: where it is in a0_file_open
  path,      \* per process: the file it opens
  depth,     \* per process: the component that a0_makedirs is at
  ino        \* per process: the inode behind its descriptor and mapping

fsys == <<dirs, inode, size>>
inotify == <<watched, events>>
proc == <<pc, path, depth, ino>>
filevars == <<fsys, inotify, removals, failures, proc>>

Tmp(p) == <<"alephzero_mkstemp", p>>
DirOf(f) == PathTo[f][Len(PathTo[f])]

\* An event for the name n in directory d, if somebody watches it.
Appears(n, d) == events' = IF d \in watched THEN Append(events, n) ELSE events

Faulty == removals + failures < MaxFaults

Goto(p, l) == pc' = [pc EXCEPT ![p] = l]

FileInit ==
  /\ dirs = {Top}
  /\ inode = [n \in {} |-> 0] /\ size = <<>>
  /\ watched = {} /\ events = <<>>
  /\ removals = 0 /\ failures = 0
  /\ pc = [p \in Procs |-> "idle"]
  /\ path \in [Procs -> {CHOOSE f \in Files : TRUE}]
  /\ depth = [p \in Procs |-> 1]
  /\ ino = [p \in Procs |-> Nobody]

a0_file_open(p) ==
  /\ pc[p] = "idle"
  /\ \E f \in Files : path' = [path EXCEPT ![p] = f]
  /\ depth' = [depth EXCEPT ![p] = 1]
  /\ Goto(p, "makedirs")
  /\ UNCHANGED <<fsys, inotify, removals, failures, ino>>

Component(p) == PathTo[path[p]][depth[p]]

\* The next component, or the file itself.
Descend(p) ==
  IF depth[p] = Len(PathTo[path[p]])
    THEN Goto(p, "open") /\ UNCHANGED depth
    ELSE depth' = [depth EXCEPT ![p] = @ + 1] /\ Goto(p, "makedirs")

\* a0_makedirs: stat each component from the top.
a0_makedirs(p) ==
  /\ pc[p] = "makedirs"
  /\ \/ Component(p) \in dirs /\ Descend(p)
     \/ Component(p) \notin dirs /\ Goto(p, "mkdir") /\ UNCHANGED depth
  /\ UNCHANGED <<fsys, inotify, removals, failures, path, ino>>

\* Somebody may have made the directory since: EEXIST is no error.
a0_mkdir(p) ==
  /\ pc[p] = "mkdir"
  /\ dirs' = dirs \cup {Component(p)}
  /\ IF Component(p) \in dirs THEN UNCHANGED events ELSE Appears(Component(p), ParentOf[Component(p)])
  /\ Descend(p)
  /\ UNCHANGED <<inode, size, watched, removals, failures, path, ino>>

\* a0_do_open: an existing file is opened and mapped with the size it has.
a0_open(p) ==
  /\ pc[p] = "open"
  /\ \/ /\ path[p] \in DOMAIN inode
        /\ ino' = [ino EXCEPT ![p] = inode[path[p]]]
        /\ Goto(p, "opened")
     \/ /\ path[p] \notin DOMAIN inode
        /\ Goto(p, "mkstemp")
        /\ UNCHANGED ino
  /\ UNCHANGED <<fsys, inotify, removals, failures, path, depth>>

\* a0_mktmp: an empty file with a name of its own in the same directory.
a0_mktmp(p) ==
  /\ pc[p] = "mkstemp" /\ Len(size) < MaxInodes
  /\ size' = Append(size, 0)
  /\ inode' = [n \in DOMAIN inode \cup {Tmp(p)} |-> IF n = Tmp(p) THEN Len(size) + 1 ELSE inode[n]]
  /\ ino' = [ino EXCEPT ![p] = Len(size) + 1]
  /\ Goto(p, "ftruncate")
  /\ UNCHANGED <<dirs, inotify, removals, failures, path, depth>>

\* fchmod, ftruncate, fstat and mmap.
Resize(p) ==
  /\ pc[p] = "ftruncate"
  /\ size' = [size EXCEPT ![ino[p]] = SizeOf[p]]
  /\ Goto(p, "link")
  /\ UNCHANGED <<dirs, inode, inotify, removals, failures, path, depth, ino>>

(* A system call fails otherwise than by ENOENT or EEXIST: the error goes  *)
(* to the caller.  A temporary file that cannot be sized or mapped stays   *)
(* behind, one that cannot be linked does not.                             *)
Fails(p) ==
  /\ Faulty
  /\ failures' = failures + 1
  /\ \/ /\ pc[p] \in {"mkdir", "open", "mkstemp", "ftruncate"}
        /\ Goto(p, "error") /\ ino' = [ino EXCEPT ![p] = Nobody]
     \/ pc[p] = "link" /\ Goto(p, "unlink_failed") /\ UNCHANGED ino
  /\ UNCHANGED <<fsys, inotify, removals, path, depth>>

Linked(p) == [n \in DOMAIN inode \cup {path[p]} |-> IF n = path[p] THEN ino[p] ELSE inode[n]]

\* Mutant: rename in place of link, which replaces what is there.
TmpRename(p) ==
  /\ pc[p] = "link"
  /\ inode' = Linked(p)
  /\ Appears(path[p], DirOf(path[p]))
  /\ Goto(p, "unlink_won")
  /\ UNCHANGED <<dirs, size, watched, removals, failures, path, depth, ino>>

\* a0_tmp_move: link fails when the name exists.  Either way the temporary name goes.
a0_tmp_move(p) ==
  /\ pc[p] = "link"
  /\ \/ /\ path[p] \notin DOMAIN inode
        /\ inode' = Linked(p)
        /\ Appears(path[p], DirOf(path[p]))
        /\ Goto(p, "unlink_won")
     \/ path[p] \in DOMAIN inode /\ Goto(p, "unlink_lost") /\ UNCHANGED <<inode, events>>
  /\ UNCHANGED <<dirs, size, watched, removals, failures, path, depth, ino>>

\* What follows the unlink: only EEXIST starts the loop of a0_do_open over.
AfterUnlink ==
  [unlink_won |-> "opened", unlink_lost |-> "open", unlink_failed |-> "error"]

\* Mutant: the loop goes on with another temporary file.
UnlinkRetry(p) ==
  /\ pc[p] \in DOMAIN AfterUnlink
  /\ inode' = [n \in DOMAIN inode \ {Tmp(p)} |-> inode[n]]
  /\ Goto(p, IF pc[p] = "unlink_lost" THEN "mkstemp" ELSE AfterUnlink[pc[p]])
  /\ ino' = IF pc[p] = "unlink_won" THEN ino ELSE [ino EXCEPT ![p] = Nobody]
  /\ UNCHANGED <<dirs, size, inotify, removals, failures, path, depth>>

Unlink(p) ==
  /\ pc[p] \in DOMAIN AfterUnlink
  /\ inode' = [n \in DOMAIN inode \ {Tmp(p)} |-> inode[n]]
  /\ Goto(p, AfterUnlink[pc[p]])
  /\ ino' = IF pc[p] = "unlink_won" THEN ino ELSE [ino EXCEPT ![p] = Nobody]
  /\ UNCHANGED <<dirs, size, inotify, removals, failures, path, depth>>

a0_file_close(p) ==
  /\ pc[p] = "opened"
  /\ ino' = [ino EXCEPT ![p] = Nobody]
  /\ Goto(p, "closed")
  /\ UNCHANGED <<fsys, inotify, removals, failures, path, depth>>

a0_file_remove(f) ==
  /\ f \in DOMAIN inode /\ Faulty
  /\ removals' = removals + 1
  /\ inode' = [n \in DOMAIN inode \ {f} |-> inode[n]]
  /\ UNCHANGED <<dirs, size, inotify, failures, proc>>

Die(p) ==
  /\ pc[p] \notin {"idle", "error", "dead"} /\ Faulty
  /\ failures' = failures + 1
  /\ Goto(p, "dead") /\ ino' = [ino EXCEPT ![p] = Nobody]
  /\ UNCHANGED <<fsys, inotify, removals, path, depth>>

OpenStep(p) ==
  \/ a0_makedirs(p) \/ a0_mkdir(p) \/ a0_open(p) \/ a0_mktmp(p)
  \/ Resize(p) \/ a0_tmp_move(p) \/ Unlink(p)

FileNext ==
  \/ \E p \in Procs : a0_file_open(p) \/ OpenStep(p) \/ a0_file_close(p) \/ Fails(p) \/ Die(p)
  \/ \E f \in Files : a0_file_remove(f)

-----------------------------------------------------------------------------
(* Properties.                                                             *)

(* A name of a file is never that of a file still being made, and while    *)
(* nobody removes it, whoever has opened a path has the one file that is   *)
(* there, made once, also a creator that lost the race; and no temporary   *)
(* name of his is left.                                                    *)
OneWholeFile ==
  /\ \A f \in Files \cap DOMAIN inode : size[inode[f]] # 0
  /\ \A p \in Procs : pc[p] = "opened" =>
       /\ size[ino[p]] # 0
       /\ removals = 0 => path[p] \in DOMAIN inode /\ inode[path[p]] = ino[p]
       /\ Tmp(p) \notin DOMAIN inode

(* a0_file_open returns: who loses the race to create the file goes back   *)
(* to open it, and can lose again only if the file has been removed.       *)
OpenReturns == \A p \in Procs : pc[p] = "makedirs" ~> pc[p] \in {"opened", "error", "dead"}
=============================================================================
