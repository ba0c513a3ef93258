----------------------------- MODULE Discovery -----------------------------
(***************************************************************************)
(* discovery.c: a thread that finds the files that match a pattern, those  *)
(* that exist and those that appear, while the processes of File make      *)
(* directories, create files and remove them.                              *)
(*                                                                         *)
(* The thread scans from the deepest verbatim directory of the pattern     *)
(* that exists; every directory is watched with inotify before it is read. *)
(* readdir returns every entry that is there from opendir on; one that     *)
(* comes or goes meanwhile is returned or not.  A step is one system call. *)
(***************************************************************************)
EXTENDS File

CONSTANTS
  Prefix,   \* the verbatim directories of the pattern, from the top
  Matches   \* the files that match the pattern

ASSUME DiscoveryAssumption == Prefix \in Seq(Dirs) /\ Prefix # <<>> /\ Matches \subseteq Files

VARIABLES
  thread,      \* "none", "root", "run", "done"
  rootlen,     \* how many directories of Prefix were found to exist
  stack,       \* the calls of a0_discovery_watch_recursive in progress, innermost last
  discovered,  \* _discovered_map
  closing,     \* the eventfd of close was written
  announced    \* auxiliary: the calls of the user's callback, in order

discovery == <<thread, rootlen, stack, discovered, closing, announced>>
vars == <<filevars, discovery>>

Init ==
  /\ FileInit
  /\ thread = "none" /\ rootlen = 1 /\ stack = <<>>
  /\ discovered = {} /\ closing = FALSE /\ announced = <<>>

a0_discovery_init ==
  /\ thread = "none"
  /\ thread' = "root"
  /\ UNCHANGED <<filevars, rootlen, stack, discovered, closing, announced>>

\* A call of a0_discovery_watch_recursive that has done nothing yet.
Called(d) == [dir |-> d, at |-> "watch", must |-> {}, seen |-> {}]
Calls(d) == stack' = Append(stack, Called(d))

StatSucceeds == rootlen < Len(Prefix) /\ Prefix[rootlen + 1] \in dirs

\* One stat of the loop, and the call when the loop ends.
a0_discovery_rootlen ==
  /\ thread = "root"
  /\ \/ /\ StatSucceeds
        /\ rootlen' = rootlen + 1
        /\ UNCHANGED <<thread, stack>>
     \/ /\ ~StatSucceeds
        /\ thread' = "run"
        /\ Calls(Prefix[rootlen])
        /\ UNCHANGED rootlen
  /\ UNCHANGED <<filevars, discovered, closing, announced>>

Top_ == stack[Len(stack)]
Running(at) == stack # <<>> /\ Top_.at = at
Return == stack' = SubSeq(stack, 1, Len(stack) - 1)

\* A directory that is watched is not watched again.
a0_discovery_watch_path ==
  /\ Running("watch")
  /\ watched' = watched \cup {Top_.dir}
  /\ stack' = [stack EXCEPT ![Len(stack)].at = "opendir"]
  /\ UNCHANGED <<fsys, events, removals, failures, proc, thread, rootlen, discovered, closing, announced>>

Entries(d) ==
  {e \in dirs \ {Top} : ParentOf[e] = d}
    \cup {f \in Files \cap DOMAIN inode : DirOf(f) = d}

a0_file_iter_init ==
  /\ Running("opendir")
  /\ stack' = [stack EXCEPT ![Len(stack)].at = "readdir", ![Len(stack)].must = Entries(Top_.dir)]
  /\ UNCHANGED <<filevars, thread, rootlen, discovered, closing, announced>>

\* Mutant: what was announced is not looked up.
AnnounceAlways(f) ==
  /\ discovered' = discovered \cup {f}
  /\ announced' = Append(announced, f)

a0_discovery_announce(f) ==
  \/ f \in discovered /\ UNCHANGED <<discovered, announced>>
  \/ /\ f \notin discovered
     /\ discovered' = discovered \cup {f}
     /\ announced' = Append(announced, f)

\* A name that appeared or was found: only what matches is announced.
Consider(f) ==
  \/ f \in Matches /\ a0_discovery_announce(f)
  \/ f \notin Matches /\ UNCHANGED <<discovered, announced>>

a0_file_iter_next ==
  /\ Running("readdir")
  /\ \/ \E e \in (Top_.must \cup Entries(Top_.dir)) \ Top_.seen :
          LET seen == [stack EXCEPT ![Len(stack)].seen = @ \cup {e}] IN
          \/ /\ e \in Dirs
             /\ stack' = Append(seen, Called(e))
             /\ UNCHANGED <<discovered, announced>>
          \/ e \notin Dirs /\ stack' = seen /\ Consider(e)
     \/ /\ Top_.must \cap Entries(Top_.dir) \subseteq Top_.seen
        /\ Return
        /\ UNCHANGED <<discovered, announced>>
  /\ UNCHANGED <<filevars, thread, rootlen, closing>>

\* Mutant: a directory that appears is watched and not read.
InotifyNoScan ==
  /\ thread = "run" /\ stack = <<>> /\ events # <<>>
  /\ events' = Tail(events)
  /\ LET e == Head(events) IN
     \/ e \in Dirs /\ watched' = watched \cup {e} /\ UNCHANGED <<stack, discovered, announced>>
     \/ e \notin Dirs /\ Consider(e) /\ UNCHANGED <<stack, watched>>
  /\ UNCHANGED <<fsys, removals, failures, proc, thread, rootlen, closing>>

\* One event of those a read has returned.
a0_discovery_inotify_runone ==
  /\ thread = "run" /\ stack = <<>> /\ events # <<>>
  /\ events' = Tail(events)
  /\ LET e == Head(events) IN
     \/ e \in Dirs /\ Calls(e) /\ UNCHANGED <<discovered, announced>>
     \/ e \notin Dirs /\ Consider(e) /\ UNCHANGED stack
  /\ UNCHANGED <<fsys, watched, removals, failures, proc, thread, rootlen, closing>>

\* epoll_wait reports the eventfd, whether or not there are more events.
a0_discovery_epoll_runone ==
  /\ thread = "run" /\ stack = <<>> /\ closing
  /\ thread' = "done"
  /\ UNCHANGED <<filevars, rootlen, stack, discovered, closing, announced>>

a0_discovery_close ==
  /\ thread # "none" /\ ~closing
  /\ closing' = TRUE
  /\ UNCHANGED <<filevars, thread, rootlen, stack, discovered, announced>>

a0_discovery_thread ==
  \/ a0_discovery_rootlen \/ a0_discovery_watch_path \/ a0_file_iter_init
  \/ a0_file_iter_next \/ a0_discovery_inotify_runone \/ a0_discovery_epoll_runone

Next ==
  \/ FileNext /\ UNCHANGED discovery
  \/ a0_discovery_init \/ a0_discovery_close \/ a0_discovery_thread

(* Threads that can run run.  Nobody has to open, close, remove or die.    *)
Spec ==
  /\ Init /\ [][Next]_vars
  /\ WF_vars(a0_discovery_thread)
  /\ \A p \in Procs : WF_vars(OpenStep(p) /\ UNCHANGED discovery)

-----------------------------------------------------------------------------
(* Properties.                                                             *)

(* The callback is called once for a path, though a scan and an event, or  *)
(* two scans of one directory, may both find it; and for what matches.     *)
AnnouncedOnce ==
  /\ \A i, j \in 1..Len(announced) : announced[i] = announced[j] => i = j
  /\ \A i \in 1..Len(announced) : announced[i] \in Matches

(* A file that matches, and stays, is announced wherever in the scan its   *)
(* creation falls, and that of the directories above it: every directory   *)
(* is watched before it is read and read after it appeared.                *)
FileIsAnnounced ==
  \A f \in Matches :
    (f \in DOMAIN inode /\ thread # "none")
      ~> (f \in discovered \/ f \notin DOMAIN inode \/ closing)
=============================================================================
