------------------------------- MODULE Mutex -------------------------------
(***************************************************************************)
(* What a robust mutex promises its users (include/a0/mtx.h).  One thread  *)
(* holds it at a time.  When the holder dies it is free at once, and those *)
(* that take it find that an owner died, until one of them releases it.    *)
(* (Taking it returns EOWNERDEAD then, but for a wait that has timed out:  *)
(* that keeps its own error.)  The words, lists and queues are not visible.*)
(***************************************************************************)
CONSTANTS Threads, Mutexes

VARIABLES
  holders,   \* per mutex: the thread that holds it, as a set
  orphaned   \* per mutex: an owner died, and whoever takes it finds that

mtxvars == <<holders, orphaned>>

Init ==
  /\ holders = [m \in Mutexes |-> {}]
  /\ orphaned = [m \in Mutexes |-> FALSE]

Take(t, m) ==
  /\ holders[m] = {}
  /\ holders' = [holders EXCEPT ![m] = {t}]
  /\ UNCHANGED orphaned

Give(t, m) ==
  /\ holders[m] = {t}
  /\ holders' = [holders EXCEPT ![m] = {}]
  /\ orphaned' = [orphaned EXCEPT ![m] = FALSE]

\* A thread that dies while it takes or releases a mutex may orphan it too.
Perish(t) ==
  /\ holders' = [m \in Mutexes |-> holders[m] \ {t}]
  /\ \E busy \in SUBSET {m \in Mutexes : holders[m] = {}} :
       orphaned' = [m \in Mutexes |-> orphaned[m] \/ t \in holders[m] \/ m \in busy]

Next == \E t \in Threads : Perish(t) \/ \E m \in Mutexes : Take(t, m) \/ Give(t, m)

Spec == Init /\ [][Next]_mtxvars
=============================================================================
