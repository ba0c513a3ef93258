------------------------------ MODULE RobustMtx ------------------------------
(***************************************************************************)
(* The mutex and condition variable of AlephZero (src/mtx.c, src/ftx.h) on *)
(* the robust list of each thread (src/robust.c).  The transport, events,  *)
(* latches and the deadman mutex all rest on them.                         *)
(*                                                                         *)
(* A step is one store to shared memory or to the robust list, one swap, or*)
(* one system call: a thread may die between any two of them.  The kernel  *)
(* (priority-inheriting futexes, requeueing, the walk of the robust list   *)
(* at thread exit) is modelled from how the code uses it.                  *)
(***************************************************************************)
EXTENDS Integers, FiniteSets

CONSTANTS
  Threads,
  Mutexes,        \* each with one condition variable
  Deadmen,        \* the mutexes that deadman objects lock (deadman_mtx.c)
  Users,          \* the threads that have mapped the file a mutex lies in
  TimedThreads,   \* the threads that give deadlines
  ForeignRelease, \* may a0_deadman_close run on a thread that is not the owner?
  MaxWakes,       \* bound: value of a condition variable
  MaxDeaths,      \* bound: number of thread deaths
  Offset,         \* the value of futex_offset in a list head
  None            \* the null pointer, and "no thread"

ASSUME RobustAssumption ==
  /\ Deadmen \subseteq Mutexes /\ TimedThreads \subseteq Threads
  /\ Users \in [Mutexes -> SUBSET Threads]
  /\ Threads \cap Mutexes = {} /\ Threads # {}
  /\ None \notin Threads \cup Mutexes /\ Offset \notin Threads \cup Mutexes \cup {None}
  /\ ForeignRelease \in BOOLEAN
  /\ MaxWakes \in Nat /\ MaxDeaths \in Nat
  /\ IsFiniteSet(Threads) /\ IsFiniteSet(Mutexes)

VARIABLES
  \* shared memory: the futex word of a mutex, the value of its condition variable
  ftx, cnd,
  \* the links of list nodes.  A node is a mutex, or the head of a thread's
  \* list, whose prev lies over robust_list_head.futex_offset
  next, prev,
  \* robust_list_head.list_op_pending
  pending,
  \* the kernel: who is queued on a mutex, who sleeps on a condition variable
  queue, sleepers,
  \* each thread: where it is, in which operation, on what, with which locals
  pc, op, arg, first, before, val,
  \* auxiliary: the mutexes a thread was told it holds; wake-ups cut short by
  \* a death; number of deaths
  held, cut, deaths

memory == <<ftx, cnd>>
list   == <<next, prev, pending>>
kernel == <<queue, sleepers>>
local  == <<pc, op, arg, first, before, val>>
ghost  == <<held, cut, deaths>>
vars   == <<memory, list, kernel, local, ghost>>

Nodes == Mutexes \cup Threads
Word  == [tid : Threads \cup {None}, waiters : BOOLEAN, died : BOOLEAN]
Free  == [tid |-> None, waiters |-> FALSE, died |-> FALSE]
Ops   == {"none", "lock", "try", "unlock", "wait", "relock", "wake"}
PCs   == {"idle", "dead", "cas", "lock_pi", "blocked", "try", "try_pi",
          "node", "publish", "back", "end",
          "unlink", "unlink_back", "clear", "release", "unlock_pi",
          "rewait", "requeue_wait", "asleep", "requeue"}

TypeOK ==
  /\ ftx \in [Mutexes -> Word] /\ cnd \in [Mutexes -> 0..MaxWakes]
  /\ next \in [Nodes -> Nodes \cup {None}] /\ prev \in [Nodes -> Nodes \cup {None, Offset}]
  /\ \A m \in Mutexes : prev[m] # Offset
  /\ pending \in [Threads -> Mutexes \cup {None}]
  /\ queue \in [Mutexes -> SUBSET Threads] /\ sleepers \in [Mutexes -> SUBSET Threads]
  /\ pc \in [Threads -> PCs] /\ op \in [Threads -> Ops]
  /\ arg \in [Threads -> Mutexes \cup {None}] /\ first \in [Threads -> Nodes \cup {None}]
  /\ before \in [Threads -> Nodes \cup {None}]
  /\ val \in [Threads -> 0..MaxWakes]
  /\ held \in [Threads -> SUBSET Mutexes] /\ cut \in [Mutexes -> BOOLEAN]
  /\ deaths \in 0..MaxDeaths

(* Every thread has run a0_robust_init_thread; no mutex is locked. *)
Init ==
  /\ ftx = [m \in Mutexes |-> Free] /\ cnd = [m \in Mutexes |-> 0]
  /\ next = [n \in Nodes |-> IF n \in Threads THEN n ELSE None]
  /\ prev = [n \in Nodes |-> IF n \in Threads THEN Offset ELSE None]
  /\ pending = [t \in Threads |-> None]
  /\ queue = [m \in Mutexes |-> {}] /\ sleepers = [m \in Mutexes |-> {}]
  /\ pc = [t \in Threads |-> "idle"] /\ op = [t \in Threads |-> "none"]
  /\ arg = [t \in Threads |-> None] /\ first = [t \in Threads |-> None]
  /\ before = [t \in Threads |-> None] /\ val = [t \in Threads |-> 0]
  /\ held = [t \in Threads |-> {}] /\ cut = [m \in Mutexes |-> FALSE]
  /\ deaths = 0

GoTo(t, to)     == pc' = [pc EXCEPT ![t] = to]
Go(t, from, to) == pc[t] = from /\ GoTo(t, to)

(* Entering an operation o on m.  All but a wake-up announce it to the *)
(* kernel (a0_robust_op_start).                                        *)
Enter(t, m, o, to) ==
  /\ Go(t, "idle", to)
  /\ op' = [op EXCEPT ![t] = o]
  /\ arg' = [arg EXCEPT ![t] = m]
a0_robust_op_start(t, m) == pending' = [pending EXCEPT ![t] = m]

SetWord(m, w) == ftx' = [ftx EXCEPT ![m] = w]

(* The kernel gives m to the queued thread w. *)
Granted(m, w, died) ==
  /\ SetWord(m, [tid |-> w, waiters |-> TRUE, died |-> died])
  /\ queue' = [queue EXCEPT ![m] = @ \ {w}]

-----------------------------------------------------------------------------
(* a0_mtx_timedlock, a0_mtx_trylock: announce, take the word, add to the list. *)

a0_mtx_timedlock(t, m) ==
  /\ m \notin Deadmen
  /\ Enter(t, m, "lock", "cas")
  /\ a0_robust_op_start(t, m)
  /\ UNCHANGED <<memory, next, prev, kernel, first, before, val, ghost>>

(* Also a0_deadman_mtx_trylock, which an owner leaves at once.  The sleep of *)
(* a0_deadman_mtx_timedlock is in DeadmanMtx: here it is a run of attempts.  *)
a0_mtx_trylock(t, m) ==
  /\ m \in Deadmen => m \notin held[t]
  /\ Enter(t, m, "try", "try")
  /\ a0_robust_op_start(t, m)
  /\ UNCHANGED <<memory, next, prev, kernel, first, before, val, ghost>>

LockCas(t) ==
  LET m == arg[t]
  IN  /\ pc[t] = "cas"
      /\ \/ /\ ftx[m] = Free
            /\ GoTo(t, "node")
            /\ SetWord(m, [Free EXCEPT !.tid = t])
         \/ /\ ftx[m] # Free
            /\ GoTo(t, "lock_pi")
            /\ UNCHANGED ftx
      /\ UNCHANGED <<cnd, list, kernel, op, arg, first, before, val, ghost>>

a0_ftx_lock_pi(t) ==
  LET m == arg[t]
  IN  /\ pc[t] = "lock_pi"
      /\ \/ /\ ftx[m].tid = None
            /\ GoTo(t, "node")
            /\ SetWord(m, [tid |-> t, waiters |-> FALSE, died |-> ftx[m].died])
            /\ UNCHANGED queue
         \/ /\ ftx[m].tid = t                          \* EDEADLK
            /\ GoTo(t, "end")
            /\ UNCHANGED <<ftx, queue>>
         \/ /\ ftx[m].tid \notin {None, t}
            /\ GoTo(t, "blocked")
            /\ SetWord(m, [ftx[m] EXCEPT !.waiters = TRUE])
            /\ queue' = [queue EXCEPT ![m] = @ \cup {t}]
      /\ UNCHANGED <<cnd, list, sleepers, op, arg, first, before, val, ghost>>

LockTimeout(t) ==
  /\ t \in TimedThreads /\ op[t] = "lock"
  /\ Go(t, "blocked", "end")
  /\ queue' = [queue EXCEPT ![arg[t]] = @ \ {t}]
  /\ UNCHANGED <<memory, list, sleepers, op, arg, first, before, val, ghost>>

(* Mutant: a word with FUTEX_OWNER_DIED is taken without asking the kernel. *)
TryDied(t) ==
  LET m == arg[t]
  IN  /\ pc[t] = "try"
      /\ \/ /\ ftx[m] = Free \/ ftx[m].died
            /\ GoTo(t, "node")
            /\ SetWord(m, [Free EXCEPT !.tid = t])
         \/ /\ ftx[m] # Free /\ ~ftx[m].died
            /\ GoTo(t, "end")
            /\ UNCHANGED ftx
      /\ UNCHANGED <<cnd, list, kernel, op, arg, first, before, val, ghost>>

(* a0_mtx_trylock_impl, and a0_deadman_mtx_trylock_impl, which clears *)
(* FUTEX_OWNER_DIED by itself.                                        *)
TryCas(t) ==
  LET m == arg[t]
  IN  /\ pc[t] = "try"
      /\ \/ /\ ftx[m] = Free \/ (m \in Deadmen /\ ftx[m].tid = None)
            /\ GoTo(t, "node")
            /\ SetWord(m, [Free EXCEPT !.tid = t])
         \/ /\ ftx[m].died /\ m \notin Deadmen
            /\ GoTo(t, "try_pi")
            /\ UNCHANGED ftx
         \/ /\ IF m \in Deadmen THEN ftx[m].tid # None ELSE ftx[m] # Free /\ ~ftx[m].died
            /\ GoTo(t, "end")
            /\ UNCHANGED ftx
      /\ UNCHANGED <<cnd, list, kernel, op, arg, first, before, val, ghost>>

a0_ftx_trylock_pi(t) ==
  LET m == arg[t]
  IN  /\ pc[t] = "try_pi"
      /\ \/ /\ ftx[m].tid = None
            /\ GoTo(t, "node")
            /\ SetWord(m, [tid |-> t, waiters |-> FALSE, died |-> ftx[m].died])
         \/ /\ ftx[m].tid # None
            /\ GoTo(t, "end")
            /\ UNCHANGED ftx
      /\ UNCHANGED <<cnd, list, kernel, op, arg, first, before, val, ghost>>

-----------------------------------------------------------------------------
(* a0_robust_op_add, store by store. *)

AddNode(t) ==
  LET m == arg[t]
  IN  /\ Go(t, "node", "publish")
      /\ first' = [first EXCEPT ![t] = next[t]]
      /\ prev' = [prev EXCEPT ![m] = t]
      /\ next' = [next EXCEPT ![m] = next[t]]
      /\ UNCHANGED <<memory, pending, kernel, op, arg, before, val, ghost>>

AddPublish(t) ==
  /\ Go(t, "publish", "back")
  /\ next' = [next EXCEPT ![t] = arg[t]]
  /\ UNCHANGED <<memory, prev, pending, kernel, op, arg, first, before, val, ghost>>

(* Mutant: the old first node keeps the head as its predecessor. *)
AddBackOneWay(t) ==
  /\ Go(t, "back", "end")
  /\ first' = [first EXCEPT ![t] = None]
  /\ held' = [held EXCEPT ![t] = @ \cup {arg[t]}]
  /\ UNCHANGED <<memory, list, kernel, op, arg, before, val, cut, deaths>>

AddBack(t) ==
  /\ Go(t, "back", "end")
  /\ prev' = IF first[t] = t THEN prev ELSE [prev EXCEPT ![first[t]] = arg[t]]
  /\ first' = [first EXCEPT ![t] = None]
  /\ held' = [held EXCEPT ![t] = @ \cup {arg[t]}]
  /\ UNCHANGED <<memory, next, pending, kernel, op, arg, before, val, cut, deaths>>

(* Leaving an operation, or a0_mtx_unlock inside a0_cnd_timedwait. *)
a0_robust_op_end(t) ==
  /\ pending' = [pending EXCEPT ![t] = None]
  /\ \/ /\ op[t] = "wait" /\ arg[t] \notin held[t]
        /\ Go(t, "end", "rewait")
        /\ UNCHANGED <<op, arg, val>>
     \/ /\ op[t] # "wait" \/ arg[t] \in held[t]
        /\ Go(t, "end", "idle")
        /\ op' = [op EXCEPT ![t] = "none"] /\ arg' = [arg EXCEPT ![t] = None]
        /\ val' = [val EXCEPT ![t] = 0]
  /\ UNCHANGED <<memory, next, prev, kernel, first, before, ghost>>

-----------------------------------------------------------------------------
(* a0_mtx_unlock: announce, take off the list, clear the word. *)

(* Only the owner can unlock. *)
a0_mtx_unlock(t, m) ==
  /\ m \notin Deadmen /\ m \in held[t] /\ ftx[m].tid = t
  /\ Enter(t, m, "unlock", "unlink")
  /\ a0_robust_op_start(t, m)
  /\ held' = [held EXCEPT ![t] = @ \ {m}]
  /\ UNCHANGED <<memory, next, prev, kernel, first, before, val, cut, deaths>>

(* a0_deadman_mtx_unlock checks the object, not the thread: a0_deadman_close *)
(* may release what another thread took.                                     *)
a0_deadman_mtx_unlock(t, m) ==
  /\ m \in Deadmen
  /\ \E u \in Threads : /\ m \in held[u] /\ (u = t \/ ForeignRelease)
                        /\ held' = [held EXCEPT ![u] = @ \ {m}]
  /\ Enter(t, m, "unlock", "unlink")
  /\ a0_robust_op_start(t, m)
  /\ UNCHANGED <<memory, next, prev, kernel, first, before, val, cut, deaths>>

(* a0_robust_op_del. *)
DelNext(t) ==
  LET m == arg[t]
  IN  /\ Go(t, "unlink", "unlink_back")
      /\ before' = [before EXCEPT ![t] = prev[m]] /\ first' = [first EXCEPT ![t] = next[m]]
      /\ next' = [next EXCEPT ![prev[m]] = next[m]]
      /\ UNCHANGED <<memory, prev, pending, kernel, op, arg, val, ghost>>

DelPrev(t) ==
  /\ Go(t, "unlink_back", "clear")
  /\ prev' = IF first[t] = t THEN prev ELSE [prev EXCEPT ![first[t]] = before[t]]
  /\ before' = [before EXCEPT ![t] = None] /\ first' = [first EXCEPT ![t] = None]
  /\ UNCHANGED <<memory, next, pending, kernel, op, arg, val, ghost>>

ClearWord(t) ==
  LET m == arg[t]
  IN  /\ pc[t] = "clear"
      /\ \/ /\ m \notin Deadmen
            /\ GoTo(t, "release")
            /\ SetWord(m, [ftx[m] EXCEPT !.died = FALSE])
         \/ /\ m \in Deadmen
            /\ GoTo(t, "end")
            /\ SetWord(m, Free)
      /\ UNCHANGED <<cnd, list, kernel, op, arg, first, before, val, ghost>>

(* Mutant: the word is cleared without looking for waiters. *)
ReleaseBlind(t) ==
  /\ Go(t, "release", "end")
  /\ SetWord(arg[t], Free)
  /\ UNCHANGED <<cnd, list, kernel, op, arg, first, before, val, ghost>>

ReleaseCas(t) ==
  LET m == arg[t]
  IN  /\ pc[t] = "release"
      /\ \/ /\ ~ftx[m].waiters
            /\ GoTo(t, "end")
            /\ SetWord(m, Free)
         \/ /\ ftx[m].waiters
            /\ GoTo(t, "unlock_pi")
            /\ UNCHANGED ftx
      /\ UNCHANGED <<cnd, list, kernel, op, arg, first, before, val, ghost>>

a0_ftx_unlock_pi(t) ==
  LET m == arg[t]
  IN  /\ pc[t] = "unlock_pi"
      /\ \/ /\ queue[m] = {}
            /\ SetWord(m, Free)
            /\ GoTo(t, "end")
            /\ UNCHANGED queue
         \/ \E w \in queue[m] : /\ Granted(m, w, FALSE)
                                /\ pc' = [pc EXCEPT ![t] = "end", ![w] = "node"]
      /\ UNCHANGED <<cnd, list, sleepers, op, arg, first, before, val, ghost>>

-----------------------------------------------------------------------------
(* a0_cnd_timedwait: remember the value, unlock, announce, sleep.  Whatever *)
(* ends the sleep, the mutex is taken again before it returns.              *)
a0_cnd_timedwait(t, m) ==
  /\ m \notin Deadmen /\ m \in held[t] /\ ftx[m].tid = t
  /\ Enter(t, m, "wait", "unlink")
  /\ val' = [val EXCEPT ![t] = cnd[m]]
  /\ a0_robust_op_start(t, m)
  /\ held' = [held EXCEPT ![t] = @ \ {m}]
  /\ UNCHANGED <<memory, next, prev, kernel, first, before, cut, deaths>>

(* Mutant: the wait is not announced to the kernel. *)
WaitUnannounced(t) ==
  /\ Go(t, "rewait", "requeue_wait")
  /\ UNCHANGED <<memory, list, kernel, op, arg, first, before, val, ghost>>

WaitStart(t) ==
  /\ Go(t, "rewait", "requeue_wait")
  /\ a0_robust_op_start(t, arg[t])
  /\ UNCHANGED <<memory, next, prev, kernel, op, arg, first, before, val, ghost>>

(* Mutant: the value is not compared again when going to sleep. *)
SleepUnconfirmed(t) ==
  /\ Go(t, "requeue_wait", "asleep")
  /\ sleepers' = [sleepers EXCEPT ![arg[t]] = @ \cup {t}]
  /\ UNCHANGED <<memory, list, queue, op, arg, first, before, val, ghost>>

a0_ftx_wait_requeue_pi(t) ==
  LET m == arg[t]
  IN  /\ pc[t] = "requeue_wait"
      /\ \/ /\ cnd[m] = val[t]
            /\ GoTo(t, "asleep")
            /\ sleepers' = [sleepers EXCEPT ![m] = @ \cup {t}]
            /\ UNCHANGED op
         \/ /\ cnd[m] # val[t]                          \* EAGAIN
            /\ GoTo(t, "cas")
            /\ op' = [op EXCEPT ![t] = "relock"]
            /\ UNCHANGED sleepers
      /\ UNCHANGED <<memory, list, queue, arg, first, before, val, ghost>>

(* ETIMEDOUT, asleep or already requeued. *)
WaitTimeout(t) ==
  /\ t \in TimedThreads /\ op[t] = "wait"
  /\ pc[t] \in {"asleep", "blocked"}
  /\ pc' = [pc EXCEPT ![t] = "cas"]
  /\ op' = [op EXCEPT ![t] = "relock"]
  /\ sleepers' = [sleepers EXCEPT ![arg[t]] = @ \ {t}]
  /\ queue' = [queue EXCEPT ![arg[t]] = @ \ {t}]
  /\ UNCHANGED <<memory, list, arg, first, before, val, ghost>>

-----------------------------------------------------------------------------
(* a0_cnd_wake: change the value, then requeue at most cnt + 1 sleepers if *)
(* nobody changed it since.                                                *)
a0_cnd_wake(t, m) ==
  /\ m \notin Deadmen
  /\ cnd[m] < MaxWakes
  /\ Enter(t, m, "wake", "requeue")
  /\ cnd' = [cnd EXCEPT ![m] = @ + 1]
  /\ val' = [val EXCEPT ![t] = cnd[m] + 1]
  /\ UNCHANGED <<ftx, list, kernel, first, before, ghost>>

a0_cnd_broadcast(t, m) == a0_cnd_wake(t, m)

(* The first one may get the mutex at once, the others queue on it. *)
Requeue(t) ==
  LET m == arg[t] IN
  /\ pc[t] = "requeue" /\ cnd[m] = val[t]
  /\ sleepers' = [sleepers EXCEPT ![m] = {}]
  /\ LET S == sleepers[m]
         queued == [u \in Threads |-> IF u = t THEN "idle" ELSE IF u \in S THEN "blocked" ELSE pc[u]]
     IN  \/ /\ S # {} /\ ftx[m].tid = None
            /\ \E w \in S :
                 /\ SetWord(m, [tid |-> w, waiters |-> S # {w}, died |-> ftx[m].died])
                 /\ queue' = [queue EXCEPT ![m] = @ \cup (S \ {w})]
                 /\ pc' = [queued EXCEPT ![w] = "node"]
         \/ /\ S # {} /\ ftx[m].tid # None
            /\ SetWord(m, [ftx[m] EXCEPT !.waiters = TRUE])
            /\ queue' = [queue EXCEPT ![m] = @ \cup S]
            /\ pc' = queued
         \/ /\ S = {}
            /\ pc' = queued
            /\ UNCHANGED <<ftx, queue>>
  /\ op' = [op EXCEPT ![t] = "none"] /\ arg' = [arg EXCEPT ![t] = None]
  /\ val' = [val EXCEPT ![t] = 0]
  /\ UNCHANGED <<cnd, list, first, before, ghost>>

(* Another thread is also trying to wake this condition variable. *)
RequeueAgain(t) ==
  /\ pc[t] = "requeue" /\ cnd[arg[t]] # val[t]
  /\ val' = [val EXCEPT ![t] = cnd[arg[t]]]
  /\ UNCHANGED <<memory, list, kernel, pc, op, arg, first, before, ghost>>

-----------------------------------------------------------------------------
(* The death of a thread.  The kernel walks its list and the pending        *)
(* operation, finds each futex word through futex_offset, and marks those   *)
(* the thread owns; a mutex with queued threads goes to one of them, listed *)
(* or not.                                                                  *)
(* What a walk from a thread's head comes to: the least set of mutexes that *)
(* holds the head's successor and, with a mutex, the mutex's successor.     *)
Closed(t, S) ==
  /\ next[t] \in Mutexes => next[t] \in S
  /\ \A n \in S : next[n] \in Mutexes => next[n] \in S

Listed(t) == {m \in Mutexes : \A S \in SUBSET Mutexes : Closed(t, S) => m \in S}

Die(t) ==
  /\ deaths < MaxDeaths /\ pc[t] # "dead"
  /\ LET owned  == {m \in Mutexes : ftx[m].tid = t}
         found  == IF prev[t] = Offset THEN Listed(t) \cup {pending[t]} ELSE {}
         handed == {m \in owned : queue[m] # {}}
     IN  \E heir \in [handed -> Threads] :
           /\ \A m \in handed : heir[m] \in queue[m]
           /\ ftx' = [m \in Mutexes |->
                        IF m \in handed
                          THEN [tid |-> heir[m], waiters |-> TRUE, died |-> TRUE]
                        ELSE IF m \in owned \cap found
                          THEN [tid |-> None, waiters |-> ftx[m].waiters, died |-> TRUE]
                        ELSE ftx[m]]
           /\ queue' = [m \in Mutexes |->
                          queue[m] \ ({t} \cup IF m \in handed THEN {heir[m]} ELSE {})]
           /\ pc' = [u \in Threads |-> IF u = t THEN "dead"
                                       ELSE IF \E m \in handed : heir[m] = u THEN "node" ELSE pc[u]]
  /\ sleepers' = [m \in Mutexes |-> sleepers[m] \ {t}]
  /\ cut' = [m \in Mutexes |-> cut[m] \/ (pc[t] = "requeue" /\ arg[t] = m)]
  /\ held' = [held EXCEPT ![t] = {}]
  /\ op' = [op EXCEPT ![t] = "none"] /\ arg' = [arg EXCEPT ![t] = None]
  /\ first' = [first EXCEPT ![t] = None] /\ before' = [before EXCEPT ![t] = None]
  /\ val' = [val EXCEPT ![t] = 0]
  /\ deaths' = deaths + 1
  /\ UNCHANGED <<cnd, list>>

-----------------------------------------------------------------------------
Calling(t) == \E m \in {x \in Mutexes : t \in Users[x]} :
  \/ a0_mtx_timedlock(t, m) \/ a0_mtx_trylock(t, m) \/ a0_mtx_unlock(t, m)
  \/ a0_deadman_mtx_unlock(t, m) \/ a0_cnd_timedwait(t, m) \/ a0_cnd_broadcast(t, m)
Running(t) ==
  \/ LockCas(t) \/ a0_ftx_lock_pi(t) \/ TryCas(t) \/ a0_ftx_trylock_pi(t)
  \/ AddNode(t) \/ AddPublish(t) \/ AddBack(t) \/ a0_robust_op_end(t)
  \/ DelNext(t) \/ DelPrev(t) \/ ClearWord(t) \/ ReleaseCas(t) \/ a0_ftx_unlock_pi(t)
  \/ WaitStart(t) \/ a0_ftx_wait_requeue_pi(t) \/ Requeue(t) \/ RequeueAgain(t)

Next == \E t \in Threads : Calling(t) \/ Running(t) \/ LockTimeout(t) \/ WaitTimeout(t) \/ Die(t)

Spec == Init /\ [][Next]_vars

-----------------------------------------------------------------------------
(***************************************************************************)
(* Properties                                                              *)
(***************************************************************************)

(* Robustness: no mutex is left to a dead thread, at whatever store of      *)
(* a0_robust_op_add, a0_robust_op_del, lock, unlock or wait it died, with   *)
(* however many other mutexes on its list (one that somebody is just        *)
(* releasing in its place is not left).                                     *)
DeadOwnNothing ==
  \A m \in Mutexes : ftx[m].tid # None =>
    \/ pc[ftx[m].tid] # "dead"
    \/ \E u \in Threads : op[u] = "unlock" /\ arg[u] = m

(* A mutex that a thread was told it holds is its own: no handover, requeue, *)
(* timeout or takeover from a dead owner gives it to another one as well.    *)
HeldIsOwned == \A t \in Threads : \A m \in held[t] : ftx[m].tid = t

(* To its users a mutex is the robust mutex of Mutex.  Nobody is told that   *)
(* he holds what another holds, a holder's death frees the mutex at once, and *)
(* that an owner died is not lost on any way to the next one (lock, try,     *)
(* handover, requeue, timed-out wait): a mutex counts as orphaned while      *)
(* FUTEX_OWNER_DIED is in its word, unless a thread is about to clear it.    *)
Clearing(m) == \E t \in Threads : arg[t] = m /\ pc[t] \in {"unlink", "unlink_back", "clear"}
Mtx == INSTANCE Mutex WITH
         Mutexes  <- Mutexes \ Deadmen,
         holders  <- [m \in Mutexes \ Deadmen |-> {t \in Threads : m \in held[t]}],
         orphaned <- [m \in Mutexes \ Deadmen |-> ftx[m].died /\ ~Clearing(m)]
MutexSpec == Mtx!Spec

(* Between operations the robust list of a thread holds exactly the mutexes  *)
(* it holds, linked in both directions, and nothing of its head has changed. *)
ListExact ==
  \A t \in Threads :
    pc[t] # "dead" /\ pending[t] = None =>
      /\ Listed(t) = held[t]
      /\ prev[t] = Offset
      /\ \A m \in held[t] : /\ next[prev[m]] = m
                            /\ next[m] # t => next[m] \in held[t] /\ prev[next[m]] = m

(* Nobody is queued on a mutex that is free: every path that releases one, *)
(* and every timeout and requeue racing with it, serves the queue.         *)
QueueIsServed == \A m \in Mutexes : queue[m] # {} => ftx[m].tid # None /\ ftx[m].waiters

(* No wake-up is lost: whoever still sleeps through a change of the condition *)
(* variable is going to be requeued by a thread that is on its way, unless    *)
(* that thread died.                                                          *)
WakeIsComing ==
  \A m \in Mutexes : \A t \in sleepers[m] :
    cnd[m] # val[t] => cut[m] \/ \E u \in Threads : pc[u] = "requeue" /\ arg[u] = m
=============================================================================
