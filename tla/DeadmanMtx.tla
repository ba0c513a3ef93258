----------------------------- MODULE DeadmanMtx -----------------------------
(***************************************************************************)
(* The deadman mutex (src/deadman_mtx.c): a robust futex whose being       *)
(* locked and unlocked other threads can wait for without taking it, with  *)
(* a token that counts the times it was locked.                            *)
(*                                                                         *)
(* A step is one access to shared memory or one system call.  Each user    *)
(* is a process with one a0_deadman_mtx_t, one thread that operates it and *)
(* one thread that may shut it down.  The kernel's part of the futex       *)
(* (FUTEX_WAIT, FUTEX_WAKE, the robust list) is modelled from its use.     *)
(***************************************************************************)
EXTENDS Integers, FiniteSets

CONSTANTS
  Users,        \* the processes that map the shared token
  Lockers,      \* the users that lock and unlock
  Watchers,     \* the users that wait for the mutex to be locked or unlocked
  TimedUsers,   \* the users that give a deadline
  Closers,      \* the users whose object is shut down from another thread
  Buffered,     \* may a relaxed store become visible after a later load?
  MaxEpochs,    \* bound: number of times the mutex is locked
  MaxDeaths,    \* bound: number of process deaths
  None          \* "no thread"

ASSUME DeadmanAssumption ==
  /\ Lockers \subseteq Users /\ Watchers \subseteq Users
  /\ TimedUsers \subseteq Users /\ Closers \subseteq Users
  /\ None \notin Users /\ IsFiniteSet(Users)
  /\ Buffered \in BOOLEAN
  /\ MaxEpochs \in Nat /\ MaxDeaths \in Nat

VARIABLES
  \* the shared token
  ftx,        \* the futex word: the owner's tid, FUTEX_WAITERS, FUTEX_OWNER_DIED
  tkn,
  \* the a0_deadman_mtx_t of each user
  shutdown, inop, is_owner,
  \* the operation of each user: where it is, which it is, the words it loaded, its token
  pc, op, old, cur, tok,
  \* the thread that shuts the object down
  closer,
  \* auxiliary: how often the mutex was locked, the token of each time, the
  \* time a user saw, the number of deaths
  epoch, token_of, seen, deaths

token  == <<ftx, tkn>>
object == <<shutdown, inop, is_owner>>
call   == <<pc, op, old, cur, tok>>
ghost  == <<epoch, token_of, seen>>
vars   == <<token, object, call, closer, ghost, deaths>>

Word    == [tid : Users \cup {None}, waiters : BOOLEAN, died : BOOLEAN]
Free    == [tid |-> None, waiters |-> FALSE, died |-> FALSE]
Flags   == {"no", "buffered", "yes"}      \* a relaxed store, visible to others once "yes"
Ops     == {"none", "lock", "try", "locked", "unlocked"}
PCs     == {"dead", "idle", "load", "try", "cas", "bump", "bcast", "cmp", "tkn",
            "mark", "wait", "sleep", "unlock"}
Epochs  == 1..MaxEpochs

TypeOK ==
  /\ ftx \in Word
  /\ tkn \in 0..MaxEpochs
  /\ shutdown \in [Users -> Flags] /\ inop \in [Users -> Flags]
  /\ is_owner \in [Users -> BOOLEAN]
  /\ pc \in [Users -> PCs] /\ op \in [Users -> Ops]
  /\ old \in [Users -> Word] /\ cur \in [Users -> Word] /\ tok \in [Users -> Nat]
  /\ closer \in [Users -> {"none", "spin", "done"}]
  /\ epoch \in 0..MaxEpochs
  /\ token_of \in [Epochs -> Nat]
  /\ seen \in [Users -> Nat]
  /\ deaths \in Nat

Init ==
  /\ ftx = Free
  /\ tkn = 0
  /\ shutdown = [u \in Users |-> "no"] /\ inop = [u \in Users |-> "no"]
  /\ is_owner = [u \in Users |-> FALSE]
  /\ pc = [u \in Users |-> "idle"] /\ op = [u \in Users |-> "none"]
  /\ old = [u \in Users |-> Free] /\ cur = [u \in Users |-> Free] /\ tok = [u \in Users |-> 0]
  /\ closer = [u \in Users |-> "none"]
  /\ epoch = 0
  /\ token_of = [e \in Epochs |-> 0]
  /\ seen = [u \in Users |-> 0]
  /\ deaths = 0

Go(u, from, to) == pc[u] = from /\ pc' = [pc EXCEPT ![u] = to]
Store(f, u)     == [f EXCEPT ![u] = IF Buffered THEN "buffered" ELSE "yes"]
Locked(w)       == w.tid # None /\ ~w.died

(* a0_ftx_broadcast: every sleeper returns from FUTEX_WAIT and loads the word again. *)
Broadcast(pcs) == [u \in Users |-> IF pcs[u] = "sleep" THEN "load" ELSE pcs[u]]

(* Leaving an operation: _inop is cleared, what it loaded is gone. *)
Return(u) ==
  /\ pc' = [pc EXCEPT ![u] = "idle"]
  /\ inop' = [inop EXCEPT ![u] = "no"]
  /\ old' = [old EXCEPT ![u] = Free] /\ cur' = [cur EXCEPT ![u] = Free]
  /\ op' = [op EXCEPT ![u] = "none"]

-----------------------------------------------------------------------------
(* Entering an operation. *)

(* Bound: every lock in progress may still succeed. *)
MayLock == epoch + Cardinality({u \in Users : op[u] \in {"lock", "try"}}) < MaxEpochs

a0_deadman_mtx_timedlock(u) ==
  /\ u \in Lockers
  /\ Go(u, "idle", "load")
  /\ ~is_owner[u] /\ MayLock
  /\ op' = [op EXCEPT ![u] = "lock"]
  /\ inop' = [inop EXCEPT ![u] = "yes"]    \* a0_robust_op_start is a full barrier
  /\ UNCHANGED <<token, shutdown, is_owner, old, cur, tok, closer, ghost, deaths>>

a0_deadman_mtx_trylock(u) ==
  /\ u \in Lockers
  /\ Go(u, "idle", "try")
  /\ ~is_owner[u] /\ MayLock
  /\ op' = [op EXCEPT ![u] = "try"]
  /\ UNCHANGED <<token, object, old, cur, tok, closer, ghost, deaths>>

a0_deadman_mtx_timedwait_locked(u) ==
  /\ u \in Watchers
  /\ Go(u, "idle", "load")
  /\ op' = [op EXCEPT ![u] = "locked"]
  /\ inop' = Store(inop, u)
  /\ UNCHANGED <<token, shutdown, is_owner, old, cur, tok, closer, ghost, deaths>>

(* With the token that a0_deadman_mtx_timedwait_locked returned. *)
a0_deadman_mtx_timedwait_unlocked(u) ==
  /\ u \in Watchers
  /\ Go(u, "idle", "load")
  /\ seen[u] # 0
  /\ op' = [op EXCEPT ![u] = "unlocked"]
  /\ inop' = Store(inop, u)
  /\ UNCHANGED <<token, shutdown, is_owner, old, cur, tok, closer, ghost, deaths>>

-----------------------------------------------------------------------------
(* Loads of the word at the head of each loop. *)

LoadLock(u) ==
  /\ op[u] = "lock"
  /\ Go(u, "load", "try")
  /\ old' = [old EXCEPT ![u] = ftx]
  /\ UNCHANGED <<token, object, op, cur, tok, closer, ghost, deaths>>

(* The shutdown flag is read on the way to a wait. *)
LoadLocked(u) ==
  /\ op[u] = "locked" /\ pc[u] = "load"
  /\ \/ /\ Locked(ftx)
        /\ Go(u, "load", "tkn")
        /\ seen' = [seen EXCEPT ![u] = epoch]
        /\ UNCHANGED <<inop, op, old, cur>>
     \/ /\ ~Locked(ftx) /\ shutdown[u] = "yes"
        /\ Return(u)
        /\ UNCHANGED seen
     \/ /\ ~Locked(ftx) /\ shutdown[u] # "yes"
        /\ Go(u, "load", "mark")
        /\ old' = [old EXCEPT ![u] = ftx]
        /\ UNCHANGED <<inop, op, cur, seen>>
  /\ UNCHANGED <<token, shutdown, is_owner, tok, closer, epoch, token_of, deaths>>

ReadToken(u) ==
  /\ pc[u] = "tkn"
  /\ tok' = [tok EXCEPT ![u] = tkn]
  /\ Return(u)
  /\ UNCHANGED <<token, shutdown, is_owner, closer, ghost, deaths>>

LoadUnlocked(u) ==
  /\ op[u] = "unlocked" /\ pc[u] = "load"
  /\ \/ /\ Locked(ftx)
        /\ Go(u, "load", "cmp")
        /\ old' = [old EXCEPT ![u] = ftx]
        /\ UNCHANGED <<inop, op, cur>>
     \/ /\ ~Locked(ftx)
        /\ Return(u)
  /\ UNCHANGED <<token, shutdown, is_owner, tok, closer, ghost, deaths>>

CompareToken(u) ==
  /\ pc[u] = "cmp"
  /\ \/ /\ tok[u] = tkn /\ shutdown[u] # "yes"
        /\ Go(u, "cmp", "mark")
        /\ UNCHANGED <<inop, op, old, cur>>
     \/ /\ tok[u] # tkn \/ shutdown[u] = "yes"
        /\ Return(u)
  /\ UNCHANGED <<token, shutdown, is_owner, tok, closer, ghost, deaths>>

-----------------------------------------------------------------------------
(* a0_deadman_mtx_trylock_impl: load the word again and swap it.  A mutex  *)
(* found busy, or a failed swap, sends a lock to its wait with the word it *)
(* had loaded before; a trylock gives up.                                  *)
Busy(u) ==
  \/ /\ op[u] = "lock"
     /\ pc' = [pc EXCEPT ![u] = "mark"]
     /\ UNCHANGED <<inop, op, old, cur>>
  \/ /\ op[u] = "try"
     /\ Return(u)

TryLoad(u) ==
  /\ pc[u] = "try"
  /\ \/ /\ shutdown[u] = "yes"
        /\ Return(u)
     \/ /\ shutdown[u] # "yes" /\ ftx.tid = None
        /\ Go(u, "try", "cas")
        /\ cur' = [cur EXCEPT ![u] = ftx]
        /\ UNCHANGED <<inop, op, old>>
     \/ /\ shutdown[u] # "yes" /\ ftx.tid # None
        /\ Busy(u)
  /\ UNCHANGED <<token, shutdown, is_owner, tok, closer, ghost, deaths>>

(* Mutant: a plain store where the code swaps. *)
TryCasBlind(u) ==
  /\ Go(u, "cas", "bump")
  /\ ftx' = [tid |-> u, waiters |-> cur[u].waiters, died |-> FALSE]
  /\ epoch' = epoch + 1
  /\ UNCHANGED <<tkn, object, op, old, cur, tok, closer, token_of, seen, deaths>>

(* The swap keeps FUTEX_WAITERS and clears FUTEX_OWNER_DIED. *)
TryCas(u) ==
  /\ pc[u] = "cas"
  /\ \/ /\ ftx = cur[u]
        /\ ftx' = [tid |-> u, waiters |-> cur[u].waiters, died |-> FALSE]
        /\ epoch' = epoch + 1
        /\ Go(u, "cas", "bump")
        /\ UNCHANGED <<inop, op, old, cur>>
     \/ /\ ftx # cur[u]
        /\ Busy(u)
        /\ UNCHANGED <<ftx, epoch>>
  /\ UNCHANGED <<tkn, shutdown, is_owner, tok, closer, token_of, seen, deaths>>

(* Mutant: the token is not advanced when the previous owner died. *)
BumpTokenIfClean(u) ==
  LET next == IF cur[u].died THEN tkn ELSE tkn + 1
  IN  /\ Go(u, "bump", "bcast")
      /\ is_owner' = [is_owner EXCEPT ![u] = TRUE]
      /\ tkn' = next
      /\ token_of' = [token_of EXCEPT ![epoch] = next]
      /\ UNCHANGED <<ftx, shutdown, inop, op, old, cur, tok, closer, epoch, seen, deaths>>

BumpToken(u) ==
  /\ Go(u, "bump", "bcast")
  /\ is_owner' = [is_owner EXCEPT ![u] = TRUE]
  /\ tkn' = tkn + 1
  /\ token_of' = [token_of EXCEPT ![epoch] = tkn + 1]
  /\ UNCHANGED <<ftx, shutdown, inop, op, old, cur, tok, closer, epoch, seen, deaths>>

(* Mutant: no broadcast after locking. *)
LockDoneSilent(u) ==
  /\ pc[u] = "bcast"
  /\ Return(u)
  /\ UNCHANGED <<token, shutdown, is_owner, tok, closer, ghost, deaths>>

LockDone(u) ==
  /\ pc[u] = "bcast"
  /\ pc' = [Broadcast(pc) EXCEPT ![u] = "idle"]
  /\ inop' = [inop EXCEPT ![u] = "no"]
  /\ old' = [old EXCEPT ![u] = Free] /\ cur' = [cur EXCEPT ![u] = Free]
  /\ op' = [op EXCEPT ![u] = "none"]
  /\ UNCHANGED <<token, shutdown, is_owner, tok, closer, ghost, deaths>>

(* Mutant: a failed swap is taken for the end of the wait. *)
MarkGivesUp(u) ==
  /\ pc[u] = "mark"
  /\ inop[u] = "yes"
  /\ \/ /\ ftx = old[u]
        /\ ftx' = [ftx EXCEPT !.waiters = TRUE]
        /\ old' = [old EXCEPT ![u].waiters = TRUE]
        /\ Go(u, "mark", "wait")
        /\ UNCHANGED <<inop, op, cur>>
     \/ /\ ftx # old[u]
        /\ Return(u)
        /\ UNCHANGED ftx
  /\ UNCHANGED <<tkn, shutdown, is_owner, tok, closer, ghost, deaths>>

(* Every loop waits the same way: set FUTEX_WAITERS if the word is still  *)
(* the one that was loaded, then FUTEX_WAIT on the result.  The swap is a *)
(* full barrier.                                                          *)
Mark(u) ==
  /\ pc[u] = "mark"
  /\ inop[u] = "yes"
  /\ \/ /\ ftx = old[u]
        /\ ftx' = [ftx EXCEPT !.waiters = TRUE]
        /\ old' = [old EXCEPT ![u].waiters = TRUE]
        /\ Go(u, "mark", "wait")
     \/ /\ ftx # old[u]
        /\ Go(u, "mark", "load")
        /\ UNCHANGED <<ftx, old>>
  /\ UNCHANGED <<tkn, object, op, cur, tok, closer, ghost, deaths>>

a0_ftx_wait(u) ==
  /\ \/ ftx = old[u] /\ Go(u, "wait", "sleep")
     \/ ftx # old[u] /\ Go(u, "wait", "load")
  /\ UNCHANGED <<token, object, op, old, cur, tok, closer, ghost, deaths>>

Timeout(u) ==
  /\ u \in TimedUsers
  /\ pc[u] = "sleep"
  /\ Return(u)
  /\ UNCHANGED <<token, shutdown, is_owner, tok, closer, ghost, deaths>>

-----------------------------------------------------------------------------
(* a0_deadman_mtx_unlock: clear the word, then wake the waiters. *)
a0_deadman_mtx_unlock(u) ==
  /\ is_owner[u]
  /\ Go(u, "idle", "unlock")
  /\ ftx' = [tid |-> None, waiters |-> ftx.waiters, died |-> FALSE]
  /\ UNCHANGED <<tkn, object, op, old, cur, tok, closer, ghost, deaths>>

UnlockWake(u) ==
  /\ pc[u] = "unlock"
  /\ pc' = [Broadcast(pc) EXCEPT ![u] = "idle"]
  /\ is_owner' = [is_owner EXCEPT ![u] = FALSE]
  /\ UNCHANGED <<token, shutdown, inop, op, old, cur, tok, closer, ghost, deaths>>

-----------------------------------------------------------------------------
(* a0_deadman_mtx_shutdown, from another thread. *)
a0_deadman_mtx_shutdown(u) ==
  /\ u \in Closers
  /\ closer[u] = "none" /\ pc[u] # "dead"
  /\ closer' = [closer EXCEPT ![u] = "spin"]
  /\ shutdown' = Store(shutdown, u)
  /\ UNCHANGED <<token, inop, is_owner, call, ghost, deaths>>

(* Mutant: the spinning thread wakes nobody. *)
ShutdownSpinSilent(u) ==
  /\ closer[u] = "spin"
  /\ inop[u] # "yes"
  /\ closer' = [closer EXCEPT ![u] = "done"]
  /\ UNCHANGED <<token, object, call, ghost, deaths>>

(* While an operation is seen in progress, wake everybody: the system call *)
(* also makes the store of _shutdown visible.                              *)
ShutdownSpin(u) ==
  /\ closer[u] = "spin"
  /\ \/ /\ inop[u] = "yes"
        /\ pc' = Broadcast(pc)
        /\ shutdown' = [shutdown EXCEPT ![u] = "yes"]
        /\ UNCHANGED closer
     \/ /\ inop[u] # "yes"
        /\ closer' = [closer EXCEPT ![u] = "done"]
        /\ UNCHANGED <<pc, shutdown>>
  /\ UNCHANGED <<token, inop, is_owner, op, old, cur, tok, ghost, deaths>>

(* A relaxed store reaches the other threads of the process. *)
Flush(u) ==
  /\ \/ shutdown[u] = "buffered" /\ shutdown' = [shutdown EXCEPT ![u] = "yes"] /\ UNCHANGED inop
     \/ inop[u] = "buffered" /\ inop' = [inop EXCEPT ![u] = "yes"] /\ UNCHANGED shutdown
  /\ UNCHANGED <<token, is_owner, call, closer, ghost, deaths>>

-----------------------------------------------------------------------------
(* The death of a process: the kernel finds the mutex on the robust list or *)
(* as list_op_pending, keeps FUTEX_WAITERS, sets FUTEX_OWNER_DIED and wakes *)
(* one sleeper.                                                             *)
Die(u) ==
  /\ deaths < MaxDeaths
  /\ pc[u] # "dead"
  /\ deaths' = deaths + 1
  /\ LET dead == [pc EXCEPT ![u] = "dead"]
         sleepers == {v \in Users \ {u} : pc[v] = "sleep"}
     IN  IF ftx.tid = u
           THEN /\ ftx' = [tid |-> None, waiters |-> ftx.waiters, died |-> TRUE]
                /\ IF ftx.waiters /\ sleepers # {}
                     THEN \E v \in sleepers : pc' = [dead EXCEPT ![v] = "load"]
                     ELSE pc' = dead
           ELSE pc' = dead /\ UNCHANGED ftx
  /\ shutdown' = [shutdown EXCEPT ![u] = "no"] /\ inop' = [inop EXCEPT ![u] = "no"]
  /\ is_owner' = [is_owner EXCEPT ![u] = FALSE]
  /\ op' = [op EXCEPT ![u] = "none"]
  /\ old' = [old EXCEPT ![u] = Free] /\ cur' = [cur EXCEPT ![u] = Free]
  /\ tok' = [tok EXCEPT ![u] = 0] /\ seen' = [seen EXCEPT ![u] = 0]
  /\ closer' = [closer EXCEPT ![u] = "none"]
  /\ UNCHANGED <<tkn, epoch, token_of>>

a0_deadman_mtx_init(u) ==
  /\ Go(u, "dead", "idle")
  /\ UNCHANGED <<token, object, op, old, cur, tok, closer, ghost, deaths>>

-----------------------------------------------------------------------------
Entering(u) == \/ a0_deadman_mtx_timedlock(u) \/ a0_deadman_mtx_trylock(u)
               \/ a0_deadman_mtx_timedwait_locked(u) \/ a0_deadman_mtx_timedwait_unlocked(u)
Running(u) == \/ LoadLock(u) \/ LoadLocked(u) \/ ReadToken(u) \/ LoadUnlocked(u)
              \/ CompareToken(u) \/ TryLoad(u) \/ TryCas(u) \/ BumpToken(u) \/ LockDone(u)
              \/ Mark(u) \/ a0_ftx_wait(u) \/ UnlockWake(u)

Next == \E u \in Users : \/ Entering(u) \/ Running(u) \/ Timeout(u) \/ a0_deadman_mtx_unlock(u)
                         \/ a0_deadman_mtx_shutdown(u) \/ ShutdownSpin(u) \/ Flush(u)
                         \/ Die(u) \/ a0_deadman_mtx_init(u)

Spec == Init /\ [][Next]_vars

(* Running threads keep running, stores become visible, and the spinning  *)
(* thread keeps spinning.  Nobody has to lock, unlock, shut down or die.  *)
Fairness == \A u \in Users : WF_vars(Running(u)) /\ WF_vars(ShutdownSpin(u)) /\ WF_vars(Flush(u))
FairSpec == Spec /\ Fairness

-----------------------------------------------------------------------------
(***************************************************************************)
(* Properties                                                              *)
(***************************************************************************)

(* The futex word names a user exactly from the swap that locks to the     *)
(* store that unlocks, so no two users own the mutex, whoever dies when;   *)
(* _is_owner is never set without it, except while unlock is on its way.   *)
OwnerExact ==
  /\ \A u \in Users : is_owner[u] \/ pc[u] = "bump" => ftx.tid = u \/ pc[u] = "unlock"
  /\ ftx.tid # None => pc[ftx.tid] = "bump" \/ is_owner[ftx.tid]
  /\ ftx.died => ftx.tid = None

(* Two times the mutex was locked never share a token: _tkn++, an unlocked *)
(* read and write, is only ever executed by the owner.                     *)
TokensDistinct ==
  \A d, e \in Epochs : d < e /\ token_of[d] # 0 /\ token_of[e] # 0 => token_of[d] < token_of[e]

(* a0_deadman_mtx_timedwait_unlocked reports success only when the locking *)
(* its token was given to is over, even though the word and the token are  *)
(* read one after the other while owners come, go and die.                 *)
ReleasedIsOver ==
  [][\A u \in Users, e \in Epochs :
       /\ op[u] = "unlocked" /\ op'[u] = "none" /\ pc'[u] # "dead"
       /\ pc[u] # "sleep" /\ shutdown[u] # "yes"
       /\ token_of[e] # 0 /\ token_of[e] = tok[u]
       => epoch > e \/ ~Locked(ftx)]_vars

(* An operation that sleeps when a0_deadman_mtx_shutdown is called ends,    *)
(* although its object and its thread run on different processors: the      *)
(* spinning thread cannot miss it.                                          *)
ShutdownEndsSleep ==
  \A u \in Closers : closer[u] = "spin" /\ pc[u] = "sleep" ~> pc[u] \in {"idle", "dead"}

(* Nobody sleeps for ever in a0_deadman_mtx_timedwait_locked while the mutex *)
(* is locked.                                                                *)
LockIsNoticed ==
  \A u \in Watchers : []<>~(pc[u] = "sleep" /\ op[u] = "locked" /\ Locked(ftx))

(* Claim of deadman_mtx.h: a0_deadman_mtx_shutdown interrupts active        *)
(* operations: once it has returned, no operation of that object is         *)
(* blocked.                                                                 *)
ShutdownInterrupts ==
  \A u \in Users : closer[u] = "done" => pc[u] # "sleep"

(* Claim of deadman_mtx.h: the token a0_deadman_mtx_timedwait_locked        *)
(* returns tracks the current owner, so it is not older than the locking    *)
(* that was seen.                                                           *)
TokenTracksOwner ==
  \A u \in Users : seen[u] # 0 /\ pc[u] = "idle" => tok[u] >= token_of[seen[u]]

(* Claim of deadman_mtx.h: a wait for the mutex to be unlocked ends when the *)
(* owner that the token names is gone.                                       *)
ReleaseIsNoticed ==
  \A u \in Watchers :
    []<>~(pc[u] = "sleep" /\ op[u] = "unlocked" /\ (~Locked(ftx) \/ tkn # tok[u]))

(* Claim of deadman_mtx.h: a0_deadman_mtx_lock locks the mutex: nobody      *)
(* sleeps for ever in it while the mutex is free.                           *)
FreeIsTaken ==
  \A u \in Lockers : []<>~(pc[u] = "sleep" /\ op[u] = "lock" /\ ftx.tid = None)
=============================================================================
