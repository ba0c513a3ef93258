----------------------------- MODULE RobustProofs -----------------------------
(***************************************************************************)
(* Proofs about the mutex, the condition variable and the robust list, for *)
(* any number of threads, mutexes, timeouts, wake-ups and deaths.          *)
(*                                                                         *)
(* The queue and the wake-ups need only where the threads are (Placed).    *)
(* Ownership is exact: the word names a thread if and only if that thread  *)
(* was told so, or is on its way in or out (Owned).  The list of a live    *)
(* thread is followed store by store (ListOK); it is stated with the least *)
(* closed set that a walk comes to, so that no induction over its length   *)
(* is needed.  With that, all of it is the robust mutex of Mutex.          *)
(***************************************************************************)
EXTENDS RobustMtx, TLAPS

\* The steps of an operation: into the list, out of it and off the word.
Adding   == {"node", "publish", "back"}
Removing == {"unlink", "unlink_back", "clear", "release", "unlock_pi"}
\* The steps that only an ordinary mutex goes through.
Ordinary == {"cas", "lock_pi", "blocked", "try_pi", "release", "unlock_pi",
             "rewait", "requeue_wait", "asleep", "requeue"}

Placed ==
  /\ \A t \in Threads : pc[t] \notin {"idle", "dead"} => arg[t] \in Mutexes
  /\ \A t \in Threads : pc[t] \in Ordinary \/ op[t] = "wait" => arg[t] \notin Deadmen
  /\ \A m \in Mutexes : /\ \A t \in queue[m] : pc[t] = "blocked" /\ arg[t] = m
                        /\ \A t \in sleepers[m] : pc[t] = "asleep" /\ arg[t] = m

QInv == TypeOK /\ Placed /\ QueueIsServed /\ WakeIsComing

Claim(t, m) == m \in held[t] \/ (arg[t] = m /\ pc[t] \in Adding \cup Removing)

Owned ==
  /\ \A m \in Mutexes, t \in Threads : ftx[m].tid = t <=> Claim(t, m)
  /\ \A t \in Threads :
       /\ pc[t] \in Adding \cup Removing \cup {"blocked", "asleep", "rewait", "requeue_wait"} =>
            arg[t] \notin held[t]
       /\ pc[t] = "dead" => held[t] = {}
       /\ pc[t] \notin {"idle", "dead", "rewait", "requeue"} => pending[t] = arg[t]

\* The mutexes on the list of t, and with the head.
OnList(t) == IF pc[t] \in {"back", "unlink"} THEN held[t] \cup {arg[t]} ELSE held[t]
Ring(t) == OnList(t) \cup {t}

\* What prev says of the node after n: n, but for the store that is missing.
PrevOfNext(t, n) ==
  IF pc[t] = "back" /\ n = arg[t] THEN t
  ELSE IF pc[t] = "unlink_back" /\ n = before[t] THEN arg[t] ELSE n

Links(t) ==
  /\ prev[t] = Offset
  /\ Listed(t) = OnList(t)
  /\ \A n \in Ring(t) : /\ next[n] \in Ring(t)
                        /\ next[n] # t => prev[next[n]] = PrevOfNext(t, n)

Locals(t) ==
  /\ pc[t] = "publish" => prev[arg[t]] = t /\ next[arg[t]] = next[t] /\ first[t] = next[t]
  /\ pc[t] = "back" => next[t] = arg[t] /\ first[t] = next[arg[t]] /\ first[t] # arg[t]
  /\ pc[t] = "unlink_back" => /\ before[t] \in Ring(t) /\ next[before[t]] = first[t]

ListOK(t) == pc[t] # "dead" => Links(t) /\ Locals(t)

RInv == QInv /\ Owned /\ \A t \in Threads : ListOK(t)

-----------------------------------------------------------------------------
(* Types. *)

(* The parts of a word. *)
LEMMA Words ==
  /\ Free \in Word /\ Free.tid = None /\ Free.waiters = FALSE
  /\ \A w \in Word : w.tid \in Threads \cup {None} /\ w.waiters \in BOOLEAN /\ w.died \in BOOLEAN
  /\ \A u \in Threads \cup {None}, b \in BOOLEAN, d \in BOOLEAN :
       [tid |-> u, waiters |-> b, died |-> d] \in Word
  /\ \A t \in Threads : [Free EXCEPT !.tid = t] \in Word /\ [Free EXCEPT !.tid = t].tid = t
  /\ \A w \in Word : /\ [w EXCEPT !.waiters = TRUE] \in Word
                     /\ [w EXCEPT !.waiters = TRUE].tid = w.tid
                     /\ [w EXCEPT !.waiters = TRUE].waiters
  /\ \A w \in Word : /\ [w EXCEPT !.died = FALSE] \in Word
                     /\ [w EXCEPT !.died = FALSE].tid = w.tid
                     /\ [w EXCEPT !.died = FALSE].waiters = w.waiters
PROOF
<1>1. Free \in Word /\ Free.tid = None /\ Free.waiters = FALSE
  BY DEF Word, Free
<1>2. \A w \in Word : w.tid \in Threads \cup {None} /\ w.waiters \in BOOLEAN /\ w.died \in BOOLEAN
  BY DEF Word
<1>3. \A u \in Threads \cup {None}, b \in BOOLEAN, d \in BOOLEAN :
        [tid |-> u, waiters |-> b, died |-> d] \in Word
  BY DEF Word
<1>4. \A t \in Threads : [Free EXCEPT !.tid = t] \in Word /\ [Free EXCEPT !.tid = t].tid = t
  BY DEF Word, Free
<1>5. \A w \in Word : /\ [w EXCEPT !.waiters = TRUE] \in Word
                      /\ [w EXCEPT !.waiters = TRUE].tid = w.tid
                      /\ [w EXCEPT !.waiters = TRUE].waiters
  BY DEF Word
<1>6. \A w \in Word : /\ [w EXCEPT !.died = FALSE] \in Word
                      /\ [w EXCEPT !.died = FALSE].tid = w.tid
                      /\ [w EXCEPT !.died = FALSE].waiters = w.waiters
  BY DEF Word
<1> QED BY <1>1, <1>2, <1>3, <1>4, <1>5, <1>6

\* One thread moves on, and one word changes.
Moves(t, l, w) ==
  /\ pc' = [pc EXCEPT ![t] = l]
  /\ ftx' = [ftx EXCEPT ![arg[t]] = w]
  /\ UNCHANGED <<cnd, list, kernel, op, arg, first, before, val, ghost>>

\* What the steps on a word amount to: taking it, leaving it, keeping it, freeing it.
WordSteps(t, l, w) ==
  LET m == arg[t] IN
  \/ /\ pc[t] \in {"cas", "lock_pi", "try", "try_pi"} /\ l = "node"
     /\ ftx[m].tid = None /\ w.tid = t
  \/ /\ pc[t] \in {"cas", "lock_pi", "try", "try_pi"} /\ l \in {"lock_pi", "try_pi", "end"}
     /\ l \in Ordinary => m \notin Deadmen
     /\ w = ftx[m]
  \/ /\ pc[t] \in {"clear", "release"} /\ l \in {"release", "unlock_pi"}
     /\ m \notin Deadmen /\ w.tid = ftx[m].tid /\ w.waiters = ftx[m].waiters
  \/ /\ pc[t] \in {"clear", "release", "unlock_pi"} /\ l = "end" /\ w = Free
     /\ m \in Deadmen \/ ~ftx[m].waiters \/ queue[m] = {}

(* Every step on a word is one of these. *)
LEMMA WordStep ==
  ASSUME TypeOK, Placed, NEW t \in Threads,
         \/ LockCas(t) \/ TryCas(t) \/ a0_ftx_trylock_pi(t) \/ ClearWord(t) \/ ReleaseCas(t)
         \/ a0_ftx_lock_pi(t) /\ ftx[arg[t]].tid \in {None, t}
         \/ a0_ftx_unlock_pi(t) /\ queue[arg[t]] = {}
  PROVE  \E l \in PCs, w \in Word : Moves(t, l, w) /\ WordSteps(t, l, w)
PROOF
<1> USE RobustAssumption DEF memory, list, kernel, local, ghost, Go, GoTo, SetWord
<1>1. /\ arg[t] \in Mutexes /\ ftx \in [Mutexes -> Word] /\ ftx[arg[t]] \in Word
      /\ ftx = [ftx EXCEPT ![arg[t]] = ftx[arg[t]]]
      /\ pc[t] \in Ordinary => arg[t] \notin Deadmen
  <2>1. arg[t] \in Mutexes
    BY DEF Placed, LockCas, TryCas, a0_ftx_trylock_pi, ClearWord, ReleaseCas, a0_ftx_lock_pi,
           a0_ftx_unlock_pi
  <2>2. ftx \in [Mutexes -> Word]
    BY DEF TypeOK
  <2>3. pc[t] \in Ordinary => arg[t] \notin Deadmen
    BY DEF Placed
  <2> QED BY <2>1, <2>2, <2>3
<1>2. {"node", "lock_pi", "try_pi", "end", "release", "unlock_pi"} \subseteq PCs
  BY DEF PCs
<1>3. /\ [Free EXCEPT !.tid = t] \in Word /\ [Free EXCEPT !.tid = t].tid = t
      /\ Free \in Word /\ Free.tid = None
      /\ [ftx[arg[t]] EXCEPT !.died = FALSE] \in Word
      /\ [ftx[arg[t]] EXCEPT !.died = FALSE].tid = ftx[arg[t]].tid
      /\ [ftx[arg[t]] EXCEPT !.died = FALSE].waiters = ftx[arg[t]].waiters
  BY <1>1, Words
<1>4. /\ [tid |-> t, waiters |-> FALSE, died |-> ftx[arg[t]].died] \in Word
      /\ [tid |-> t, waiters |-> FALSE, died |-> ftx[arg[t]].died].tid = t
  BY <1>1, Words
<1>5. CASE LockCas(t)
  <2>1. CASE ftx[arg[t]] = Free
    <3>1. Moves(t, "node", [Free EXCEPT !.tid = t]) /\ WordSteps(t, "node", [Free EXCEPT !.tid = t])
      BY <1>3, <1>5, <2>1 DEF LockCas, Moves, WordSteps
    <3> QED BY <1>2, <1>3, <3>1
  <2>2. CASE ftx[arg[t]] # Free
    <3>1. Moves(t, "lock_pi", ftx[arg[t]]) /\ WordSteps(t, "lock_pi", ftx[arg[t]])
      BY <1>1, <1>5, <2>2 DEF LockCas, Moves, WordSteps, Ordinary
    <3> QED BY <1>1, <1>2, <3>1
  <2> QED BY <2>1, <2>2
<1>6. CASE a0_ftx_lock_pi(t) /\ ftx[arg[t]].tid \in {None, t}
  <2> DEFINE w == [tid |-> t, waiters |-> FALSE, died |-> ftx[arg[t]].died]
  <2>1. CASE ftx[arg[t]].tid = None
    <3>1. Moves(t, "node", w) /\ WordSteps(t, "node", w)
      BY <1>4, <1>6, <2>1 DEF a0_ftx_lock_pi, Moves, WordSteps
    <3> QED BY <1>2, <1>4, <3>1
  <2>2. CASE ftx[arg[t]].tid = t
    <3>1. Moves(t, "end", ftx[arg[t]]) /\ WordSteps(t, "end", ftx[arg[t]])
      BY <1>1, <1>6, <2>2 DEF a0_ftx_lock_pi, Moves, WordSteps, Ordinary
    <3> QED BY <1>1, <1>2, <3>1
  <2> QED BY <1>6, <2>1, <2>2
<1>7. CASE TryCas(t)
  <2>1. CASE ftx[arg[t]].tid = None /\ Moves(t, "node", [Free EXCEPT !.tid = t])
    <3>1. WordSteps(t, "node", [Free EXCEPT !.tid = t])
      BY <1>3, <1>7, <2>1 DEF TryCas, WordSteps
    <3> QED BY <1>2, <1>3, <2>1, <3>1
  <2>2. CASE arg[t] \notin Deadmen /\ Moves(t, "try_pi", ftx[arg[t]])
    <3>1. WordSteps(t, "try_pi", ftx[arg[t]])
      BY <1>7, <2>2 DEF TryCas, WordSteps
    <3> QED BY <1>1, <1>2, <2>2, <3>1
  <2>3. CASE Moves(t, "end", ftx[arg[t]])
    <3>1. WordSteps(t, "end", ftx[arg[t]])
      BY <1>7 DEF TryCas, WordSteps, Ordinary
    <3> QED BY <1>1, <1>2, <2>3, <3>1
  <2> QED BY <1>1, <1>3, <1>7, <2>1, <2>2, <2>3 DEF TryCas, Moves
<1>8. CASE a0_ftx_trylock_pi(t)
  <2> DEFINE w == [tid |-> t, waiters |-> FALSE, died |-> ftx[arg[t]].died]
  <2>1. CASE ftx[arg[t]].tid = None
    <3>1. Moves(t, "node", w) /\ WordSteps(t, "node", w)
      BY <1>4, <1>8, <2>1 DEF a0_ftx_trylock_pi, Moves, WordSteps
    <3> QED BY <1>2, <1>4, <3>1
  <2>2. CASE ftx[arg[t]].tid # None
    <3>1. Moves(t, "end", ftx[arg[t]]) /\ WordSteps(t, "end", ftx[arg[t]])
      BY <1>1, <1>8, <2>2 DEF a0_ftx_trylock_pi, Moves, WordSteps, Ordinary
    <3> QED BY <1>1, <1>2, <3>1
  <2> QED BY <2>1, <2>2
<1>9. CASE ClearWord(t)
  <2> DEFINE w == [ftx[arg[t]] EXCEPT !.died = FALSE]
  <2>1. CASE arg[t] \notin Deadmen
    <3>1. Moves(t, "release", w) /\ WordSteps(t, "release", w)
      BY <1>3, <1>9, <2>1 DEF ClearWord, Moves, WordSteps
    <3> QED BY <1>2, <1>3, <3>1
  <2>2. CASE arg[t] \in Deadmen
    <3>1. Moves(t, "end", Free) /\ WordSteps(t, "end", Free)
      BY <1>9, <2>2 DEF ClearWord, Moves, WordSteps
    <3> QED BY <1>2, <1>3, <3>1
  <2> QED BY <2>1, <2>2
<1>10. CASE ReleaseCas(t)
  <2>1. CASE ~ftx[arg[t]].waiters
    <3>1. Moves(t, "end", Free) /\ WordSteps(t, "end", Free)
      BY <1>10, <2>1 DEF ReleaseCas, Moves, WordSteps
    <3> QED BY <1>2, <1>3, <3>1
  <2>2. CASE ftx[arg[t]].waiters
    <3>1. Moves(t, "unlock_pi", ftx[arg[t]]) /\ WordSteps(t, "unlock_pi", ftx[arg[t]])
      BY <1>1, <1>10, <2>2 DEF ReleaseCas, Moves, WordSteps, Ordinary
    <3> QED BY <1>1, <1>2, <3>1
  <2> QED BY <2>1, <2>2
<1>11. CASE a0_ftx_unlock_pi(t) /\ queue[arg[t]] = {}
  <2>1. Moves(t, "end", Free) /\ WordSteps(t, "end", Free)
    BY <1>11 DEF a0_ftx_unlock_pi, Moves, WordSteps
  <2> QED BY <1>2, <1>3, <2>1
<1> QED BY <1>5, <1>6, <1>7, <1>8, <1>9, <1>10, <1>11

-----------------------------------------------------------------------------
(* The queue and the wake-ups. *)

(* A step on a word serves the queue, or leaves it and the sleepers alone. *)
LEMMA WordKeeps ==
  ASSUME QInv, NEW t \in Threads, NEW l \in PCs, NEW w \in Word,
         Moves(t, l, w), WordSteps(t, l, w)
  PROVE  QInv'
PROOF
<1> USE RobustAssumption DEF memory, list, kernel, local, ghost
<1>1. TypeOK /\ Placed /\ QueueIsServed /\ WakeIsComing
  BY DEF QInv
<1>2. /\ pc[t] \notin {"idle", "dead", "blocked", "asleep", "requeue"}
      /\ l \notin {"idle", "dead", "blocked", "asleep", "requeue"}
      /\ arg[t] \in Mutexes
      /\ l \in Ordinary => arg[t] \notin Deadmen
  <2>1. pc[t] \in {"cas", "lock_pi", "try", "try_pi", "clear", "release", "unlock_pi"}
    BY DEF WordSteps
  <2>2. arg[t] \in Mutexes
    BY <1>1, <2>1 DEF Placed
  <2> QED BY <2>1, <2>2 DEF WordSteps, Ordinary
<1>3. /\ ftx' \in [Mutexes -> Word] /\ ftx'[arg[t]] = w
      /\ \A m \in Mutexes : m # arg[t] => ftx'[m] = ftx[m]
      /\ pc' \in [Threads -> PCs] /\ pc'[t] = l
      /\ \A u \in Threads : u # t => pc'[u] = pc[u]
      /\ UNCHANGED <<cnd, list, kernel, op, arg, first, before, val, ghost>>
  BY <1>1, <1>2 DEF TypeOK, Moves
<1>4. TypeOK'
  BY <1>1, <1>3 DEF TypeOK
<1>5. Placed'
  <2>1. \A m \in Mutexes : /\ \A u \in queue[m] : u \in Threads /\ u # t /\ pc[u] = "blocked" /\ arg[u] = m
                           /\ \A u \in sleepers[m] : u \in Threads /\ u # t /\ pc[u] = "asleep" /\ arg[u] = m
    BY <1>1, <1>2 DEF Placed, TypeOK
  <2> QED BY <1>1, <1>2, <1>3, <2>1 DEF Placed
<1>6. QueueIsServed'
  <2> SUFFICES ASSUME NEW m \in Mutexes, queue[m] # {}
               PROVE  ftx'[m].tid # None /\ ftx'[m].waiters
    BY <1>3 DEF QueueIsServed
  <2>1. CASE m # arg[t]
    BY <1>1, <1>3, <2>1 DEF QueueIsServed
  <2>2. CASE m = arg[t]
    <3>1. ftx[m].tid # None /\ ftx[m].waiters
      BY <1>1 DEF QueueIsServed
    <3>2. PICK u \in queue[m] : TRUE
      OBVIOUS
    <3>3. u \in Threads /\ pc[u] = "blocked" /\ arg[u] = m
      BY <1>1, <3>2 DEF TypeOK, Placed
    <3>4. m \notin Deadmen
      BY <1>1, <3>3 DEF Placed, Ordinary
    <3> QED BY <1>3, <2>2, <3>1, <3>4 DEF WordSteps
  <2> QED BY <2>1, <2>2
<1>7. WakeIsComing'
  <2> SUFFICES ASSUME NEW m \in Mutexes, NEW u \in sleepers[m], cnd[m] # val[u], ~cut[m]
               PROVE  \E v \in Threads : pc'[v] = "requeue" /\ arg[v] = m
    BY <1>3 DEF WakeIsComing
  <2>1. PICK v \in Threads : pc[v] = "requeue" /\ arg[v] = m
    BY <1>1 DEF WakeIsComing
  <2>2. pc'[v] = "requeue"
    BY <1>2, <1>3, <2>1
  <2> QED BY <2>1, <2>2
<1> QED BY <1>4, <1>5, <1>6, <1>7 DEF QInv

(* A step that concerns one thread, no word, no queue and no sleeper. *)
LEMMA LocalKeeps ==
  ASSUME QInv, TypeOK', NEW t \in Threads,
         UNCHANGED <<ftx, cnd, queue, sleepers, cut>>,
         \A u \in Threads : u # t => /\ pc'[u] = pc[u] /\ op'[u] = op[u] /\ arg'[u] = arg[u]
                                     /\ val'[u] = val[u],
         pc[t] \notin {"blocked", "asleep", "requeue"},
         pc'[t] \notin {"idle", "dead"} => arg'[t] \in Mutexes,
         pc'[t] \in Ordinary \/ op'[t] = "wait" => arg'[t] \notin Deadmen
  PROVE  QInv'
PROOF
<1>1. TypeOK /\ Placed /\ QueueIsServed /\ WakeIsComing
  BY DEF QInv
<1>2. \A m \in Mutexes : queue[m] \subseteq Threads /\ sleepers[m] \subseteq Threads
  BY <1>1 DEF TypeOK
<1>3. Placed'
  <2>1. \A m \in Mutexes : /\ \A u \in queue[m] : u # t /\ pc[u] = "blocked" /\ arg[u] = m
                           /\ \A u \in sleepers[m] : u # t /\ pc[u] = "asleep" /\ arg[u] = m
    BY <1>1 DEF Placed
  <2> QED BY <1>1, <1>2, <2>1 DEF Placed
<1>4. QueueIsServed'
  BY <1>1 DEF QueueIsServed
<1>5. WakeIsComing'
  <2> SUFFICES ASSUME NEW m \in Mutexes, NEW u \in sleepers[m], cnd[m] # val'[u], ~cut[m]
               PROVE  \E v \in Threads : pc'[v] = "requeue" /\ arg'[v] = m
    BY DEF WakeIsComing
  <2>1. u \in Threads /\ u # t
    BY <1>1, <1>2 DEF Placed
  <2>2. PICK v \in Threads : pc[v] = "requeue" /\ arg[v] = m
    BY <1>1, <2>1 DEF WakeIsComing
  <2>3. v # t
    BY <2>2
  <2> QED BY <2>2, <2>3
<1> QED BY <1>3, <1>4, <1>5 DEF QInv

(* Entering a lock, an unlock or a wait. *)
LEMMA CallKeeps ==
  ASSUME QInv, NEW t \in Threads, NEW m \in Mutexes,
         \/ a0_mtx_timedlock(t, m) \/ a0_mtx_trylock(t, m) \/ a0_mtx_unlock(t, m)
         \/ a0_deadman_mtx_unlock(t, m) \/ a0_cnd_timedwait(t, m)
  PROVE  QInv'
PROOF
<1> USE RobustAssumption DEF memory, list, kernel, local, ghost, Enter, Go, GoTo, a0_robust_op_start
<1>1. TypeOK /\ Placed
  BY DEF QInv
<1>2. /\ pc[t] = "idle"
      /\ UNCHANGED <<ftx, cnd, next, prev, queue, sleepers, first, before, cut, deaths>>
      /\ arg' = [arg EXCEPT ![t] = m] /\ pending' = [pending EXCEPT ![t] = m]
      /\ \E l \in {"cas", "try", "unlink"} : /\ pc' = [pc EXCEPT ![t] = l]
                                             /\ l = "cas" => m \notin Deadmen
      /\ \E o \in {"lock", "try", "unlock", "wait"} : /\ op' = [op EXCEPT ![t] = o]
                                                      /\ o = "wait" => m \notin Deadmen
      /\ val' = val \/ val' = [val EXCEPT ![t] = cnd[m]]
      /\ held' \in [Threads -> SUBSET Mutexes]
  <2>1. CASE a0_deadman_mtx_unlock(t, m)
    <3>1. PICK u \in Threads : held' = [held EXCEPT ![u] = @ \ {m}]
      BY <2>1 DEF a0_deadman_mtx_unlock
    <3>2. held' \in [Threads -> SUBSET Mutexes]
      BY <1>1, <3>1 DEF TypeOK
    <3> QED BY <2>1, <3>2 DEF a0_deadman_mtx_unlock
  <2>2. CASE a0_mtx_timedlock(t, m)
    BY <1>1, <2>2 DEF a0_mtx_timedlock, TypeOK
  <2>3. CASE a0_mtx_trylock(t, m)
    BY <1>1, <2>3 DEF a0_mtx_trylock, TypeOK
  <2>4. CASE a0_mtx_unlock(t, m)
    BY <1>1, <2>4 DEF a0_mtx_unlock, TypeOK
  <2>5. CASE a0_cnd_timedwait(t, m)
    BY <1>1, <2>5 DEF a0_cnd_timedwait, TypeOK
  <2> QED BY <2>1, <2>2, <2>3, <2>4, <2>5
<1>3. TypeOK'
  BY <1>1, <1>2 DEF TypeOK, PCs, Ops
<1>4. /\ \A u \in Threads : u # t => /\ pc'[u] = pc[u] /\ op'[u] = op[u] /\ arg'[u] = arg[u]
                                     /\ val'[u] = val[u]
      /\ arg'[t] = m /\ pc'[t] \in {"cas", "try", "unlink"}
      /\ pc'[t] \in Ordinary \/ op'[t] = "wait" => m \notin Deadmen
  BY <1>1, <1>2 DEF TypeOK, Ordinary
<1> QED BY <1>2, <1>3, <1>4, LocalKeeps

(* The stores of the list, and what ends an operation or announces a wait. *)
LEMMA ListKeeps ==
  ASSUME QInv, NEW t \in Threads,
         \/ AddNode(t) \/ AddPublish(t) \/ AddBack(t) \/ DelNext(t) \/ DelPrev(t)
         \/ a0_robust_op_end(t) \/ WaitStart(t)
  PROVE  QInv'
PROOF
<1> USE RobustAssumption DEF memory, list, kernel, local, ghost, Go, GoTo, a0_robust_op_start
<1>1. TypeOK /\ Placed
  BY DEF QInv
<1>2. arg[t] \in Mutexes
  BY <1>1 DEF Placed, AddNode, AddPublish, AddBack, DelNext, DelPrev, a0_robust_op_end, WaitStart
<1>3. /\ UNCHANGED <<ftx, cnd, queue, sleepers, cut, deaths>>
      /\ pc[t] \in {"node", "publish", "back", "unlink", "unlink_back", "end", "rewait"}
      /\ \E l \in {"publish", "back", "end", "unlink_back", "clear", "rewait", "idle", "requeue_wait"} :
           /\ pc' = [pc EXCEPT ![t] = l]
           /\ l \in Ordinary => op[t] = "wait" \/ pc[t] = "rewait"
           /\ \/ UNCHANGED <<op, arg, val>>
              \/ /\ l = "idle" /\ op' = [op EXCEPT ![t] = "none"]
                 /\ arg' = [arg EXCEPT ![t] = None] /\ val' = [val EXCEPT ![t] = 0]
  BY DEF AddNode, AddPublish, AddBack, DelNext, DelPrev, a0_robust_op_end, WaitStart, Ordinary
<1>4. /\ next' \in [Nodes -> Nodes \cup {None}] /\ prev' \in [Nodes -> Nodes \cup {None, Offset}]
      /\ \A m \in Mutexes : prev'[m] # Offset
      /\ pending' \in [Threads -> Mutexes \cup {None}]
      /\ first' \in [Threads -> Nodes \cup {None}] /\ before' \in [Threads -> Nodes \cup {None}]
      /\ held' \in [Threads -> SUBSET Mutexes]
  <2>1. CASE AddNode(t)
    BY <1>1, <1>2, <2>1 DEF AddNode, TypeOK, Nodes
  <2>2. CASE AddPublish(t)
    BY <1>1, <1>2, <2>2 DEF AddPublish, TypeOK, Nodes
  <2>3. CASE AddBack(t)
    <3>1. \A m \in Mutexes : m # Offset
      OBVIOUS
    <3>2. prev' = prev \/ prev' = [prev EXCEPT ![first[t]] = arg[t]]
      BY <2>3 DEF AddBack
    <3>3. prev' \in [Nodes -> Nodes \cup {None, Offset}] /\ \A m \in Mutexes : prev'[m] # Offset
      BY <1>1, <1>2, <3>1, <3>2 DEF TypeOK, Nodes
    <3> QED BY <1>1, <1>2, <2>3, <3>3 DEF AddBack, TypeOK, Nodes
  <2>4. CASE DelNext(t)
    BY <1>1, <1>2, <2>4 DEF DelNext, TypeOK, Nodes
  <2>5. CASE DelPrev(t)
    <3>1. before[t] \in Nodes \cup {None} /\ before[t] # Offset
      BY <1>1 DEF TypeOK, Nodes
    <3>2. prev' = prev \/ prev' = [prev EXCEPT ![first[t]] = before[t]]
      BY <2>5 DEF DelPrev
    <3>3. prev' \in [Nodes -> Nodes \cup {None, Offset}] /\ \A m \in Mutexes : prev'[m] # Offset
      BY <1>1, <3>1, <3>2 DEF TypeOK, Nodes
    <3> QED BY <1>1, <1>2, <2>5, <3>3 DEF DelPrev, TypeOK, Nodes
  <2>6. CASE a0_robust_op_end(t)
    BY <1>1, <2>6 DEF a0_robust_op_end, TypeOK
  <2>7. CASE WaitStart(t)
    BY <1>1, <1>2, <2>7 DEF WaitStart, TypeOK
  <2> QED BY <2>1, <2>2, <2>3, <2>4, <2>5, <2>6, <2>7
<1>5. TypeOK'
  <2>1. /\ pc' \in [Threads -> PCs] /\ op' \in [Threads -> Ops]
        /\ arg' \in [Threads -> Mutexes \cup {None}] /\ val' \in [Threads -> 0..MaxWakes]
    <3>1. /\ {"publish", "back", "end", "unlink_back", "clear", "rewait", "idle", "requeue_wait"} \subseteq PCs
          /\ "none" \in Ops /\ 0 \in 0..MaxWakes
      BY DEF PCs, Ops
    <3>2. /\ pc \in [Threads -> PCs] /\ op \in [Threads -> Ops]
          /\ arg \in [Threads -> Mutexes \cup {None}] /\ val \in [Threads -> 0..MaxWakes]
      BY <1>1 DEF TypeOK
    <3>3. /\ \E l \in PCs : pc' = [pc EXCEPT ![t] = l]
          /\ \/ UNCHANGED <<op, arg, val>>
             \/ /\ op' = [op EXCEPT ![t] = "none"]
                /\ arg' = [arg EXCEPT ![t] = None] /\ val' = [val EXCEPT ![t] = 0]
      BY <1>3, <3>1
    <3>4. pc' \in [Threads -> PCs]
      BY <3>2, <3>3
    <3> QED BY <3>1, <3>2, <3>3, <3>4
  <2> QED BY <1>1, <1>3, <1>4, <2>1 DEF TypeOK
<1>6. /\ \A u \in Threads : u # t => /\ pc'[u] = pc[u] /\ op'[u] = op[u] /\ arg'[u] = arg[u]
                                     /\ val'[u] = val[u]
      /\ pc'[t] \notin {"idle", "dead"} => arg'[t] \in Mutexes
      /\ pc'[t] \in Ordinary \/ op'[t] = "wait" => arg'[t] \notin Deadmen
  BY <1>1, <1>2, <1>3 DEF TypeOK, Placed, Ordinary
<1> QED BY <1>3, <1>5, <1>6, LocalKeeps

(* Queueing on a mutex. *)
LEMMA BlockKeeps ==
  ASSUME QInv, NEW t \in Threads, a0_ftx_lock_pi(t), ftx[arg[t]].tid \notin {None, t}
  PROVE  QInv'
PROOF
<1> USE RobustAssumption DEF memory, list, kernel, local, ghost, GoTo, SetWord
<1>1. TypeOK /\ Placed /\ QueueIsServed /\ WakeIsComing
  BY DEF QInv
<1>2. /\ pc[t] = "lock_pi" /\ arg[t] \in Mutexes \ Deadmen /\ ftx[arg[t]] \in Word
  BY <1>1 DEF a0_ftx_lock_pi, Placed, TypeOK, Ordinary
<1>3. /\ pc' = [pc EXCEPT ![t] = "blocked"]
      /\ ftx' = [ftx EXCEPT ![arg[t]] = [ftx[arg[t]] EXCEPT !.waiters = TRUE]]
      /\ queue' = [queue EXCEPT ![arg[t]] = @ \cup {t}]
      /\ UNCHANGED <<cnd, list, sleepers, op, arg, first, before, val, ghost>>
  BY DEF a0_ftx_lock_pi
<1>4. PICK w \in Word : /\ w = [ftx[arg[t]] EXCEPT !.waiters = TRUE]
                        /\ w.tid = ftx[arg[t]].tid /\ w.waiters
  BY <1>2, Words
<1>5. /\ ftx' \in [Mutexes -> Word] /\ ftx'[arg[t]] = w
      /\ \A m \in Mutexes : m # arg[t] => ftx'[m] = ftx[m] /\ queue'[m] = queue[m]
      /\ queue' \in [Mutexes -> SUBSET Threads] /\ queue'[arg[t]] = queue[arg[t]] \cup {t}
      /\ pc' \in [Threads -> PCs] /\ pc'[t] = "blocked"
      /\ \A u \in Threads : u # t => pc'[u] = pc[u]
  BY <1>1, <1>2, <1>3, <1>4 DEF TypeOK, PCs
<1>6. TypeOK'
  BY <1>1, <1>3, <1>5 DEF TypeOK
<1>7. \A m \in Mutexes : /\ \A u \in queue[m] : u \in Threads /\ u # t /\ pc[u] = "blocked" /\ arg[u] = m
                         /\ \A u \in sleepers[m] : u \in Threads /\ u # t /\ pc[u] = "asleep" /\ arg[u] = m
  BY <1>1, <1>2 DEF Placed, TypeOK
<1>8. Placed'
  BY <1>1, <1>2, <1>3, <1>5, <1>7 DEF Placed
<1>9. QueueIsServed'
  BY <1>1, <1>3, <1>4, <1>5 DEF QueueIsServed
<1>10. WakeIsComing'
  <2> SUFFICES ASSUME NEW m \in Mutexes, NEW u \in sleepers[m], cnd[m] # val[u], ~cut[m]
               PROVE  \E v \in Threads : pc'[v] = "requeue" /\ arg[v] = m
    BY <1>3 DEF WakeIsComing
  <2>1. PICK v \in Threads : pc[v] = "requeue" /\ arg[v] = m
    BY <1>1 DEF WakeIsComing
  <2> QED BY <1>2, <1>5, <2>1
<1> QED BY <1>6, <1>8, <1>9, <1>10 DEF QInv

(* The unlocking thread hands the mutex over. *)
LEMMA GrantKeeps ==
  ASSUME QInv, NEW t \in Threads, a0_ftx_unlock_pi(t), queue[arg[t]] # {}
  PROVE  QInv'
PROOF
<1> USE RobustAssumption DEF memory, list, kernel, local, ghost, GoTo, SetWord
<1>1. TypeOK /\ Placed /\ QueueIsServed /\ WakeIsComing
  BY DEF QInv
<1>2. pc[t] = "unlock_pi" /\ arg[t] \in Mutexes /\ queue[arg[t]] \subseteq Threads
  BY <1>1 DEF a0_ftx_unlock_pi, Placed, TypeOK
<1>3. PICK w \in queue[arg[t]] :
        /\ w \in Threads /\ Granted(arg[t], w, FALSE) /\ pc' = [pc EXCEPT ![t] = "end", ![w] = "node"]
        /\ UNCHANGED <<cnd, list, sleepers, op, arg, first, before, val, ghost>>
  BY <1>2 DEF a0_ftx_unlock_pi
<1>4. PICK x \in Word : /\ x = [tid |-> w, waiters |-> TRUE, died |-> FALSE]
                        /\ x.tid = w /\ x.waiters
  <2>1. [tid |-> w, waiters |-> TRUE, died |-> FALSE] \in Word
    BY <1>3, Words
  <2> QED BY <2>1
<1>5. \A m \in Mutexes : /\ \A u \in queue[m] : u \in Threads /\ u # t /\ pc[u] = "blocked" /\ arg[u] = m
                         /\ \A u \in sleepers[m] : u \in Threads /\ u # t /\ pc[u] = "asleep" /\ arg[u] = m
  BY <1>1, <1>2 DEF Placed, TypeOK
<1>6. w \in Threads /\ w # t /\ pc[w] = "blocked" /\ arg[w] = arg[t] /\ w # None
  BY <1>2, <1>3, <1>5
<1>7. /\ ftx' \in [Mutexes -> Word] /\ ftx'[arg[t]] = x
      /\ \A m \in Mutexes : m # arg[t] => ftx'[m] = ftx[m] /\ queue'[m] = queue[m]
      /\ queue' \in [Mutexes -> SUBSET Threads] /\ queue'[arg[t]] = queue[arg[t]] \ {w}
      /\ pc' \in [Threads -> PCs] /\ pc'[t] = "end" /\ pc'[w] = "node"
      /\ \A u \in Threads : u \notin {t, w} => pc'[u] = pc[u]
  <2>1. ftx' = [ftx EXCEPT ![arg[t]] = x] /\ queue' = [queue EXCEPT ![arg[t]] = @ \ {w}]
    BY <1>3, <1>4 DEF Granted
  <2> QED BY <1>1, <1>2, <1>3, <1>4, <1>6, <2>1 DEF TypeOK, PCs
<1>8. TypeOK'
  BY <1>1, <1>3, <1>7 DEF TypeOK
<1>9. Placed'
  BY <1>1, <1>2, <1>3, <1>5, <1>6, <1>7 DEF Placed, Ordinary
<1>10. QueueIsServed'
  BY <1>1, <1>3, <1>4, <1>6, <1>7 DEF QueueIsServed
<1>11. WakeIsComing'
  <2> SUFFICES ASSUME NEW m \in Mutexes, NEW u \in sleepers[m], cnd[m] # val[u], ~cut[m]
               PROVE  \E v \in Threads : pc'[v] = "requeue" /\ arg[v] = m
    BY <1>3 DEF WakeIsComing
  <2>1. PICK v \in Threads : pc[v] = "requeue" /\ arg[v] = m
    BY <1>1 DEF WakeIsComing
  <2> QED BY <1>2, <1>6, <1>7, <2>1
<1> QED BY <1>8, <1>9, <1>10, <1>11 DEF QInv

(* Deadlines, going to sleep, and finding that the value has changed. *)
LEMMA SleepKeeps ==
  ASSUME QInv, NEW t \in Threads, LockTimeout(t) \/ WaitTimeout(t) \/ a0_ftx_wait_requeue_pi(t)
  PROVE  QInv'
PROOF
<1> USE RobustAssumption DEF memory, list, kernel, local, ghost, Go, GoTo
<1>1. TypeOK /\ Placed /\ QueueIsServed /\ WakeIsComing
  BY DEF QInv
<1>2. /\ pc[t] \in {"blocked", "asleep", "requeue_wait"} /\ arg[t] \in Mutexes \ Deadmen
  BY <1>1 DEF LockTimeout, WaitTimeout, a0_ftx_wait_requeue_pi, Placed, Ordinary
<1>3. /\ UNCHANGED <<memory, list, arg, first, before, val, ghost>>
      /\ \E l \in {"end", "cas", "asleep"} :
           /\ pc' = [pc EXCEPT ![t] = l]
           /\ l = "asleep" => sleepers' = [sleepers EXCEPT ![arg[t]] = @ \cup {t}] /\ queue' = queue
                              /\ cnd[arg[t]] = val[t] /\ pc[t] = "requeue_wait"
           /\ l # "asleep" => /\ sleepers' = sleepers \/ sleepers' = [sleepers EXCEPT ![arg[t]] = @ \ {t}]
                              /\ queue' = queue \/ queue' = [queue EXCEPT ![arg[t]] = @ \ {t}]
                              /\ pc[t] = "asleep" => sleepers' = [sleepers EXCEPT ![arg[t]] = @ \ {t}]
                              /\ pc[t] = "blocked" => queue' = [queue EXCEPT ![arg[t]] = @ \ {t}]
      /\ op' = op \/ op' = [op EXCEPT ![t] = "relock"]
  BY DEF LockTimeout, WaitTimeout, a0_ftx_wait_requeue_pi
<1>4. /\ TypeOK'
      /\ \A u \in Threads : u # t => pc'[u] = pc[u] /\ op'[u] = op[u]
      /\ pc'[t] \in {"end", "cas", "asleep"} /\ (op'[t] = op[t] \/ op'[t] = "relock")
  <2>1. /\ pc' \in [Threads -> PCs] /\ op' \in [Threads -> Ops]
        /\ \A u \in Threads : u # t => pc'[u] = pc[u] /\ op'[u] = op[u]
        /\ pc'[t] \in {"end", "cas", "asleep"} /\ (op'[t] = op[t] \/ op'[t] = "relock")
    <3>1. {"end", "cas", "asleep"} \subseteq PCs /\ "relock" \in Ops
      BY DEF PCs, Ops
    <3>2. pc \in [Threads -> PCs] /\ op \in [Threads -> Ops]
      BY <1>1 DEF TypeOK
    <3>3. \E l \in {"end", "cas", "asleep"} : pc' = [pc EXCEPT ![t] = l]
      BY <1>3
    <3>4. pc' \in [Threads -> PCs] /\ pc'[t] \in {"end", "cas", "asleep"}
          /\ \A u \in Threads : u # t => pc'[u] = pc[u]
      BY <3>1, <3>2, <3>3
    <3>5. op' \in [Threads -> Ops] /\ (op'[t] = op[t] \/ op'[t] = "relock")
          /\ \A u \in Threads : u # t => op'[u] = op[u]
      BY <1>3, <3>1, <3>2
    <3> QED BY <3>4, <3>5
  <2>2. queue' \in [Mutexes -> SUBSET Threads] /\ sleepers' \in [Mutexes -> SUBSET Threads]
    <3>1. queue \in [Mutexes -> SUBSET Threads] /\ sleepers \in [Mutexes -> SUBSET Threads]
      BY <1>1 DEF TypeOK
    <3>2. queue[arg[t]] \ {t} \in SUBSET Threads /\ sleepers[arg[t]] \ {t} \in SUBSET Threads
          /\ sleepers[arg[t]] \cup {t} \in SUBSET Threads
      BY <1>2, <3>1
    <3>3. /\ queue' = queue \/ queue' = [queue EXCEPT ![arg[t]] = @ \ {t}]
          /\ \/ sleepers' = sleepers
             \/ sleepers' = [sleepers EXCEPT ![arg[t]] = @ \ {t}]
             \/ sleepers' = [sleepers EXCEPT ![arg[t]] = @ \cup {t}]
      BY <1>3
    <3> QED BY <3>1, <3>2, <3>3
  <2> QED BY <1>1, <1>3, <2>1, <2>2 DEF TypeOK
<1>5. \A m \in Mutexes : /\ \A u \in queue[m] : u \in Threads /\ pc[u] = "blocked" /\ arg[u] = m
                         /\ \A u \in sleepers[m] : u \in Threads /\ pc[u] = "asleep" /\ arg[u] = m
  BY <1>1 DEF Placed, TypeOK
<1>6. /\ \A m \in Mutexes : \A u \in queue'[m] : u \in queue[m] /\ u # t
      /\ \A m \in Mutexes : \A u \in sleepers'[m] :
           \/ u \in sleepers[m] /\ u # t
           \/ u = t /\ m = arg[t] /\ pc'[t] = "asleep" /\ cnd[m] = val[t]
  BY <1>1, <1>2, <1>3, <1>5 DEF TypeOK
<1>7. Placed'
  <2>1. \A u \in Threads : pc'[u] \notin {"idle", "dead"} => arg'[u] \in Mutexes
    BY <1>1, <1>2, <1>3, <1>4 DEF Placed
  <2>2. \A u \in Threads : pc'[u] \in Ordinary \/ op'[u] = "wait" => arg'[u] \notin Deadmen
    BY <1>1, <1>2, <1>3, <1>4 DEF Placed
  <2>3. \A m \in Mutexes : /\ \A u \in queue'[m] : pc'[u] = "blocked" /\ arg'[u] = m
                           /\ \A u \in sleepers'[m] : pc'[u] = "asleep" /\ arg'[u] = m
    BY <1>3, <1>4, <1>5, <1>6
  <2> QED BY <2>1, <2>2, <2>3 DEF Placed
<1>8. QueueIsServed'
  BY <1>1, <1>3, <1>6 DEF QueueIsServed
<1>9. WakeIsComing'
  <2> SUFFICES ASSUME NEW m \in Mutexes, NEW u \in sleepers'[m], cnd[m] # val[u], ~cut[m]
               PROVE  \E v \in Threads : pc'[v] = "requeue" /\ arg[v] = m
    BY <1>3 DEF WakeIsComing
  <2>1. u \in sleepers[m]
    BY <1>6
  <2>2. PICK v \in Threads : pc[v] = "requeue" /\ arg[v] = m
    BY <1>1, <2>1 DEF WakeIsComing
  <2>3. v # t
    BY <1>2, <2>2
  <2> QED BY <1>4, <2>2, <2>3
<1> QED BY <1>4, <1>7, <1>8, <1>9 DEF QInv

(* A change of the condition variable sends its author to the sleepers. *)
LEMMA WakeKeeps ==
  ASSUME QInv, NEW t \in Threads, (\E m \in Mutexes : a0_cnd_broadcast(t, m)) \/ RequeueAgain(t)
  PROVE  QInv'
PROOF
<1> USE RobustAssumption DEF memory, list, kernel, local, ghost, Enter, Go, GoTo
<1>1. TypeOK /\ Placed /\ QueueIsServed /\ WakeIsComing
  BY DEF QInv
<1>2. PICK m \in Mutexes :
        /\ m \notin Deadmen
        /\ UNCHANGED <<ftx, list, kernel, first, before, ghost>>
        /\ \/ /\ pc[t] = "idle" /\ cnd[m] < MaxWakes
              /\ pc' = [pc EXCEPT ![t] = "requeue"] /\ op' = [op EXCEPT ![t] = "wake"]
              /\ arg' = [arg EXCEPT ![t] = m] /\ cnd' = [cnd EXCEPT ![m] = @ + 1]
              /\ val' = [val EXCEPT ![t] = cnd[m] + 1]
           \/ /\ pc[t] = "requeue" /\ arg[t] = m /\ UNCHANGED <<pc, op, arg, cnd>>
              /\ val' = [val EXCEPT ![t] = cnd[m]]
  <2>1. CASE \E m \in Mutexes : a0_cnd_broadcast(t, m)
    BY <2>1 DEF a0_cnd_broadcast, a0_cnd_wake
  <2>2. CASE RequeueAgain(t)
    <3>1. arg[t] \in Mutexes \ Deadmen
      BY <1>1, <2>2 DEF RequeueAgain, Placed, Ordinary
    <3> QED BY <2>2, <3>1 DEF RequeueAgain
  <2> QED BY <2>1, <2>2
<1>3. TypeOK'
  <2>1. /\ pc' \in [Threads -> PCs] /\ op' \in [Threads -> Ops]
        /\ arg' \in [Threads -> Mutexes \cup {None}]
    <3>1. {"requeue"} \subseteq PCs /\ {"wake"} \subseteq Ops
      BY DEF PCs, Ops
    <3>2. pc \in [Threads -> PCs] /\ op \in [Threads -> Ops] /\ arg \in [Threads -> Mutexes \cup {None}]
      BY <1>1 DEF TypeOK
    <3> QED BY <1>2, <3>1, <3>2
  <2>2. cnd' \in [Mutexes -> 0..MaxWakes] /\ val' \in [Threads -> 0..MaxWakes]
    BY <1>1, <1>2 DEF TypeOK
  <2> QED BY <1>1, <1>2, <2>1, <2>2 DEF TypeOK
<1>4. /\ pc'[t] = "requeue" /\ arg'[t] = m /\ (op'[t] = op[t] \/ op'[t] = "wake")
      /\ \A u \in Threads : u # t => /\ pc'[u] = pc[u] /\ op'[u] = op[u] /\ arg'[u] = arg[u]
                                     /\ val'[u] = val[u]
      /\ \A x \in Mutexes : x # m => cnd'[x] = cnd[x]
  BY <1>1, <1>2 DEF TypeOK
<1>5. \A x \in Mutexes : /\ \A u \in queue[x] : u \in Threads /\ u # t /\ pc[u] = "blocked" /\ arg[u] = x
                         /\ \A u \in sleepers[x] : u \in Threads /\ u # t /\ pc[u] = "asleep" /\ arg[u] = x
  BY <1>1, <1>2 DEF Placed, TypeOK
<1>6. Placed'
  <2>1. \A u \in Threads : pc'[u] \notin {"idle", "dead"} => arg'[u] \in Mutexes
    BY <1>1, <1>4 DEF Placed
  <2>2. \A u \in Threads : pc'[u] \in Ordinary \/ op'[u] = "wait" => arg'[u] \notin Deadmen
    BY <1>1, <1>2, <1>4 DEF Placed
  <2>3. \A x \in Mutexes : /\ \A u \in queue'[x] : pc'[u] = "blocked" /\ arg'[u] = x
                           /\ \A u \in sleepers'[x] : pc'[u] = "asleep" /\ arg'[u] = x
    BY <1>2, <1>4, <1>5
  <2> QED BY <2>1, <2>2, <2>3 DEF Placed
<1>7. QueueIsServed'
  BY <1>1, <1>2 DEF QueueIsServed
<1>8. WakeIsComing'
  <2> SUFFICES ASSUME NEW x \in Mutexes, NEW u \in sleepers[x], cnd'[x] # val'[u], ~cut[x]
               PROVE  \E v \in Threads : pc'[v] = "requeue" /\ arg'[v] = x
    BY <1>2 DEF WakeIsComing
  <2>1. CASE x = m
    BY <1>4, <2>1
  <2>2. CASE x # m
    <3>1. u \in Threads /\ u # t /\ cnd[x] # val[u]
      BY <1>4, <1>5, <2>2
    <3>2. PICK v \in Threads : pc[v] = "requeue" /\ arg[v] = x
      BY <1>1, <3>1 DEF WakeIsComing
    <3>3. v # t
      BY <1>2, <2>2, <3>2
    <3> QED BY <1>4, <3>2, <3>3
  <2> QED BY <2>1, <2>2
<1> QED BY <1>3, <1>6, <1>7, <1>8 DEF QInv

(* The sleepers are moved to the queue of the mutex, or one is given it. *)
LEMMA RequeueKeeps ==
  ASSUME QInv, NEW t \in Threads, Requeue(t)
  PROVE  QInv'
PROOF
<1> USE RobustAssumption DEF memory, list, kernel, local, ghost, SetWord
<1>1. TypeOK /\ Placed /\ QueueIsServed /\ WakeIsComing
  BY DEF QInv
<1>2. PICK m \in Mutexes : m = arg[t] /\ m \notin Deadmen
  BY <1>1 DEF Requeue, Placed, Ordinary
<1>3. PICK S \in SUBSET Threads : S = sleepers[m]
  BY <1>1 DEF TypeOK
<1>4. \A x \in Mutexes : /\ \A u \in queue[x] : u \in Threads /\ u # t /\ pc[u] = "blocked" /\ arg[u] = x
                         /\ \A u \in sleepers[x] : u \in Threads /\ u # t /\ pc[u] = "asleep" /\ arg[u] = x
  BY <1>1 DEF Placed, TypeOK, Requeue
<1>5. /\ pc[t] = "requeue" /\ sleepers' = [sleepers EXCEPT ![m] = {}]
      /\ op' = [op EXCEPT ![t] = "none"] /\ arg' = [arg EXCEPT ![t] = None]
      /\ val' = [val EXCEPT ![t] = 0]
      /\ UNCHANGED <<cnd, list, first, before, ghost>>
  BY <1>2 DEF Requeue
<1>6. /\ ftx' \in [Mutexes -> Word] /\ queue' \in [Mutexes -> SUBSET Threads]
      /\ pc' \in [Threads -> PCs] /\ pc'[t] = "idle"
      /\ \A x \in Mutexes : x # m => ftx'[x] = ftx[x] /\ queue'[x] = queue[x]
      /\ \A u \in Threads : u \notin S /\ u # t => pc'[u] = pc[u]
      /\ \A u \in S : pc'[u] \in {"blocked", "node"}
      /\ \A u \in queue'[m] : (u \in queue[m] \/ u \in S) /\ (u \in S => pc'[u] = "blocked")
      /\ queue'[m] # {} => ftx'[m].tid # None /\ ftx'[m].waiters
  <2> DEFINE q == [u \in Threads |-> IF u = t THEN "idle" ELSE IF u \in S THEN "blocked" ELSE pc[u]]
  <2>1. /\ q \in [Threads -> PCs] /\ q[t] = "idle" /\ "node" \in PCs
        /\ \A u \in Threads : u \notin S /\ u # t => q[u] = pc[u]
        /\ \A u \in S : u # t /\ q[u] = "blocked"
    <3>1. {"idle", "blocked", "node"} \subseteq PCs /\ pc \in [Threads -> PCs]
      BY <1>1 DEF PCs, TypeOK
    <3>2. \A u \in S : u # t
      BY <1>3, <1>4
    <3> QED BY <3>1, <3>2
  <2>2. \/ /\ S # {} /\ ftx[m].tid = None
           /\ \E w \in S : /\ ftx' = [ftx EXCEPT ![m] = [tid |-> w, waiters |-> S # {w}, died |-> ftx[m].died]]
                           /\ queue' = [queue EXCEPT ![m] = @ \cup (S \ {w})]
                           /\ pc' = [q EXCEPT ![w] = "node"]
        \/ /\ ftx[m].tid # None
           /\ ftx' = [ftx EXCEPT ![m] = [ftx[m] EXCEPT !.waiters = TRUE]]
           /\ queue' = [queue EXCEPT ![m] = @ \cup S] /\ pc' = q
        \/ S = {} /\ pc' = q /\ UNCHANGED <<ftx, queue>>
    BY <1>2, <1>3 DEF Requeue
  <2> HIDE DEF q
  <2>3. /\ ftx \in [Mutexes -> Word] /\ queue \in [Mutexes -> SUBSET Threads] /\ ftx[m] \in Word
    BY <1>1 DEF TypeOK
  <2>4. CASE /\ S # {} /\ ftx[m].tid = None
             /\ \E w \in S : /\ ftx' = [ftx EXCEPT ![m] = [tid |-> w, waiters |-> S # {w}, died |-> ftx[m].died]]
                             /\ queue' = [queue EXCEPT ![m] = @ \cup (S \ {w})]
                             /\ pc' = [q EXCEPT ![w] = "node"]
    <3>1. PICK w \in S : /\ ftx' = [ftx EXCEPT ![m] = [tid |-> w, waiters |-> S # {w}, died |-> ftx[m].died]]
                         /\ queue' = [queue EXCEPT ![m] = @ \cup (S \ {w})]
                         /\ pc' = [q EXCEPT ![w] = "node"]
      BY <2>4
    <3>2. queue[m] = {}
      BY <1>1, <2>4 DEF QueueIsServed
    <3>3. PICK x \in Word : /\ x = [tid |-> w, waiters |-> S # {w}, died |-> ftx[m].died]
                            /\ x.tid = w /\ (x.waiters <=> S # {w})
      <4>1. (S # {w}) \in BOOLEAN /\ ftx[m].died \in BOOLEAN /\ w \in Threads
        BY <2>3, Words
      <4>2. [tid |-> w, waiters |-> S # {w}, died |-> ftx[m].died] \in Word
        BY <4>1, Words
      <4> QED BY <4>2
    <3>4. /\ ftx' \in [Mutexes -> Word] /\ ftx'[m] = x
          /\ \A y \in Mutexes : y # m => ftx'[y] = ftx[y] /\ queue'[y] = queue[y]
          /\ queue' \in [Mutexes -> SUBSET Threads] /\ queue'[m] = S \ {w}
      BY <2>3, <3>1, <3>2, <3>3
    <3>5. /\ pc' \in [Threads -> PCs] /\ pc'[t] = "idle" /\ pc'[w] = "node"
          /\ \A u \in Threads : u # w => pc'[u] = q[u]
      BY <2>1, <3>1
    <3>6. \A u \in S : u \in Threads /\ (u # w => pc'[u] = "blocked")
      BY <2>1, <3>5
    <3>7. \A u \in Threads : u \notin S /\ u # t => pc'[u] = pc[u]
      BY <2>1, <3>5
    <3>8. queue'[m] # {} => ftx'[m].tid # None /\ ftx'[m].waiters
      BY <3>3, <3>4
    <3> QED BY <3>4, <3>5, <3>6, <3>7, <3>8
  <2>5. CASE /\ ftx[m].tid # None
             /\ ftx' = [ftx EXCEPT ![m] = [ftx[m] EXCEPT !.waiters = TRUE]]
             /\ queue' = [queue EXCEPT ![m] = @ \cup S] /\ pc' = q
    <3>1. PICK x \in Word : /\ x = [ftx[m] EXCEPT !.waiters = TRUE]
                            /\ x.tid = ftx[m].tid /\ x.waiters
      BY <2>3, Words
    <3>2. /\ ftx' \in [Mutexes -> Word] /\ ftx'[m] = x
          /\ \A y \in Mutexes : y # m => ftx'[y] = ftx[y] /\ queue'[y] = queue[y]
          /\ queue' \in [Mutexes -> SUBSET Threads] /\ queue'[m] = queue[m] \cup S
      BY <2>3, <2>5, <3>1
    <3> QED BY <2>1, <2>5, <3>1, <3>2
  <2>6. CASE S = {} /\ pc' = q /\ UNCHANGED <<ftx, queue>>
    BY <1>1, <2>1, <2>3, <2>6 DEF QueueIsServed
  <2> QED BY <2>2, <2>4, <2>5, <2>6
<1>7. /\ sleepers' \in [Mutexes -> SUBSET Threads] /\ sleepers'[m] = {}
      /\ \A x \in Mutexes : x # m => sleepers'[x] = sleepers[x]
      /\ op' \in [Threads -> Ops] /\ arg' \in [Threads -> Mutexes \cup {None}]
      /\ val' \in [Threads -> 0..MaxWakes] /\ op'[t] = "none" /\ arg'[t] = None
      /\ \A u \in Threads : u # t => op'[u] = op[u] /\ arg'[u] = arg[u] /\ val'[u] = val[u]
  <2>1. "none" \in Ops /\ 0 \in 0..MaxWakes
    BY DEF Ops
  <2> QED BY <1>1, <1>5, <2>1 DEF TypeOK
<1>8. TypeOK'
  BY <1>1, <1>5, <1>6, <1>7 DEF TypeOK
<1>9. Placed'
  <2>1. \A u \in S : u \in Threads /\ u # t /\ pc[u] = "asleep" /\ arg[u] = m
    BY <1>3, <1>4
  <2>2. \A u \in Threads : pc'[u] \notin {"idle", "dead"} => arg'[u] \in Mutexes
    BY <1>1, <1>6, <1>7, <2>1 DEF Placed
  <2>3. \A u \in Threads : pc'[u] \in Ordinary \/ op'[u] = "wait" => arg'[u] \notin Deadmen
    BY <1>1, <1>2, <1>6, <1>7, <2>1 DEF Placed, Ordinary
  <2>4. ASSUME NEW x \in Mutexes
        PROVE  /\ \A u \in queue'[x] : pc'[u] = "blocked" /\ arg'[u] = x
               /\ \A u \in sleepers'[x] : pc'[u] = "asleep" /\ arg'[u] = x
    <3>1. CASE x = m
      <4> SUFFICES ASSUME NEW u \in queue'[m] PROVE pc'[u] = "blocked" /\ arg'[u] = m
        BY <1>7, <3>1
      <4>1. CASE u \in S
        BY <1>6, <1>7, <2>1, <4>1
      <4>2. CASE u \notin S
        <5>1. u \in Threads /\ u # t /\ pc[u] = "blocked" /\ arg[u] = m
          BY <1>4, <1>6, <4>2
        <5> QED BY <1>6, <1>7, <4>2, <5>1
      <4> QED BY <4>1, <4>2
    <3>2. CASE x # m
      <4>1. \A u \in queue[x] \cup sleepers[x] : u \in Threads /\ u # t /\ u \notin S
        BY <1>4, <2>1, <3>2
      <4> QED BY <1>4, <1>6, <1>7, <3>2, <4>1
    <3> QED BY <3>1, <3>2
  <2> QED BY <2>2, <2>3, <2>4 DEF Placed
<1>10. QueueIsServed'
  BY <1>1, <1>6 DEF QueueIsServed
<1>11. WakeIsComing'
  <2> SUFFICES ASSUME NEW x \in Mutexes, NEW u \in sleepers'[x], cnd[x] # val'[u], ~cut[x]
               PROVE  \E v \in Threads : pc'[v] = "requeue" /\ arg'[v] = x
    BY <1>5 DEF WakeIsComing
  <2>1. x # m /\ u \in sleepers[x] /\ u \in Threads /\ u # t
    BY <1>4, <1>7
  <2>2. PICK v \in Threads : pc[v] = "requeue" /\ arg[v] = x
    BY <1>1, <1>7, <2>1 DEF WakeIsComing
  <2>3. v # t /\ v \notin S
    BY <1>2, <1>3, <1>4, <2>1, <2>2
  <2> QED BY <1>6, <1>7, <2>2, <2>3
<1> QED BY <1>8, <1>9, <1>10, <1>11 DEF QInv

\* What a death does to words, queues and the heirs.
Dies(t, heir) ==
  LET owned  == {m \in Mutexes : ftx[m].tid = t}
      found  == IF prev[t] = Offset THEN Listed(t) \cup {pending[t]} ELSE {}
      handed == DOMAIN heir
  IN  /\ handed = {m \in owned : queue[m] # {}}
      /\ \A m \in handed : heir[m] \in queue[m]
      /\ \A m \in handed : ftx'[m] = [tid |-> heir[m], waiters |-> TRUE, died |-> TRUE]
      /\ \A m \in (owned \cap found) \ handed :
           ftx'[m] = [tid |-> None, waiters |-> ftx[m].waiters, died |-> TRUE]
      /\ \A m \in Mutexes \ handed : m \notin owned \cap found => ftx'[m] = ftx[m]
      /\ \A m \in handed : queue'[m] = queue[m] \ {t, heir[m]}
      /\ \A m \in Mutexes \ handed : queue'[m] = queue[m] \ {t}
      /\ pc'[t] = "dead"
      /\ \A u \in Threads \ {t} :
           \/ pc'[u] = "node" /\ \E m \in handed : heir[m] = u
           \/ pc'[u] = pc[u] /\ \A m \in handed : heir[m] # u

(* A death is one of these. *)
LEMMA DieStep ==
  ASSUME TypeOK, NEW t \in Threads, Die(t)
  PROVE  /\ TypeOK'
         /\ \E heir : Dies(t, heir)
         /\ \A m \in Mutexes : /\ sleepers'[m] = sleepers[m] \ {t}
                               /\ cut'[m] <=> cut[m] \/ (pc[t] = "requeue" /\ arg[t] = m)
         /\ held'[t] = {} /\ op'[t] = "none" /\ arg'[t] = None
         /\ \A u \in Threads \ {t} : /\ held'[u] = held[u] /\ op'[u] = op[u] /\ arg'[u] = arg[u]
                                     /\ first'[u] = first[u] /\ before'[u] = before[u]
                                     /\ val'[u] = val[u]
         /\ UNCHANGED <<cnd, list>>
PROOF
<1> USE RobustAssumption DEF memory, list, kernel, local, ghost
<1> DEFINE owned  == {m \in Mutexes : ftx[m].tid = t}
           found  == IF prev[t] = Offset THEN Listed(t) \cup {pending[t]} ELSE {}
           handed == {m \in owned : queue[m] # {}}
<1>1. PICK heir \in [handed -> Threads] :
        /\ \A m \in handed : heir[m] \in queue[m]
        /\ ftx' = [m \in Mutexes |->
                     IF m \in handed THEN [tid |-> heir[m], waiters |-> TRUE, died |-> TRUE]
                     ELSE IF m \in owned \cap found
                       THEN [tid |-> None, waiters |-> ftx[m].waiters, died |-> TRUE]
                     ELSE ftx[m]]
        /\ queue' = [m \in Mutexes |->
                       queue[m] \ ({t} \cup IF m \in handed THEN {heir[m]} ELSE {})]
        /\ pc' = [u \in Threads |-> IF u = t THEN "dead"
                                    ELSE IF \E m \in handed : heir[m] = u THEN "node" ELSE pc[u]]
  BY DEF Die
<1> HIDE DEF found
<1>2. DOMAIN heir = handed /\ handed \subseteq Mutexes
  OBVIOUS
<1>3. /\ \A m \in handed : ftx'[m] = [tid |-> heir[m], waiters |-> TRUE, died |-> TRUE]
      /\ \A m \in (owned \cap found) \ handed :
           ftx'[m] = [tid |-> None, waiters |-> ftx[m].waiters, died |-> TRUE]
      /\ \A m \in Mutexes \ handed : m \notin owned \cap found => ftx'[m] = ftx[m]
  <2> HIDE DEF handed
  <2> QED BY <1>1, <1>2
<1>4. /\ \A m \in handed : queue'[m] = queue[m] \ {t, heir[m]}
      /\ \A m \in Mutexes \ handed : queue'[m] = queue[m] \ {t}
  <2> HIDE DEF handed
  <2> QED BY <1>1, <1>2
<1>5. /\ pc'[t] = "dead"
      /\ \A u \in Threads \ {t} : \/ pc'[u] = "node" /\ \E m \in handed : heir[m] = u
                                  \/ pc'[u] = pc[u] /\ \A m \in handed : heir[m] # u
  <2> HIDE DEF handed
  <2> QED BY <1>1
<1>6. Dies(t, heir)
  <2> HIDE DEF handed
  <2>1. handed = {m \in owned : queue[m] # {}}
    BY DEF handed
  <2> QED BY <1>1, <1>2, <1>3, <1>4, <1>5, <2>1 DEF Dies, found
<1>7. /\ ftx' \in [Mutexes -> Word] /\ queue' \in [Mutexes -> SUBSET Threads]
      /\ pc' \in [Threads -> PCs]
  <2> HIDE DEF handed, owned
  <2>1. /\ ftx \in [Mutexes -> Word] /\ queue \in [Mutexes -> SUBSET Threads]
        /\ pc \in [Threads -> PCs] /\ "dead" \in PCs /\ "node" \in PCs
    BY DEF TypeOK, PCs
  <2>2. ASSUME NEW m \in Mutexes PROVE ftx'[m] \in Word /\ queue'[m] \subseteq Threads
    <3>1. CASE m \in handed
      <4>1. heir[m] \in Threads
        BY <1>1, <3>1
      <4>2. [tid |-> heir[m], waiters |-> TRUE, died |-> TRUE] \in Word
        BY <4>1, Words
      <4>3. ftx'[m] = [tid |-> heir[m], waiters |-> TRUE, died |-> TRUE]
        BY <1>3, <3>1
      <4> QED BY <1>4, <2>1, <3>1, <4>2, <4>3
    <3>2. CASE m \notin handed
      <4>1. CASE m \in owned \cap found
        <5>1. ftx[m].waiters \in BOOLEAN
          BY <2>1, Words
        <5>2. [tid |-> None, waiters |-> ftx[m].waiters, died |-> TRUE] \in Word
          BY <5>1, Words
        <5>3. ftx'[m] = [tid |-> None, waiters |-> ftx[m].waiters, died |-> TRUE]
          BY <1>3, <3>2, <4>1
        <5> QED BY <1>4, <2>1, <3>2, <5>2, <5>3
      <4>2. CASE m \notin owned \cap found
        BY <1>3, <1>4, <2>1, <3>2, <4>2
      <4> QED BY <4>1, <4>2
    <3> QED BY <3>1, <3>2
  <2>3. ASSUME NEW u \in Threads PROVE pc'[u] \in PCs
    BY <1>5, <2>1
  <2>4. DOMAIN ftx' = Mutexes /\ DOMAIN queue' = Mutexes /\ DOMAIN pc' = Threads
    BY <1>1
  <2> QED BY <1>1, <2>2, <2>3
<1>8. /\ sleepers' = [m \in Mutexes |-> sleepers[m] \ {t}]
      /\ cut' = [m \in Mutexes |-> cut[m] \/ (pc[t] = "requeue" /\ arg[t] = m)]
      /\ held' = [held EXCEPT ![t] = {}]
      /\ op' = [op EXCEPT ![t] = "none"] /\ arg' = [arg EXCEPT ![t] = None]
      /\ first' = [first EXCEPT ![t] = None] /\ before' = [before EXCEPT ![t] = None]
      /\ val' = [val EXCEPT ![t] = 0]
      /\ deaths' = deaths + 1 /\ deaths < MaxDeaths
      /\ UNCHANGED <<cnd, list>>
  BY DEF Die
<1> HIDE DEF handed, owned
<1>9. TypeOK'
  <2>1. "none" \in Ops /\ 0 \in 0..MaxWakes
    BY DEF Ops
  <2>2. deaths' \in 0..MaxDeaths
    BY <1>8 DEF TypeOK
  <2>3. /\ sleepers' \in [Mutexes -> SUBSET Threads] /\ held' \in [Threads -> SUBSET Mutexes]
        /\ op' \in [Threads -> Ops] /\ arg' \in [Threads -> Mutexes \cup {None}]
        /\ first' \in [Threads -> Nodes \cup {None}] /\ before' \in [Threads -> Nodes \cup {None}]
        /\ val' \in [Threads -> 0..MaxWakes]
    BY <1>8, <2>1 DEF TypeOK
  <2>4. cut' \in [Mutexes -> BOOLEAN]
    BY <1>8
  <2> QED BY <1>7, <1>8, <2>2, <2>3, <2>4 DEF TypeOK
<1>10. \A m \in Mutexes : /\ sleepers'[m] = sleepers[m] \ {t}
                          /\ cut'[m] <=> cut[m] \/ (pc[t] = "requeue" /\ arg[t] = m)
  BY <1>8
<1>11. /\ held'[t] = {} /\ op'[t] = "none" /\ arg'[t] = None
       /\ \A u \in Threads \ {t} : /\ held'[u] = held[u] /\ op'[u] = op[u] /\ arg'[u] = arg[u]
                                   /\ first'[u] = first[u] /\ before'[u] = before[u]
                                   /\ val'[u] = val[u]
  BY <1>8 DEF TypeOK
<1> QED BY <1>6, <1>8, <1>9, <1>10, <1>11

(* The kernel serves the queues of a thread that dies. *)
LEMMA DieKeeps ==
  ASSUME QInv, NEW t \in Threads, Die(t)
  PROVE  QInv'
PROOF
<1> USE RobustAssumption DEF memory, list, kernel, local, ghost
<1>1. TypeOK /\ Placed /\ QueueIsServed /\ WakeIsComing
  BY DEF QInv
<1>2. /\ TypeOK'
      /\ \A m \in Mutexes : /\ sleepers'[m] = sleepers[m] \ {t}
                            /\ cut'[m] <=> cut[m] \/ (pc[t] = "requeue" /\ arg[t] = m)
      /\ op'[t] = "none" /\ arg'[t] = None
      /\ \A u \in Threads \ {t} : op'[u] = op[u] /\ arg'[u] = arg[u] /\ val'[u] = val[u]
      /\ UNCHANGED <<cnd, list>>
  BY <1>1, DieStep
<1>3. PICK heir : Dies(t, heir)
  BY <1>1, DieStep
<1>4. \A m \in Mutexes : /\ \A u \in queue[m] : u \in Threads /\ pc[u] = "blocked" /\ arg[u] = m
                         /\ \A u \in sleepers[m] : u \in Threads /\ pc[u] = "asleep" /\ arg[u] = m
  BY <1>1 DEF Placed, TypeOK
<1>5. /\ DOMAIN heir \subseteq Mutexes
      /\ \A m \in DOMAIN heir : /\ heir[m] \in queue[m] /\ heir[m] \in Threads
                                /\ pc[heir[m]] = "blocked" /\ arg[heir[m]] = m
                                /\ ftx'[m] = [tid |-> heir[m], waiters |-> TRUE, died |-> TRUE]
      /\ pc'[t] = "dead"
      /\ \A u \in Threads \ {t} :
           \/ pc'[u] = "node" /\ \E m \in DOMAIN heir : heir[m] = u
           \/ pc'[u] = pc[u] /\ \A m \in DOMAIN heir : heir[m] # u
  BY <1>3, <1>4 DEF Dies
<1>6. ASSUME NEW u \in Threads \ {t}
      PROVE  pc'[u] = pc[u] \/ (pc[u] = "blocked" /\ pc'[u] = "node")
  <2>1. CASE pc'[u] = "node" /\ \E m \in DOMAIN heir : heir[m] = u
    <3>1. PICK m \in DOMAIN heir : heir[m] = u
      BY <2>1
    <3>2. pc[heir[m]] = "blocked"
      BY <1>5
    <3> QED BY <2>1, <3>1, <3>2
  <2> QED BY <1>5, <2>1
<1>7. \A m \in Mutexes : \A u \in queue'[m] : u \in queue[m] /\ u # t /\ pc'[u] = "blocked"
  <2> SUFFICES ASSUME NEW m \in Mutexes, NEW u \in queue'[m]
               PROVE  u \in queue[m] /\ u # t /\ pc'[u] = "blocked"
    OBVIOUS
  <2>1. u \in queue[m] /\ u # t /\ (m \in DOMAIN heir => u # heir[m])
    BY <1>3 DEF Dies
  <2>2. u \in Threads /\ pc[u] = "blocked" /\ arg[u] = m
    BY <1>4, <2>1
  <2>3. ASSUME NEW x \in DOMAIN heir, heir[x] = u PROVE FALSE
    <3>1. arg[heir[x]] = x
      BY <1>5
    <3> QED BY <2>1, <2>2, <2>3, <3>1
  <2> QED BY <1>5, <2>1, <2>2, <2>3
<1>8. Placed'
  <2>1. \A u \in Threads : pc'[u] \notin {"idle", "dead"} => arg'[u] \in Mutexes
    BY <1>1, <1>2, <1>5, <1>6 DEF Placed
  <2>2. \A u \in Threads : pc'[u] \in Ordinary \/ op'[u] = "wait" => arg'[u] \notin Deadmen
    BY <1>1, <1>2, <1>5, <1>6 DEF Placed, Ordinary
  <2>3. \A m \in Mutexes : /\ \A u \in queue'[m] : pc'[u] = "blocked" /\ arg'[u] = m
                           /\ \A u \in sleepers'[m] : pc'[u] = "asleep" /\ arg'[u] = m
    BY <1>2, <1>4, <1>6, <1>7
  <2> QED BY <2>1, <2>2, <2>3 DEF Placed
<1>9. QueueIsServed'
  <2> SUFFICES ASSUME NEW m \in Mutexes, queue'[m] # {}
               PROVE  ftx'[m].tid # None /\ ftx'[m].waiters
    BY DEF QueueIsServed
  <2>1. queue[m] # {}
    BY <1>7
  <2>2. ftx[m].tid # None /\ ftx[m].waiters
    BY <1>1, <2>1 DEF QueueIsServed
  <2>3. CASE m \in DOMAIN heir
    <3>1. heir[m] \in Threads /\ ftx'[m] = [tid |-> heir[m], waiters |-> TRUE, died |-> TRUE]
      BY <1>5, <2>3
    <3> QED BY <3>1
  <2>4. CASE m \notin DOMAIN heir
    <3>1. ftx'[m] = ftx[m]
      BY <1>3, <2>1, <2>4 DEF Dies
    <3> QED BY <2>2, <3>1
  <2> QED BY <2>3, <2>4
<1>10. WakeIsComing'
  <2> SUFFICES ASSUME NEW m \in Mutexes, NEW u \in sleepers'[m], cnd[m] # val'[u], ~cut'[m]
               PROVE  \E v \in Threads : pc'[v] = "requeue" /\ arg'[v] = m
    BY <1>2 DEF WakeIsComing
  <2>1. u \in sleepers[m] /\ u \in Threads /\ u # t /\ ~cut[m] /\ ~(pc[t] = "requeue" /\ arg[t] = m)
    BY <1>2, <1>4
  <2>2. PICK v \in Threads : pc[v] = "requeue" /\ arg[v] = m
    BY <1>1, <1>2, <2>1 DEF WakeIsComing
  <2> QED BY <1>2, <1>6, <2>1, <2>2
<1> QED BY <1>2, <1>8, <1>9, <1>10 DEF QInv

(* At the start, nobody is queued and nobody sleeps. *)
LEMMA InitQInv == Init => QInv
PROOF
<1> SUFFICES ASSUME Init PROVE QInv
  OBVIOUS
<1>1. TypeOK
  <2>1. Free \in Word
    BY Words
  <2> QED BY <2>1, RobustAssumption DEF Init, TypeOK, PCs, Ops, Nodes
<1>2. Placed
  BY DEF Init, Placed, Ordinary
<1> QED BY <1>1, <1>2 DEF Init, QInv, QueueIsServed, WakeIsComing

(* Every step serves the queues and keeps the wake-ups. *)
LEMMA NextQInv == QInv /\ [Next]_vars => QInv'
PROOF
<1> SUFFICES ASSUME QInv, [Next]_vars PROVE QInv'
  OBVIOUS
<1>1. TypeOK /\ Placed
  BY DEF QInv
<1>2. ASSUME NEW t \in Threads, Calling(t) PROVE QInv'
  BY <1>2, CallKeeps, WakeKeeps DEF Calling
<1>3. ASSUME NEW t \in Threads, Running(t) PROVE QInv'
  <2>1. CASE \/ LockCas(t) \/ TryCas(t) \/ a0_ftx_trylock_pi(t) \/ ClearWord(t) \/ ReleaseCas(t)
             \/ a0_ftx_lock_pi(t) /\ ftx[arg[t]].tid \in {None, t}
             \/ a0_ftx_unlock_pi(t) /\ queue[arg[t]] = {}
    <3>1. PICK l \in PCs, w \in Word : Moves(t, l, w) /\ WordSteps(t, l, w)
      BY <1>1, <2>1, WordStep
    <3> QED BY <3>1, WordKeeps
  <2>2. CASE a0_ftx_lock_pi(t) /\ ftx[arg[t]].tid \notin {None, t}
    BY <2>2, BlockKeeps
  <2>3. CASE a0_ftx_unlock_pi(t) /\ queue[arg[t]] # {}
    BY <2>3, GrantKeeps
  <2>4. CASE AddNode(t) \/ AddPublish(t) \/ AddBack(t) \/ DelNext(t) \/ DelPrev(t)
             \/ a0_robust_op_end(t) \/ WaitStart(t)
    BY <2>4, ListKeeps
  <2>5. CASE a0_ftx_wait_requeue_pi(t)
    BY <2>5, SleepKeeps
  <2>6. CASE Requeue(t)
    BY <2>6, RequeueKeeps
  <2>7. CASE RequeueAgain(t)
    BY <2>7, WakeKeeps
  <2> QED BY <1>3, <2>1, <2>2, <2>3, <2>4, <2>5, <2>6, <2>7 DEF Running
<1>4. ASSUME NEW t \in Threads, LockTimeout(t) \/ WaitTimeout(t) PROVE QInv'
  BY <1>4, SleepKeeps
<1>5. ASSUME NEW t \in Threads, Die(t) PROVE QInv'
  BY <1>5, DieKeeps
<1>6. CASE UNCHANGED vars
  BY <1>6 DEF vars, memory, list, kernel, local, ghost, QInv, TypeOK, Placed, QueueIsServed, WakeIsComing
<1> QED BY <1>2, <1>3, <1>4, <1>5, <1>6 DEF Next

(* The invariant of the queue and the wake-ups. *)
THEOREM QueueInvariant == Spec => []QInv
  BY InitQInv, NextQInv, PTL DEF Spec

(* However locks, timeouts, requeues, handovers and deaths interleave,     *)
(* whoever is queued is queued on a mutex with an owner that knows.        *)
THEOREM QueuesServed == Spec => []QueueIsServed
PROOF
<1>1. QInv => QueueIsServed
  BY DEF QInv
<1> QED BY <1>1, QueueInvariant, PTL

(* Whoever sleeps through a change of the condition variable has a thread  *)
(* on its way to requeue it, unless that thread died.                      *)
THEOREM WakesCome == Spec => []WakeIsComing
PROOF
<1>1. QInv => WakeIsComing
  BY DEF QInv
<1> QED BY <1>1, QueueInvariant, PTL

-----------------------------------------------------------------------------
(* Walks.  What follows holds of any links f and g. *)

IsClosed(f, t, S) ==
  /\ f[t] \in Mutexes => f[t] \in S
  /\ \A n \in S : f[n] \in Mutexes => f[n] \in S

Walk(f, t) == {m \in Mutexes : \A S \in SUBSET Mutexes : IsClosed(f, t, S) => m \in S}

(* Listed is the walk along next. *)
LEMMA ListedIsWalk ==
  ASSUME NEW t
  PROVE  Listed(t) = Walk(next, t) /\ (Listed(t) = Walk(next, t))'
  BY DEF Listed, Closed, Walk, IsClosed

(* The walk is closed, and within every closed set. *)
LEMMA WalkLeast ==
  ASSUME NEW f, NEW t
  PROVE  /\ Walk(f, t) \subseteq Mutexes /\ IsClosed(f, t, Walk(f, t))
         /\ \A S \in SUBSET Mutexes : IsClosed(f, t, S) => Walk(f, t) \subseteq S
PROOF
<1>1. Walk(f, t) \subseteq Mutexes
  BY DEF Walk
<1>2. \A S \in SUBSET Mutexes : IsClosed(f, t, S) => Walk(f, t) \subseteq S
  BY DEF Walk
<1>3. f[t] \in Mutexes => f[t] \in Walk(f, t)
  BY DEF Walk, IsClosed
<1>4. ASSUME NEW n \in Walk(f, t), f[n] \in Mutexes PROVE f[n] \in Walk(f, t)
  <2> SUFFICES ASSUME NEW S \in SUBSET Mutexes, IsClosed(f, t, S) PROVE f[n] \in S
    BY <1>4 DEF Walk
  <2>1. n \in S
    BY <1>2
  <2> QED BY <1>4, <2>1 DEF IsClosed
<1> QED BY <1>1, <1>2, <1>3, <1>4 DEF IsClosed

(* A node is reached from another one, or from the head. *)
LEMMA WalkPred ==
  ASSUME NEW f, NEW t, NEW x \in Walk(f, t)
  PROVE  \E n \in (Walk(f, t) \ {x}) \cup {t} : f[n] = x
PROOF
<1> SUFFICES ASSUME \A n \in (Walk(f, t) \ {x}) \cup {t} : f[n] # x PROVE FALSE
  OBVIOUS
<1>1. Walk(f, t) \ {x} \in SUBSET Mutexes
  BY WalkLeast
<1>2. IsClosed(f, t, Walk(f, t) \ {x})
  <2>1. f[t] \in Mutexes => f[t] \in Walk(f, t) \ {x}
    BY WalkLeast DEF IsClosed
  <2>2. \A n \in Walk(f, t) \ {x} : f[n] \in Mutexes => f[n] \in Walk(f, t) \ {x}
    BY WalkLeast DEF IsClosed
  <2> QED BY <2>1, <2>2 DEF IsClosed
<1>3. Walk(f, t) \subseteq Walk(f, t) \ {x}
  BY <1>1, <1>2, WalkLeast
<1> QED BY <1>3

(* A walk depends on the links of the nodes it comes to. *)
LEMMA WalkSame ==
  ASSUME NEW f, NEW g, NEW t, \A n \in Walk(f, t) \cup {t} : g[n] = f[n]
  PROVE  Walk(g, t) = Walk(f, t)
PROOF
<1> DEFINE W == Walk(f, t)
           V == Walk(g, t)
<1>1. W \in SUBSET Mutexes /\ V \in SUBSET Mutexes /\ IsClosed(f, t, W) /\ IsClosed(g, t, V)
  BY WalkLeast
<1>2. IsClosed(g, t, W)
  BY <1>1 DEF IsClosed
<1>3. V \subseteq W
  BY <1>1, <1>2, WalkLeast
<1>4. IsClosed(f, t, V)
  BY <1>1, <1>3 DEF IsClosed
<1>5. W \subseteq V
  BY <1>1, <1>4, WalkLeast
<1> QED BY <1>3, <1>5

(* A node put in front. *)
LEMMA WalkAdd ==
  ASSUME NEW f, NEW g, NEW t, NEW m \in Mutexes, m \notin Walk(f, t),
         g[t] = m, g[m] = f[t], \A n \in Walk(f, t) : g[n] = f[n]
  PROVE  Walk(g, t) = Walk(f, t) \cup {m}
PROOF
<1> DEFINE W == Walk(f, t)
           V == Walk(g, t)
<1>1. W \in SUBSET Mutexes /\ V \in SUBSET Mutexes /\ IsClosed(f, t, W) /\ IsClosed(g, t, V)
  BY WalkLeast
<1>2. IsClosed(g, t, W \cup {m})
  BY <1>1 DEF IsClosed
<1>3. V \subseteq W \cup {m}
  BY <1>1, <1>2, WalkLeast
<1>4. m \in V
  BY <1>1 DEF IsClosed
<1>5. IsClosed(f, t, V \cap W)
  <2>1. f[t] \in Mutexes => f[t] \in V \cap W
    BY <1>1, <1>4 DEF IsClosed
  <2>2. \A n \in V \cap W : f[n] \in Mutexes => f[n] \in V \cap W
    BY <1>1 DEF IsClosed
  <2> QED BY <2>1, <2>2 DEF IsClosed
<1>6. W \subseteq V \cap W
  BY <1>1, <1>5, WalkLeast
<1> QED BY <1>3, <1>4, <1>6

(* A node taken out from behind its only predecessor b. *)
LEMMA WalkDel ==
  ASSUME NEW f, NEW g, NEW t, NEW m \in Walk(f, t), NEW b \in Walk(f, t) \cup {t},
         t \notin Mutexes, b # m, f[b] = m, f[m] # m,
         \A n \in Walk(f, t) \cup {t} : f[n] = m => n = b,
         g[b] = f[m], \A n \in (Walk(f, t) \cup {t}) \ {b} : g[n] = f[n]
  PROVE  Walk(g, t) = Walk(f, t) \ {m}
PROOF
<1> DEFINE W == Walk(f, t)
           V == Walk(g, t)
<1>1. W \in SUBSET Mutexes /\ V \in SUBSET Mutexes /\ IsClosed(f, t, W) /\ IsClosed(g, t, V)
  BY WalkLeast
<1>2. IsClosed(g, t, W \ {m})
  <2>1. g[t] \in Mutexes => g[t] \in W \ {m}
    <3>1. CASE t = b
      BY <1>1, <3>1 DEF IsClosed
    <3>2. CASE t # b
      BY <1>1, <3>2 DEF IsClosed
    <3> QED BY <3>1, <3>2
  <2>2. ASSUME NEW n \in W \ {m}, g[n] \in Mutexes PROVE g[n] \in W \ {m}
    <3>1. CASE n = b
      BY <1>1, <2>2, <3>1 DEF IsClosed
    <3>2. CASE n # b
      BY <1>1, <2>2, <3>2 DEF IsClosed
    <3> QED BY <3>1, <3>2
  <2> QED BY <2>1, <2>2 DEF IsClosed
<1>3. V \subseteq W \ {m}
  BY <1>1, <1>2, WalkLeast
<1>4. CASE b \in V \/ b = t
  <2>1. IsClosed(f, t, V \cup {m})
    <3>1. f[t] \in Mutexes => f[t] \in V \cup {m}
      BY <1>1 DEF IsClosed
    <3>2. f[m] \in Mutexes => f[m] \in V
      BY <1>1, <1>4 DEF IsClosed
    <3>3. \A n \in V : f[n] \in Mutexes => f[n] \in V \cup {m}
      BY <1>1, <1>3 DEF IsClosed
    <3> QED BY <3>1, <3>2, <3>3 DEF IsClosed
  <2>2. W \subseteq V \cup {m}
    BY <1>1, <2>1, WalkLeast
  <2> QED BY <1>3, <2>2
<1>5. CASE b \notin V /\ b # t
  <2>1. IsClosed(f, t, V)
    BY <1>1, <1>3, <1>5 DEF IsClosed
  <2>2. W \subseteq V
    BY <1>1, <2>1, WalkLeast
  <2> QED BY <1>3, <1>5, <2>2
<1> QED BY <1>4, <1>5

-----------------------------------------------------------------------------
(* Who owns what. *)

\* The parts of Owned, thread by thread.
Owns(m, t) == ftx[m].tid = t <=> Claim(t, m)
Apart(t) ==
  /\ pc[t] \in Adding \cup Removing \cup {"blocked", "asleep", "rewait", "requeue_wait"} =>
       arg[t] \notin held[t]
  /\ pc[t] = "dead" => held[t] = {}
  /\ pc[t] \notin {"idle", "dead", "rewait", "requeue"} => pending[t] = arg[t]

(* Owned is made of them. *)
LEMMA OwnedParts ==
  /\ Owned <=> (\A m \in Mutexes, t \in Threads : Owns(m, t)) /\ \A t \in Threads : Apart(t)
  /\ (Owned <=> (\A m \in Mutexes, t \in Threads : Owns(m, t)) /\ \A t \in Threads : Apart(t))'
  BY DEF Owned, Owns, Apart

(* A thread that does not move keeps its claims. *)
LEMMA StillApart ==
  ASSUME NEW t \in Threads, Apart(t),
         pc'[t] = pc[t], arg'[t] = arg[t], held'[t] = held[t], pending'[t] = pending[t]
  PROVE  Apart(t)' /\ \A m : Claim(t, m)' <=> Claim(t, m)
  BY DEF Apart, Claim

(* Steps on a word. *)
LEMMA WordOwned ==
  ASSUME QInv, Owned, NEW t \in Threads, NEW l \in PCs, NEW w \in Word,
         Moves(t, l, w), WordSteps(t, l, w)
  PROVE  Owned'
PROOF
<1> USE RobustAssumption DEF memory, list, kernel, local, ghost
<1>1. TypeOK /\ Placed
  BY DEF QInv
<1>2. pc[t] \in {"cas", "lock_pi", "try", "try_pi", "clear", "release", "unlock_pi"}
  BY DEF WordSteps
<1>3. PICK m \in Mutexes : m = arg[t]
  BY <1>1, <1>2 DEF Placed
<1>4. /\ ftx'[m] = w /\ \A x \in Mutexes : x # m => ftx'[x] = ftx[x]
      /\ pc'[t] = l /\ \A u \in Threads : u # t => pc'[u] = pc[u]
      /\ UNCHANGED <<arg, held, pending>>
  BY <1>1, <1>3 DEF TypeOK, Moves
<1>5. \A u \in Threads : u # t => Apart(u)' /\ \A x : Claim(u, x)' <=> Claim(u, x)
  BY <1>4, OwnedParts, StillApart
<1>6. Apart(t) /\ \A x \in Mutexes, u \in Threads : Owns(x, u)
  BY OwnedParts
<1>7. \A x \in Mutexes : x # m => (Claim(t, x)' <=> Claim(t, x))
  BY <1>3, <1>4 DEF Claim
<1>8. /\ Apart(t)' /\ (w.tid = t <=> Claim(t, m)')
      /\ \A u \in Threads : u # t => (w.tid = u <=> Claim(u, m))
  <2>1. CASE /\ pc[t] \in {"cas", "lock_pi", "try", "try_pi"} /\ l = "node"
             /\ ftx[m].tid = None /\ w.tid = t
    BY <1>3, <1>4, <1>6, <2>1 DEF Apart, Owns, Claim, Adding, Removing
  <2>2. CASE /\ pc[t] \in {"cas", "lock_pi", "try", "try_pi"} /\ l \in {"lock_pi", "try_pi", "end"}
             /\ w = ftx[m]
    BY <1>3, <1>4, <1>6, <2>2 DEF Apart, Owns, Claim, Adding, Removing
  <2>3. CASE /\ pc[t] \in {"clear", "release"} /\ l \in {"release", "unlock_pi"}
             /\ w.tid = ftx[m].tid
    BY <1>3, <1>4, <1>6, <2>3 DEF Apart, Owns, Claim, Adding, Removing
  <2>4. CASE pc[t] \in {"clear", "release", "unlock_pi"} /\ l = "end" /\ w = Free
    <3>1. w.tid = None
      BY <2>4, Words
    <3>2. ftx[m].tid = t /\ m \notin held[t]
      BY <1>3, <1>6, <2>4 DEF Apart, Owns, Claim, Removing
    <3> QED BY <1>3, <1>4, <1>6, <2>4, <3>1, <3>2 DEF Apart, Owns, Claim, Adding, Removing
  <2> QED BY <1>3, <2>1, <2>2, <2>3, <2>4 DEF WordSteps
<1>9. \A x \in Mutexes, u \in Threads : Owns(x, u)'
  BY <1>4, <1>5, <1>6, <1>7, <1>8 DEF Owns
<1> QED BY <1>5, <1>8, <1>9, OwnedParts

(* A step that leaves the words alone and what one thread claims. *)
LEMMA LocalOwned ==
  ASSUME Owned, NEW t \in Threads,
         \A m \in Mutexes : ftx'[m].tid = ftx[m].tid,
         \A u \in Threads : u # t => /\ pc'[u] = pc[u] /\ arg'[u] = arg[u]
                                     /\ held'[u] = held[u] /\ pending'[u] = pending[u],
         Apart(t)', \A m \in Mutexes : Claim(t, m)' <=> Claim(t, m)
  PROVE  Owned'
PROOF
<1>1. \A u \in Threads : u # t => Apart(u)' /\ \A x : Claim(u, x)' <=> Claim(u, x)
  BY OwnedParts, StillApart
<1>2. \A x \in Mutexes, u \in Threads : Owns(x, u)
  BY OwnedParts
<1>3. \A x \in Mutexes, u \in Threads : Owns(x, u)'
  BY <1>1, <1>2 DEF Owns
<1> QED BY <1>1, <1>3, OwnedParts

(* Entering an operation: an unlock moves the claim from held to the step. *)
LEMMA CallOwned ==
  ASSUME QInv, Owned, ~ForeignRelease, NEW t \in Threads, Calling(t)
  PROVE  Owned'
PROOF
<1> USE RobustAssumption DEF memory, list, kernel, local, ghost, Enter, Go, GoTo, a0_robust_op_start
<1>1. TypeOK /\ Apart(t)
  BY OwnedParts DEF QInv
<1>2. PICK m \in Mutexes :
        \/ a0_mtx_timedlock(t, m) \/ a0_mtx_trylock(t, m) \/ a0_mtx_unlock(t, m)
        \/ a0_deadman_mtx_unlock(t, m) \/ a0_cnd_timedwait(t, m) \/ a0_cnd_broadcast(t, m)
  BY DEF Calling
<1>3. /\ pc[t] = "idle" /\ ftx' = ftx /\ arg' = [arg EXCEPT ![t] = m]
      /\ \/ /\ held' = held
            /\ \/ /\ pending' = [pending EXCEPT ![t] = m]
                  /\ \E l \in {"cas", "try"} : pc' = [pc EXCEPT ![t] = l]
               \/ pending' = pending /\ pc' = [pc EXCEPT ![t] = "requeue"]
         \/ /\ m \in held[t] /\ held' = [held EXCEPT ![t] = @ \ {m}]
            /\ pending' = [pending EXCEPT ![t] = m] /\ pc' = [pc EXCEPT ![t] = "unlink"]
  <2>1. CASE a0_deadman_mtx_unlock(t, m)
    <3>1. m \in held[t] /\ held' = [held EXCEPT ![t] = @ \ {m}]
      BY <2>1 DEF a0_deadman_mtx_unlock
    <3> QED BY <2>1, <3>1 DEF a0_deadman_mtx_unlock
  <2>2. CASE a0_mtx_timedlock(t, m)
    BY <2>2 DEF a0_mtx_timedlock
  <2>3. CASE a0_mtx_trylock(t, m)
    BY <2>3 DEF a0_mtx_trylock
  <2>4. CASE a0_mtx_unlock(t, m)
    BY <2>4 DEF a0_mtx_unlock
  <2>5. CASE a0_cnd_timedwait(t, m)
    BY <2>5 DEF a0_cnd_timedwait
  <2>6. CASE a0_cnd_broadcast(t, m)
    BY <2>6 DEF a0_cnd_broadcast, a0_cnd_wake
  <2> QED BY <1>2, <2>1, <2>2, <2>3, <2>4, <2>5, <2>6
<1>4. /\ arg'[t] = m /\ pc'[t] \in {"cas", "try", "requeue", "unlink"}
      /\ pc'[t] # "requeue" => pending'[t] = m
      /\ \/ held'[t] = held[t] /\ pc'[t] \in {"cas", "try", "requeue"}
         \/ m \in held[t] /\ held'[t] = held[t] \ {m} /\ pc'[t] = "unlink"
      /\ \A u \in Threads : u # t => /\ pc'[u] = pc[u] /\ arg'[u] = arg[u]
                                     /\ held'[u] = held[u] /\ pending'[u] = pending[u]
  BY <1>1, <1>3 DEF TypeOK
<1>5. Apart(t)' /\ \A x \in Mutexes : Claim(t, x)' <=> Claim(t, x)
  BY <1>3, <1>4 DEF Apart, Claim, Adding, Removing
<1> QED BY <1>3, <1>4, <1>5, LocalOwned

(* The list, the ends of operations, and the wait. *)
LEMMA StepOwned ==
  ASSUME QInv, Owned, NEW t \in Threads,
         \/ AddNode(t) \/ AddPublish(t) \/ AddBack(t) \/ DelNext(t) \/ DelPrev(t)
         \/ a0_robust_op_end(t) \/ WaitStart(t)
         \/ LockTimeout(t) \/ WaitTimeout(t) \/ a0_ftx_wait_requeue_pi(t) \/ RequeueAgain(t)
         \/ a0_ftx_lock_pi(t) /\ ftx[arg[t]].tid \notin {None, t}
  PROVE  Owned'
PROOF
<1> USE RobustAssumption DEF memory, list, kernel, local, ghost, Go, GoTo, a0_robust_op_start, SetWord
<1>1. TypeOK /\ Placed /\ Apart(t) /\ \A x \in Mutexes, u \in Threads : Owns(x, u)
  BY OwnedParts DEF QInv
<1>2. arg[t] \in Mutexes
  BY <1>1 DEF Placed, AddNode, AddPublish, AddBack, DelNext, DelPrev, a0_robust_op_end, WaitStart,
              LockTimeout, WaitTimeout, a0_ftx_wait_requeue_pi, RequeueAgain, a0_ftx_lock_pi
<1>3. /\ \A m \in Mutexes : ftx'[m].tid = ftx[m].tid
      /\ \A u \in Threads : u # t => /\ pc'[u] = pc[u] /\ arg'[u] = arg[u]
                                     /\ held'[u] = held[u] /\ pending'[u] = pending[u]
  <2>1. CASE a0_ftx_lock_pi(t) /\ ftx[arg[t]].tid \notin {None, t}
    <3>1. /\ ftx' = [ftx EXCEPT ![arg[t]] = [ftx[arg[t]] EXCEPT !.waiters = TRUE]]
          /\ pc' = [pc EXCEPT ![t] = "blocked"] /\ UNCHANGED <<arg, held, pending>>
      BY <2>1 DEF a0_ftx_lock_pi
    <3>2. ftx \in [Mutexes -> Word] /\ [ftx[arg[t]] EXCEPT !.waiters = TRUE].tid = ftx[arg[t]].tid
      BY <1>1, <1>2, Words DEF TypeOK
    <3> QED BY <1>1, <1>2, <3>1, <3>2 DEF TypeOK
  <2>2. CASE \/ AddNode(t) \/ AddPublish(t) \/ AddBack(t) \/ DelNext(t) \/ DelPrev(t)
             \/ a0_robust_op_end(t) \/ WaitStart(t)
             \/ LockTimeout(t) \/ WaitTimeout(t) \/ a0_ftx_wait_requeue_pi(t) \/ RequeueAgain(t)
    <3>1. /\ ftx' = ftx
          /\ pc' = pc \/ \E l : pc' = [pc EXCEPT ![t] = l]
          /\ arg' = arg \/ arg' = [arg EXCEPT ![t] = None]
          /\ held' = held \/ held' = [held EXCEPT ![t] = @ \cup {arg[t]}]
          /\ pending' = pending \/ pending' = [pending EXCEPT ![t] = None]
             \/ pending' = [pending EXCEPT ![t] = arg[t]]
      BY <2>2 DEF AddNode, AddPublish, AddBack, DelNext, DelPrev, a0_robust_op_end, WaitStart,
              LockTimeout, WaitTimeout, a0_ftx_wait_requeue_pi, RequeueAgain
    <3> QED BY <1>1, <3>1 DEF TypeOK
  <2> QED BY <2>1, <2>2
<1>4. Apart(t)' /\ \A x \in Mutexes : Claim(t, x)' <=> Claim(t, x)
  <2>1. CASE AddNode(t) \/ AddPublish(t) \/ DelNext(t) \/ DelPrev(t)
    <3>1. /\ pc[t] \in Adding \cup Removing /\ pc'[t] \in Adding \cup Removing
          /\ UNCHANGED <<arg, held, pending>>
      BY <1>1, <2>1 DEF TypeOK, AddNode, AddPublish, DelNext, DelPrev, Adding, Removing
    <3> QED BY <1>1, <3>1 DEF Apart, Claim, Adding, Removing
  <2>2. CASE AddBack(t)
    <3>1. /\ pc[t] = "back" /\ pc'[t] = "end" /\ UNCHANGED <<arg, pending>>
          /\ held'[t] = held[t] \cup {arg[t]}
      BY <1>1, <2>2 DEF TypeOK, AddBack
    <3> QED BY <1>1, <3>1 DEF Apart, Claim, Adding, Removing
  <2>3. CASE a0_robust_op_end(t)
    <3>1. /\ pc[t] = "end" /\ held' = held
          /\ \/ pc'[t] = "rewait" /\ arg'[t] = arg[t] /\ arg[t] \notin held[t]
             \/ pc'[t] = "idle" /\ arg'[t] = None
      BY <1>1, <2>3 DEF TypeOK, a0_robust_op_end
    <3> QED BY <3>1 DEF Apart, Claim, Adding, Removing
  <2>4. CASE WaitStart(t)
    <3>1. /\ pc[t] = "rewait" /\ pc'[t] = "requeue_wait" /\ UNCHANGED <<arg, held>>
          /\ pending'[t] = arg[t]
      BY <1>1, <2>4 DEF TypeOK, WaitStart
    <3> QED BY <1>1, <3>1 DEF Apart, Claim, Adding, Removing
  <2>5. CASE LockTimeout(t) \/ WaitTimeout(t) \/ a0_ftx_wait_requeue_pi(t)
    <3>1. /\ pc[t] \in {"blocked", "asleep", "requeue_wait"} /\ pc'[t] \in {"end", "cas", "asleep"}
          /\ UNCHANGED <<arg, held, pending>>
      BY <1>1, <2>5 DEF TypeOK, LockTimeout, WaitTimeout, a0_ftx_wait_requeue_pi
    <3> QED BY <1>1, <3>1 DEF Apart, Claim, Adding, Removing
  <2>6. CASE RequeueAgain(t)
    BY <1>1, <2>6 DEF RequeueAgain, Apart, Claim
  <2>7. CASE a0_ftx_lock_pi(t) /\ ftx[arg[t]].tid \notin {None, t}
    <3>1. /\ pc[t] = "lock_pi" /\ pc'[t] = "blocked" /\ UNCHANGED <<arg, held, pending>>
      BY <1>1, <2>7 DEF TypeOK, a0_ftx_lock_pi
    <3>2. arg[t] \notin held[t]
      BY <1>1, <1>2, <2>7 DEF Owns, Claim
    <3> QED BY <1>1, <3>1, <3>2 DEF Apart, Claim, Adding, Removing
  <2> QED BY <2>1, <2>2, <2>3, <2>4, <2>5, <2>6, <2>7
<1> QED BY <1>3, <1>4, LocalOwned

(* A handover. *)
LEMMA GrantOwned ==
  ASSUME QInv, Owned, NEW t \in Threads, a0_ftx_unlock_pi(t), queue[arg[t]] # {}
  PROVE  Owned'
PROOF
<1> USE RobustAssumption DEF memory, list, kernel, local, ghost, GoTo, SetWord
<1>1. TypeOK /\ Placed /\ Apart(t) /\ \A x \in Mutexes, u \in Threads : Owns(x, u)
  BY OwnedParts DEF QInv
<1>2. PICK m \in Mutexes : m = arg[t] /\ pc[t] = "unlock_pi" /\ queue[m] \subseteq Threads
  BY <1>1 DEF a0_ftx_unlock_pi, Placed, TypeOK
<1>3. PICK w \in Threads : /\ w \in queue[m] /\ Granted(m, w, FALSE)
                           /\ pc' = [pc EXCEPT ![t] = "end", ![w] = "node"]
                           /\ UNCHANGED <<arg, held, pending>>
  BY <1>2 DEF a0_ftx_unlock_pi
<1>4. pc[w] = "blocked" /\ arg[w] = m /\ w # t /\ Apart(w)
  BY <1>1, <1>2, <1>3, OwnedParts DEF Placed
<1>5. /\ ftx'[m].tid = w /\ \A x \in Mutexes : x # m => ftx'[x] = ftx[x]
      /\ pc'[t] = "end" /\ pc'[w] = "node"
      /\ \A u \in Threads : u \notin {t, w} => pc'[u] = pc[u]
  BY <1>1, <1>3, <1>4 DEF Granted, TypeOK
<1>6. \A u \in Threads : u \notin {t, w} => Apart(u)' /\ \A x : Claim(u, x)' <=> Claim(u, x)
  BY <1>3, <1>5, OwnedParts, StillApart
<1>7. Apart(t)' /\ Apart(w)'
  BY <1>1, <1>3, <1>4, <1>5, <1>2 DEF Apart, Adding, Removing
<1>8. ftx[m].tid = t /\ m \notin held[t] /\ m \notin held[w]
  BY <1>1, <1>2, <1>4 DEF Owns, Claim, Apart, Removing
<1>9. ASSUME NEW x \in Mutexes, NEW u \in Threads PROVE Owns(x, u)'
  <2>1. CASE u \notin {t, w}
    BY <1>1, <1>5, <1>6, <1>8, <2>1 DEF Owns
  <2>2. CASE u = t
    BY <1>1, <1>2, <1>3, <1>4, <1>5, <1>8, <2>2 DEF Owns, Claim, Adding, Removing
  <2>3. CASE u = w
    <3>1. CASE x = m
      BY <1>3, <1>4, <1>5, <2>3, <3>1 DEF Owns, Claim, Adding
    <3>2. CASE x # m
      <4>1. ftx'[x] = ftx[x] /\ (Claim(w, x)' <=> x \in held[w]) /\ (Claim(w, x) <=> x \in held[w])
        BY <1>3, <1>4, <1>5, <3>2 DEF Claim
      <4>2. ftx[x].tid = w <=> Claim(w, x)
        BY <1>1 DEF Owns
      <4> QED BY <2>3, <4>1, <4>2 DEF Owns
    <3> QED BY <3>1, <3>2
  <2> QED BY <2>1, <2>2, <2>3
<1> QED BY <1>6, <1>7, <1>9, OwnedParts

(* A wake-up: one sleeper may get the mutex, the others come to claim nothing. *)
LEMMA RequeueOwned ==
  ASSUME QInv, Owned, NEW t \in Threads, Requeue(t)
  PROVE  Owned'
PROOF
<1> USE RobustAssumption DEF memory, list, kernel, local, ghost, SetWord
<1>1. TypeOK /\ Placed /\ Apart(t) /\ \A x \in Mutexes, u \in Threads : Owns(x, u)
  BY OwnedParts DEF QInv
<1>2. PICK m \in Mutexes : m = arg[t]
  BY <1>1 DEF Requeue, Placed
<1>3. PICK S \in SUBSET Threads : S = sleepers[m]
  BY <1>1 DEF TypeOK
<1>4. pc[t] = "requeue" /\ \A u \in S : u # t /\ pc[u] = "asleep" /\ arg[u] = m /\ Apart(u)
  BY <1>1, <1>3, OwnedParts DEF Placed, Requeue
<1>5. /\ arg'[t] = None /\ \A u \in Threads : u # t => arg'[u] = arg[u]
      /\ UNCHANGED <<held, pending>>
  BY <1>1 DEF Requeue, TypeOK
<1> DEFINE q == [u \in Threads |-> IF u = t THEN "idle" ELSE IF u \in S THEN "blocked" ELSE pc[u]]
<1>6. /\ q[t] = "idle" /\ \A u \in S : q[u] = "blocked"
      /\ \A u \in Threads : u \notin S /\ u # t => q[u] = pc[u]
  BY <1>4
<1>7. Apart(t)' /\ \A x \in Mutexes : Claim(t, x)' <=> Claim(t, x)
  <2>1. pc'[t] = "idle"
    <3>1. pc' = q \/ \E w \in S : pc' = [q EXCEPT ![w] = "node"]
      BY <1>2, <1>3 DEF Requeue
    <3> QED BY <1>4, <1>6, <3>1
  <2> QED BY <1>1, <1>4, <1>5, <2>1 DEF Apart, Claim, Adding, Removing
<1>8. CASE \E w \in S : /\ ftx[m].tid = None /\ pc' = [q EXCEPT ![w] = "node"]
                        /\ ftx' = [ftx EXCEPT ![m] = [tid |-> w, waiters |-> S # {w}, died |-> ftx[m].died]]
  <2>1. PICK w \in S : /\ ftx[m].tid = None /\ pc' = [q EXCEPT ![w] = "node"]
                       /\ ftx' = [ftx EXCEPT ![m] = [tid |-> w, waiters |-> S # {w}, died |-> ftx[m].died]]
    BY <1>8
  <2>2. /\ ftx'[m].tid = w /\ \A x \in Mutexes : x # m => ftx'[x] = ftx[x]
        /\ pc'[w] = "node" /\ \A u \in S : u # w => pc'[u] = "blocked"
        /\ \A u \in Threads : u \notin S /\ u # t => pc'[u] = pc[u]
    <3>1. ftx \in [Mutexes -> Word] /\ w \in Threads
      BY <1>1 DEF TypeOK
    <3> HIDE DEF q
    <3>2. DOMAIN q = Threads
      BY DEF q
    <3> QED BY <1>4, <1>6, <2>1, <3>1, <3>2
  <2>3. \A u \in S : Apart(u)' /\ u \in Threads
    BY <1>4, <1>5, <2>2 DEF Apart, Adding, Removing
  <2>4. \A u \in Threads : u # t /\ u \notin S => Apart(u)' /\ \A x : Claim(u, x)' <=> Claim(u, x)
    BY <1>5, <2>2, OwnedParts, StillApart
  <2>5. \A u \in S : /\ \A x \in Mutexes : Claim(u, x) <=> x \in held[u]
                     /\ \A x \in Mutexes : Claim(u, x)' <=> x \in held[u] \/ (u = w /\ x = m)
    BY <1>4, <1>5, <2>2 DEF Claim, Adding, Removing
  <2>6. ASSUME NEW x \in Mutexes, NEW u \in Threads PROVE Owns(x, u)'
    <3>1. \A v \in Threads : ftx[x].tid = v <=> Claim(v, x)
      BY <1>1 DEF Owns
    <3>2. CASE x # m
      <4>1. ftx'[x] = ftx[x]
        BY <2>2, <3>2
      <4>2. Claim(u, x)' <=> Claim(u, x)
        BY <1>7, <2>4, <2>5, <3>2
      <4> QED BY <3>1, <4>1, <4>2 DEF Owns
    <3>3. CASE x = m
      <4>1. ~Claim(u, m)
        BY <2>1, <3>1, <3>3
      <4>2. Claim(u, m)' <=> u = w
        BY <1>4, <1>7, <2>4, <2>5, <4>1
      <4> QED BY <2>2, <3>3, <4>2 DEF Owns
    <3> QED BY <3>2, <3>3
  <2> QED BY <1>7, <2>3, <2>4, <2>6, OwnedParts
<1>9. CASE pc' = q /\ (ftx' = ftx \/ ftx' = [ftx EXCEPT ![m] = [ftx[m] EXCEPT !.waiters = TRUE]])
  <2>1. \A x \in Mutexes : ftx'[x].tid = ftx[x].tid
    <3>1. ftx \in [Mutexes -> Word] /\ [ftx[m] EXCEPT !.waiters = TRUE].tid = ftx[m].tid
      BY <1>1, Words DEF TypeOK
    <3> QED BY <1>9, <3>1
  <2>2. ASSUME NEW u \in Threads, u # t
        PROVE  Apart(u)' /\ \A x \in Mutexes : Claim(u, x)' <=> Claim(u, x)
    <3>1. CASE u \in S
      BY <1>4, <1>5, <1>6, <1>9, <3>1 DEF Apart, Claim, Adding, Removing
    <3>2. CASE u \notin S
      BY <1>5, <1>6, <1>9, <2>2, <3>2, OwnedParts, StillApart
    <3> QED BY <3>1, <3>2
  <2>3. \A x \in Mutexes, u \in Threads : Owns(x, u)'
    BY <1>1, <1>7, <2>1, <2>2 DEF Owns
  <2> QED BY <1>7, <2>2, <2>3, OwnedParts
<1>10. \/ \E w \in S : /\ ftx[m].tid = None /\ pc' = [q EXCEPT ![w] = "node"]
                       /\ ftx' = [ftx EXCEPT ![m] = [tid |-> w, waiters |-> S # {w}, died |-> ftx[m].died]]
       \/ pc' = q /\ (ftx' = ftx \/ ftx' = [ftx EXCEPT ![m] = [ftx[m] EXCEPT !.waiters = TRUE]])
  <2>1. \/ /\ S # {} /\ ftx[m].tid = None
           /\ \E w \in S : /\ ftx' = [ftx EXCEPT ![m] = [tid |-> w, waiters |-> S # {w}, died |-> ftx[m].died]]
                           /\ queue' = [queue EXCEPT ![m] = @ \cup (S \ {w})]
                           /\ pc' = [q EXCEPT ![w] = "node"]
        \/ /\ ftx[m].tid # None
           /\ ftx' = [ftx EXCEPT ![m] = [ftx[m] EXCEPT !.waiters = TRUE]]
           /\ queue' = [queue EXCEPT ![m] = @ \cup S] /\ pc' = q
        \/ S = {} /\ pc' = q /\ UNCHANGED <<ftx, queue>>
    BY <1>2, <1>3 DEF Requeue
  <2> QED BY <2>1, Zenon
<1> QED BY <1>8, <1>9, <1>10

(* A death: the kernel finds all that the thread owns, on its list or pending. *)
LEMMA DieOwned ==
  ASSUME QInv, Owned, NEW t \in Threads, ListOK(t), Die(t)
  PROVE  Owned'
PROOF
<1> USE RobustAssumption DEF memory, list, kernel, local, ghost
<1>1. TypeOK /\ Placed /\ Apart(t) /\ \A x \in Mutexes, u \in Threads : Owns(x, u)
  BY OwnedParts DEF QInv
<1>2. /\ held'[t] = {} /\ arg'[t] = None /\ pending' = pending
      /\ \A u \in Threads \ {t} : held'[u] = held[u] /\ arg'[u] = arg[u]
  BY <1>1, DieStep
<1>3. PICK heir : Dies(t, heir)
  BY <1>1, DieStep
<1>4. /\ DOMAIN heir = {m \in Mutexes : ftx[m].tid = t /\ queue[m] # {}} /\ pc'[t] = "dead"
      /\ \A u \in Threads \ {t} :
           \/ pc'[u] = "node" /\ \E m \in DOMAIN heir : heir[m] = u
           \/ pc'[u] = pc[u] /\ \A m \in DOMAIN heir : heir[m] # u
  BY <1>3 DEF Dies
<1>5. ASSUME NEW m \in DOMAIN heir
      PROVE  /\ m \in Mutexes /\ ftx[m].tid = t /\ heir[m] \in Threads \ {t} /\ ftx'[m].tid = heir[m]
             /\ pc[heir[m]] = "blocked" /\ arg[heir[m]] = m
  <2>1. m \in Mutexes /\ ftx[m].tid = t /\ heir[m] \in queue[m] /\ ftx'[m].tid = heir[m]
    <3>1. ftx'[m] = [tid |-> heir[m], waiters |-> TRUE, died |-> TRUE] /\ heir[m] \in queue[m]
      BY <1>3, Zenon DEF Dies
    <3> QED BY <1>4, <3>1
  <2>2. heir[m] \in Threads /\ pc[heir[m]] = "blocked" /\ arg[heir[m]] = m
    BY <1>1, <2>1 DEF Placed, TypeOK
  <2>3. heir[m] # t
    BY <1>1, <2>1, <2>2 DEF Owns, Claim, Apart, Adding, Removing
  <2> QED BY <2>1, <2>2, <2>3
<1>6. ASSUME NEW m \in Mutexes, m \notin DOMAIN heir
      PROVE  ftx'[m].tid = IF ftx[m].tid = t THEN None ELSE ftx[m].tid
  <2>1. ASSUME ftx[m].tid = t
        PROVE  m \in Listed(t) \cup {pending[t]} /\ prev[t] = Offset
    <3>1. Claim(t, m) /\ pc[t] # "dead"
      BY <1>1, <2>1 DEF Owns, Die
    <3>2. Links(t)
      BY <3>1 DEF ListOK
    <3> QED BY <1>1, <3>1, <3>2 DEF Claim, Links, OnList, Apart, Adding, Removing
  <2>2. ASSUME ftx[m].tid = t
        PROVE  ftx'[m] = [tid |-> None, waiters |-> ftx[m].waiters, died |-> TRUE]
    BY <1>3, <1>6, <2>1, <2>2 DEF Dies
  <2>3. ASSUME ftx[m].tid # t PROVE ftx'[m] = ftx[m]
    BY <1>3, <1>6, <2>3 DEF Dies
  <2> QED BY <2>2, <2>3
<1>7. ASSUME NEW u \in Threads \ {t}
      PROVE  /\ Apart(u)'
             /\ \A x \in Mutexes : Claim(u, x)' <=> Claim(u, x) \/ (x \in DOMAIN heir /\ heir[x] = u)
  <2>1. Apart(u)
    BY OwnedParts
  <2>2. CASE pc'[u] = "node" /\ \E m \in DOMAIN heir : heir[m] = u
    <3>1. PICK m \in DOMAIN heir : heir[m] = u
      BY <2>2
    <3>2. pc[u] = "blocked" /\ arg[u] = m
      BY <1>5, <3>1
    <3>3. \A x \in DOMAIN heir : heir[x] = u => x = m
      BY <1>5, <3>2
    <3>4. Apart(u)'
      BY <1>2, <2>1, <2>2, <3>2 DEF Apart, Adding, Removing
    <3>5. \A x \in Mutexes : /\ Claim(u, x) <=> x \in held[u]
                             /\ Claim(u, x)' <=> x \in held[u] \/ x = m
      BY <1>2, <2>2, <3>2 DEF Claim, Adding, Removing
    <3> QED BY <3>1, <3>3, <3>4, <3>5
  <2>3. CASE pc'[u] = pc[u] /\ \A m \in DOMAIN heir : heir[m] # u
    <3>1. Apart(u)' /\ \A x : Claim(u, x)' <=> Claim(u, x)
      BY <1>2, <2>1, <2>3, StillApart
    <3> QED BY <2>3, <3>1
  <2> QED BY <1>4, <2>2, <2>3
<1>8. Apart(t)' /\ \A x \in Mutexes : ~Claim(t, x)'
  BY <1>2, <1>4 DEF Apart, Claim, Adding, Removing
<1>9. ASSUME NEW x \in Mutexes, NEW u \in Threads PROVE Owns(x, u)'
  <2>1. \A v \in Threads : ftx[x].tid = v <=> Claim(v, x)
    BY <1>1 DEF Owns
  <2>2. CASE x \in DOMAIN heir
    BY <1>5, <1>7, <1>8, <2>1, <2>2 DEF Owns
  <2>3. CASE x \notin DOMAIN heir
    BY <1>6, <1>7, <1>8, <2>1, <2>3 DEF Owns
  <2> QED BY <2>2, <2>3
<1> QED BY <1>7, <1>8, <1>9, OwnedParts

-----------------------------------------------------------------------------
(* The list of a live thread. *)

\* The nodes that a thread may store to.
Mine(t) == Ring(t) \cup (IF pc[t] \in Adding \cup Removing THEN {arg[t]} ELSE {})

Busy == {"publish", "back", "unlink", "unlink_back"}

\* Nothing happens to the list of u.
Still(u) ==
  /\ pc[u] = "dead" => pc'[u] = "dead"
  /\ pc'[u] # "dead" => held'[u] = held[u]
  /\ \/ pc[u] \notin Busy /\ pc'[u] \notin Busy
     \/ pc'[u] = pc[u] /\ arg'[u] = arg[u] /\ first'[u] = first[u] /\ before'[u] = before[u]

(* The nodes of a thread are its own. *)
LEMMA MineApart ==
  ASSUME QInv, Owned, NEW t \in Threads
  PROVE  /\ Mine(t) \subseteq Nodes /\ OnList(t) \subseteq Mutexes /\ t \notin OnList(t)
         /\ \A u \in Threads : u # t => Mine(u) \cap Mine(t) = {}
PROOF
<1> USE RobustAssumption
<1>1. ASSUME NEW u \in Threads
      PROVE  /\ OnList(u) \subseteq Mutexes /\ Mine(u) \subseteq Nodes
             /\ \A x \in Mine(u) : x = u \/ (x \in Mutexes /\ ftx[x].tid = u)
  <2>1. held[u] \subseteq Mutexes /\ (pc[u] \in Adding \cup Removing => arg[u] \in Mutexes)
    BY DEF QInv, TypeOK, Placed, Adding, Removing
  <2>2. \A x \in Mutexes : Claim(u, x) => ftx[x].tid = u
    BY DEF Owned
  <2>3. OnList(u) \subseteq Mutexes
    BY <2>1 DEF OnList, Adding, Removing
  <2>4. \A x \in Mine(u) : x = u \/ (x \in Mutexes /\ Claim(u, x))
    BY <2>1 DEF Mine, Ring, OnList, Claim, Adding, Removing
  <2> QED BY <2>2, <2>3, <2>4 DEF Nodes
<1>2. t \notin OnList(t)
  BY <1>1
<1>3. ASSUME NEW u \in Threads, u # t PROVE Mine(u) \cap Mine(t) = {}
  BY <1>1, <1>3
<1> QED BY <1>1, <1>2, <1>3

(* A list changes only by the stores of its thread. *)
LEMMA StillList ==
  ASSUME NEW u \in Threads, ListOK(u), Still(u),
         \A n \in Mine(u) : next'[n] = next[n] /\ prev'[n] = prev[n]
  PROVE  ListOK(u)'
PROOF
<1> SUFFICES ASSUME pc'[u] # "dead" PROVE Links(u)' /\ Locals(u)'
  BY DEF ListOK
<1>1. Links(u) /\ Locals(u) /\ held'[u] = held[u]
  BY DEF ListOK, Still
<1>2. \A n \in Ring(u) : next'[n] = next[n] /\ prev'[n] = prev[n]
  BY DEF Mine
<1>3. OnList(u)' = OnList(u) /\ Ring(u)' = Ring(u)
  BY <1>1 DEF OnList, Ring, Still, Busy
<1>4. u \in Ring(u) /\ \A n : PrevOfNext(u, n)' = PrevOfNext(u, n)
  BY DEF PrevOfNext, Ring, Still, Busy
<1>5. Listed(u)' = Listed(u)
  <2>1. Listed(u) = Walk(next, u) /\ Listed(u)' = Walk(next', u)
    BY ListedIsWalk
  <2>2. \A n \in Walk(next, u) \cup {u} : next'[n] = next[n]
    BY <1>1, <1>2, <2>1 DEF Links, Ring
  <2>3. Walk(next', u) = Walk(next, u)
    BY <2>2, WalkSame
  <2> QED BY <2>1, <2>3
<1>6. Links(u)'
  <2>1. prev'[u] = Offset /\ Listed(u)' = OnList(u)'
    BY <1>1, <1>2, <1>3, <1>4, <1>5 DEF Links
  <2>2. ASSUME NEW n \in Ring(u)
        PROVE  next'[n] \in Ring(u) /\ (next'[n] # u => prev'[next'[n]] = PrevOfNext(u, n))
    BY <1>1, <1>2 DEF Links
  <2> QED BY <1>3, <1>4, <2>1, <2>2 DEF Links
<1>7. Locals(u)'
  <2>1. CASE pc[u] \notin Busy /\ pc'[u] \notin Busy
    BY <2>1 DEF Locals, Busy
  <2>2. CASE pc'[u] = pc[u] /\ arg'[u] = arg[u] /\ first'[u] = first[u] /\ before'[u] = before[u]
    <3>1. pc[u] \in {"publish", "back"} => arg[u] \in Mine(u)
      BY DEF Mine, Adding
    <3> QED BY <1>1, <1>2, <1>3, <1>4, <2>2, <3>1 DEF Locals
  <2> QED BY <2>1, <2>2 DEF Still
<1> QED BY <1>6, <1>7

(* So the lists of the others stay. *)
LEMMA OtherLists ==
  ASSUME QInv, Owned, NEW t \in Threads,
         \A n \in Nodes \ Mine(t) : next'[n] = next[n] /\ prev'[n] = prev[n],
         \A u \in Threads : u # t => Still(u) /\ ListOK(u)
  PROVE  \A u \in Threads : u # t => ListOK(u)'
PROOF
<1> SUFFICES ASSUME NEW u \in Threads, u # t PROVE ListOK(u)'
  OBVIOUS
<1>1. \A n \in Mine(u) : n \in Nodes \ Mine(t)
  BY MineApart
<1> QED BY <1>1, StillList

\* One thread moves.
Alone(t, l) ==
  /\ pc' = [pc EXCEPT ![t] = l]
  /\ \A u \in Threads : u # t => /\ held'[u] = held[u] /\ arg'[u] = arg[u]
                                 /\ first'[u] = first[u] /\ before'[u] = before[u]

(* Then the others are still. *)
LEMMA AloneStill ==
  ASSUME TypeOK, NEW t \in Threads, NEW l, Alone(t, l)
  PROVE  pc'[t] = l /\ \A u \in Threads : u # t => Still(u)
  BY DEF TypeOK, Alone, Still

(* a0_robust_op_add: the node is prepared. *)
LEMMA AddNodeList ==
  ASSUME RInv, NEW t \in Threads, AddNode(t)
  PROVE  \A u \in Threads : ListOK(u)'
PROOF
<1> USE RobustAssumption DEF memory, list, kernel, local, ghost, Go, GoTo
<1>1. QInv /\ TypeOK /\ Placed /\ Owned /\ \A u \in Threads : ListOK(u)
  BY DEF RInv, QInv
<1>2. PICK m \in Mutexes : m = arg[t] /\ pc[t] = "node"
  BY <1>1 DEF AddNode, Placed
<1>3. /\ Alone(t, "publish") /\ held' = held /\ arg' = arg /\ first'[t] = next[t]
      /\ prev' = [prev EXCEPT ![m] = t] /\ next' = [next EXCEPT ![m] = next[t]]
  BY <1>1, <1>2 DEF AddNode, Alone, TypeOK
<1>4. pc'[t] = "publish" /\ \A u \in Threads : u # t => Still(u)
  BY <1>1, <1>3, AloneStill
<1>5. /\ next'[m] = next[t] /\ prev'[m] = t
      /\ \A n \in Nodes : n # m => next'[n] = next[n] /\ prev'[n] = prev[n]
  BY <1>1, <1>3 DEF TypeOK, Nodes
<1>6. m \in Mine(t)
  BY <1>2 DEF Mine, Adding
<1>7. \A u \in Threads : u # t => ListOK(u)'
  BY <1>1, <1>4, <1>5, <1>6, OtherLists
<1>8. /\ Links(t) /\ OnList(t) = held[t] /\ OnList(t)' = held[t] /\ Ring(t)' = Ring(t)
      /\ m \notin Ring(t) /\ Ring(t) \subseteq Nodes /\ Listed(t) \subseteq Ring(t) /\ t \in Ring(t)
  <2>1. m \notin held[t] /\ m # t
    BY <1>1, <1>2 DEF Owned, Adding
  <2>2. Links(t)
    BY <1>1, <1>2 DEF ListOK
  <2>3. Mine(t) \subseteq Nodes
    BY <1>1, MineApart
  <2> QED BY <1>2, <1>3, <1>4, <2>1, <2>2, <2>3 DEF OnList, Ring, Mine, Links
<1>9. \A n \in Ring(t) : next'[n] = next[n] /\ prev'[n] = prev[n]
  BY <1>5, <1>8
<1>10. Listed(t)' = Listed(t)
  <2>1. Listed(t) = Walk(next, t) /\ Listed(t)' = Walk(next', t)
    BY ListedIsWalk
  <2>2. \A n \in Walk(next, t) \cup {t} : next'[n] = next[n]
    BY <1>8, <1>9, <2>1
  <2> QED BY <2>1, <2>2, WalkSame
<1>11. \A n : PrevOfNext(t, n) = n /\ PrevOfNext(t, n)' = n
  BY <1>2, <1>4 DEF PrevOfNext
<1>12. Links(t)'
  <2>1. prev'[t] = Offset /\ Listed(t)' = OnList(t)'
    BY <1>8, <1>9, <1>10 DEF Links
  <2>2. \A n \in Ring(t) : next'[n] \in Ring(t) /\ (next'[n] # t => prev'[next'[n]] = n)
    BY <1>8, <1>9, <1>11 DEF Links
  <2> QED BY <1>8, <1>11, <2>1, <2>2 DEF Links
<1>13. Locals(t)'
  BY <1>2, <1>3, <1>4, <1>5, <1>8, <1>9 DEF Locals
<1>14. ListOK(t)'
  BY <1>12, <1>13 DEF ListOK
<1> QED BY <1>7, <1>14

(* What the list of a thread is before one of its stores. *)
LEMMA OwnList ==
  ASSUME RInv, NEW t \in Threads, pc[t] \in Busy
  PROVE  /\ arg[t] \in Mutexes /\ arg[t] # t /\ arg[t] \notin held[t] /\ arg[t] \in Mine(t)
         /\ Links(t) /\ Locals(t) /\ t \in Ring(t) /\ Listed(t) = Walk(next, t)
         /\ Ring(t) \subseteq Mine(t) /\ Mine(t) \subseteq Nodes /\ t \notin OnList(t)
         /\ held[t] \subseteq Mutexes /\ OnList(t) \subseteq Mutexes
PROOF
<1> USE RobustAssumption
<1>1. QInv /\ TypeOK /\ Placed /\ Owned /\ ListOK(t)
  BY DEF RInv, QInv
<1>2. /\ pc[t] \in Adding \cup Removing /\ pc[t] # "dead"
      /\ pc[t] \notin {"idle", "dead"}
  BY DEF Busy, Adding, Removing
<1>3. arg[t] \in Mutexes
  BY <1>1, <1>2 DEF Placed
<1>4. arg[t] \notin held[t] /\ arg[t] # t /\ held[t] \subseteq Mutexes
  BY <1>1, <1>2, <1>3 DEF Owned, TypeOK
<1>5. Links(t) /\ Locals(t)
  BY <1>1, <1>2 DEF ListOK
<1>6. Mine(t) \subseteq Nodes /\ t \notin OnList(t) /\ OnList(t) \subseteq Mutexes
  BY <1>1, MineApart
<1>7. arg[t] \in Mine(t) /\ Ring(t) \subseteq Mine(t) /\ t \in Ring(t)
  BY <1>2 DEF Mine, Ring
<1> QED BY <1>3, <1>4, <1>5, <1>6, <1>7, ListedIsWalk

(* The head points to the node. *)
LEMMA AddPublishList ==
  ASSUME RInv, NEW t \in Threads, AddPublish(t)
  PROVE  \A u \in Threads : ListOK(u)'
PROOF
<1> USE RobustAssumption DEF memory, list, kernel, local, ghost, Go, GoTo
<1>1. QInv /\ TypeOK /\ Owned /\ \A u \in Threads : ListOK(u)
  BY DEF RInv, QInv
<1>2. pc[t] = "publish" /\ pc[t] \in Busy
  BY DEF AddPublish, Busy
<1>3. PICK m \in Mutexes : m = arg[t]
  BY <1>2, OwnList
<1>4. /\ m # t /\ m \notin held[t] /\ Links(t) /\ Locals(t) /\ t \in Ring(t)
      /\ Ring(t) \subseteq Nodes /\ Listed(t) = Walk(next, t) /\ t \in Mine(t) /\ m \in Nodes
      /\ held[t] \subseteq Mutexes /\ t \notin held[t]
  <2>1. OnList(t) = held[t]
    BY <1>2 DEF OnList
  <2> QED BY <1>2, <1>3, <2>1, OwnList DEF Nodes
<1>5. /\ Alone(t, "back") /\ held' = held /\ arg' = arg /\ first' = first /\ prev' = prev
      /\ next' = [next EXCEPT ![t] = m]
  BY <1>1, <1>3 DEF AddPublish, Alone
<1>6. pc'[t] = "back" /\ \A u \in Threads : u # t => Still(u)
  BY <1>1, <1>5, AloneStill
<1>7. next'[t] = m /\ \A n \in Nodes : n # t => next'[n] = next[n]
  BY <1>1, <1>5 DEF TypeOK, Nodes
<1>8. \A u \in Threads : u # t => ListOK(u)'
  BY <1>1, <1>4, <1>5, <1>6, <1>7, OtherLists
<1>9. /\ OnList(t) = held[t] /\ Ring(t) = held[t] \cup {t}
      /\ OnList(t)' = held[t] \cup {m} /\ Ring(t)' = held[t] \cup {m, t}
  BY <1>2, <1>3, <1>5, <1>6 DEF OnList, Ring
<1>10. prev[m] = t /\ next[m] = next[t] /\ first[t] = next[t] /\ next'[m] = next[t]
  BY <1>2, <1>3, <1>4, <1>7 DEF Locals
<1>11. /\ \A n : PrevOfNext(t, n) = n
       /\ \A n : n # m => PrevOfNext(t, n)' = n
       /\ PrevOfNext(t, m)' = t
  BY <1>2, <1>3, <1>5, <1>6 DEF PrevOfNext
<1>12. Listed(t)' = OnList(t)'
  <2>1. Walk(next, t) = held[t] /\ Listed(t)' = Walk(next', t)
    BY <1>4, <1>9, ListedIsWalk DEF Links
  <2>2. \A n \in Walk(next, t) : next'[n] = next[n]
    BY <1>4, <1>7, <2>1 DEF Nodes
  <2>3. Walk(next', t) = Walk(next, t) \cup {m}
    BY <1>4, <1>7, <1>10, <2>1, <2>2, WalkAdd
  <2> QED BY <1>9, <2>1, <2>3
<1>13. Links(t)'
  <2>1. prev'[t] = Offset
    BY <1>4, <1>5 DEF Links
  <2>2. ASSUME NEW n \in held[t] \cup {m, t}
        PROVE  /\ next'[n] \in held[t] \cup {m, t}
               /\ next'[n] # t => prev'[next'[n]] = PrevOfNext(t, n)'
    <3>1. CASE n = t
      BY <1>4, <1>5, <1>7, <1>10, <1>11, <3>1
    <3>2. CASE n = m
      BY <1>4, <1>5, <1>9, <1>10, <1>11, <3>2 DEF Links
    <3>3. CASE n \in held[t]
      <4>1. next'[n] = next[n] /\ n # m /\ n \in Ring(t)
        BY <1>4, <1>7, <1>9, <3>3
      <4> QED BY <1>4, <1>5, <1>9, <1>11, <4>1 DEF Links
    <3> QED BY <3>1, <3>2, <3>3
  <2> QED BY <1>9, <1>12, <2>1, <2>2 DEF Links
<1>14. Locals(t)'
  <2>1. next[t] # m
    BY <1>4, <1>9 DEF Links
  <2> QED BY <1>3, <1>5, <1>6, <1>7, <1>10, <2>1 DEF Locals
<1>15. ListOK(t)'
  BY <1>13, <1>14 DEF ListOK
<1> QED BY <1>8, <1>15

(* The old first node points back to it. *)
LEMMA AddBackList ==
  ASSUME RInv, NEW t \in Threads, AddBack(t)
  PROVE  \A u \in Threads : ListOK(u)'
PROOF
<1> USE RobustAssumption DEF memory, list, kernel, local, ghost, Go, GoTo
<1>1. QInv /\ TypeOK /\ Owned /\ \A u \in Threads : ListOK(u)
  BY DEF RInv, QInv
<1>2. pc[t] = "back" /\ pc[t] \in Busy
  BY DEF AddBack, Busy
<1>3. PICK m \in Mutexes : m = arg[t]
  BY <1>2, OwnList
<1>4. /\ m # t /\ m \notin held[t] /\ Links(t) /\ Locals(t) /\ t \in Ring(t)
      /\ Ring(t) \subseteq Nodes /\ Ring(t) \subseteq Mine(t) /\ Listed(t) = Walk(next, t)
  BY <1>2, <1>3, OwnList
<1>5. PICK f : f = first[t]
  OBVIOUS
<1>6. /\ Alone(t, "end") /\ held'[t] = held[t] \cup {m} /\ next' = next
      /\ prev' = IF f = t THEN prev ELSE [prev EXCEPT ![f] = m]
  BY <1>1, <1>3, <1>5 DEF AddBack, Alone, TypeOK
<1>7. pc'[t] = "end" /\ \A u \in Threads : u # t => Still(u)
  BY <1>1, <1>6, AloneStill
<1>8. /\ OnList(t) = held[t] \cup {m} /\ OnList(t)' = OnList(t)
      /\ Ring(t) = held[t] \cup {m, t} /\ Ring(t)' = Ring(t)
  BY <1>2, <1>3, <1>6, <1>7 DEF OnList, Ring
<1>9. f = next[m] /\ f # m /\ next[t] = m /\ f \in Ring(t)
  BY <1>2, <1>3, <1>4, <1>5, <1>8 DEF Locals, Links
<1>10. /\ f # t => prev'[f] = m
       /\ \A n \in Nodes : n # f \/ f = t => prev'[n] = prev[n]
  BY <1>1, <1>4, <1>6, <1>9 DEF TypeOK, Nodes
<1>11. \A u \in Threads : u # t => ListOK(u)'
  <2>1. \A n \in Nodes \ Mine(t) : next'[n] = next[n] /\ prev'[n] = prev[n]
    BY <1>4, <1>6, <1>9, <1>10
  <2> QED BY <1>1, <1>7, <2>1, OtherLists
<1>12. /\ \A n : n # m => PrevOfNext(t, n) = n
       /\ PrevOfNext(t, m) = t /\ \A n : PrevOfNext(t, n)' = n
  BY <1>2, <1>3, <1>7 DEF PrevOfNext
<1>13. Listed(t)' = OnList(t)'
  BY <1>4, <1>6, <1>8, ListedIsWalk DEF Links
<1>14. ASSUME NEW n \in Ring(t), next[n] # t PROVE prev'[next[n]] = n
  <2>1. next[n] \in Ring(t) /\ prev[next[n]] = PrevOfNext(t, n)
    BY <1>4, <1>14 DEF Links
  <2>2. CASE n = m
    BY <1>9, <1>10, <1>14, <2>2
  <2>3. CASE n # m
    <3>1. ASSUME next[n] = f, f # t PROVE FALSE
      <4>1. prev[f] = n
        BY <1>12, <2>1, <2>3, <3>1
      <4>2. prev[f] = t
        BY <1>4, <1>8, <1>9, <1>12, <3>1 DEF Links
      <4> QED BY <1>9, <3>1, <4>1, <4>2
    <3>2. prev'[next[n]] = prev[next[n]]
      BY <1>4, <1>10, <2>1, <3>1
    <3> QED BY <1>12, <2>1, <2>3, <3>2
  <2> QED BY <2>2, <2>3
<1>15. Links(t)'
  <2>1. prev'[t] = Offset
    BY <1>4, <1>10 DEF Links
  <2>2. \A n \in Ring(t) : next'[n] \in Ring(t) /\ (next'[n] # t => prev'[next'[n]] = n)
    BY <1>4, <1>6, <1>14 DEF Links
  <2> QED BY <1>8, <1>12, <1>13, <2>1, <2>2 DEF Links
<1>16. ListOK(t)'
  BY <1>7, <1>15 DEF ListOK, Locals
<1> QED BY <1>11, <1>16

(* The predecessor is the one that prev names, and no other node points to m. *)
LEMMA OnlyPred ==
  ASSUME RInv, NEW t \in Threads, pc[t] \notin {"dead", "back", "unlink_back"}, NEW m \in OnList(t)
  PROVE  /\ prev[m] \in Ring(t) /\ prev[m] # m /\ next[prev[m]] = m
         /\ \A n \in Ring(t) : next[n] = m => n = prev[m]
PROOF
<1>1. QInv /\ Owned /\ Links(t)
  BY DEF RInv, ListOK
<1>2. t \notin OnList(t) /\ Listed(t) = Walk(next, t)
  BY <1>1, MineApart, ListedIsWalk
<1>3. PICK b \in (OnList(t) \ {m}) \cup {t} : next[b] = m
  BY <1>1, <1>2, WalkPred DEF Links
<1>4. \A n \in Ring(t) : next[n] = m => prev[m] = n
  BY <1>1, <1>2 DEF Links, PrevOfNext
<1> QED BY <1>2, <1>3, <1>4 DEF Ring

(* a0_robust_op_del: the predecessor points past the node. *)
LEMMA DelNextList ==
  ASSUME RInv, NEW t \in Threads, DelNext(t)
  PROVE  \A u \in Threads : ListOK(u)'
PROOF
<1> USE RobustAssumption DEF memory, list, kernel, local, ghost, Go, GoTo
<1>1. QInv /\ TypeOK /\ Owned /\ \A u \in Threads : ListOK(u)
  BY DEF RInv, QInv
<1>2. pc[t] = "unlink" /\ pc[t] \in Busy
  BY DEF DelNext, Busy
<1>3. PICK m \in Mutexes : m = arg[t]
  BY <1>2, OwnList
<1>4. /\ m # t /\ m \notin held[t] /\ Links(t) /\ t \in Ring(t) /\ t \notin held[t]
      /\ Ring(t) \subseteq Nodes /\ Ring(t) \subseteq Mine(t) /\ Listed(t) = Walk(next, t)
      /\ OnList(t) = held[t] \cup {m} /\ Ring(t) = held[t] \cup {m, t}
  <2>1. OnList(t) = held[t] \cup {m} /\ Ring(t) = held[t] \cup {m, t}
    BY <1>2, <1>3 DEF OnList, Ring
  <2> QED BY <1>2, <1>3, <2>1, OwnList
<1>5. PICK b : b = prev[m]
  OBVIOUS
<1>6. PICK f : f = next[m]
  OBVIOUS
<1>7. b \in Ring(t) /\ b # m /\ next[b] = m /\ \A n \in Ring(t) : next[n] = m => n = b
  BY <1>2, <1>4, <1>5, OnlyPred
<1>8. f \in Ring(t) /\ f # m /\ (f # t => prev[f] = m)
  BY <1>2, <1>4, <1>6, <1>7 DEF Links, PrevOfNext
<1>9. /\ Alone(t, "unlink_back") /\ held' = held /\ arg' = arg /\ prev' = prev
      /\ before'[t] = b /\ first'[t] = f /\ next' = [next EXCEPT ![b] = f]
  BY <1>1, <1>3, <1>5, <1>6 DEF DelNext, Alone, TypeOK
<1>10. pc'[t] = "unlink_back" /\ \A u \in Threads : u # t => Still(u)
  BY <1>1, <1>9, AloneStill
<1>11. next'[b] = f /\ \A n \in Nodes : n # b => next'[n] = next[n]
  BY <1>1, <1>4, <1>7, <1>9 DEF TypeOK, Nodes
<1>12. \A u \in Threads : u # t => ListOK(u)'
  <2>1. \A n \in Nodes \ Mine(t) : next'[n] = next[n] /\ prev'[n] = prev[n]
    BY <1>4, <1>7, <1>9, <1>11
  <2> QED BY <1>1, <1>10, <2>1, OtherLists
<1>13. OnList(t)' = held[t] /\ Ring(t)' = held[t] \cup {t}
  BY <1>9, <1>10 DEF OnList, Ring
<1>14. /\ \A n : PrevOfNext(t, n) = n
       /\ \A n : n # b => PrevOfNext(t, n)' = n
       /\ PrevOfNext(t, b)' = m
  BY <1>2, <1>3, <1>9, <1>10 DEF PrevOfNext
<1>15. Listed(t)' = OnList(t)'
  <2>1. Walk(next, t) = held[t] \cup {m} /\ Listed(t)' = Walk(next', t)
    BY <1>4, ListedIsWalk DEF Links
  <2>2. /\ m \in Walk(next, t) /\ b \in Walk(next, t) \cup {t} /\ t \notin Mutexes
        /\ \A n \in Walk(next, t) \cup {t} : next[n] = m => n = b
        /\ \A n \in (Walk(next, t) \cup {t}) \ {b} : next'[n] = next[n]
    BY <1>4, <1>7, <1>11, <2>1
  <2>3. next[b] = m /\ next[m] # m /\ next'[b] = next[m]
    BY <1>6, <1>7, <1>8, <1>11
  <2>4. Walk(next', t) = Walk(next, t) \ {m}
    BY <1>7, <2>2, <2>3, WalkDel
  <2> QED BY <1>4, <1>13, <2>1, <2>4
<1>16. Links(t)'
  <2>1. prev'[t] = Offset
    BY <1>4, <1>9 DEF Links
  <2>2. ASSUME NEW n \in held[t] \cup {t}
        PROVE  /\ next'[n] \in held[t] \cup {t}
               /\ next'[n] # t => prev'[next'[n]] = PrevOfNext(t, n)'
    <3>1. CASE n = b
      BY <1>4, <1>8, <1>9, <1>11, <1>14, <3>1
    <3>2. CASE n # b
      <4>1. next'[n] = next[n] /\ n \in Ring(t) /\ next[n] # m
        BY <1>4, <1>7, <1>11, <3>2
      <4> QED BY <1>4, <1>9, <1>14, <3>2, <4>1 DEF Links
    <3> QED BY <3>1, <3>2
  <2> QED BY <1>13, <1>15, <2>1, <2>2 DEF Links
<1>17. Locals(t)'
  <2>1. b \in Ring(t)'
    BY <1>4, <1>7, <1>13
  <2> QED BY <1>9, <1>10, <1>11, <2>1 DEF Locals
<1>18. ListOK(t)'
  BY <1>16, <1>17 DEF ListOK
<1> QED BY <1>12, <1>18

(* The successor points back past it. *)
LEMMA DelPrevList ==
  ASSUME RInv, NEW t \in Threads, DelPrev(t)
  PROVE  \A u \in Threads : ListOK(u)'
PROOF
<1> USE RobustAssumption DEF memory, list, kernel, local, ghost, Go, GoTo
<1>1. QInv /\ TypeOK /\ Owned /\ \A u \in Threads : ListOK(u)
  BY DEF RInv, QInv
<1>2. pc[t] = "unlink_back" /\ pc[t] \in Busy
  BY DEF DelPrev, Busy
<1>3. PICK m \in Mutexes : m = arg[t]
  BY <1>2, OwnList
<1>4. /\ m # t /\ m \notin held[t] /\ Links(t) /\ Locals(t) /\ t \in Ring(t)
      /\ Ring(t) \subseteq Nodes /\ Ring(t) \subseteq Mine(t) /\ Listed(t) = Walk(next, t)
      /\ OnList(t) = held[t] /\ Ring(t) = held[t] \cup {t}
  <2>1. OnList(t) = held[t] /\ Ring(t) = held[t] \cup {t}
    BY <1>2 DEF OnList, Ring
  <2> QED BY <1>2, <1>3, <2>1, OwnList
<1>5. PICK f : f = first[t]
  OBVIOUS
<1>6. PICK b : b = before[t]
  OBVIOUS
<1>7. b \in Ring(t) /\ f = next[b] /\ f \in Ring(t)
  BY <1>2, <1>4, <1>5, <1>6 DEF Locals, Links
<1>8. /\ Alone(t, "clear") /\ held' = held /\ next' = next
      /\ prev' = IF f = t THEN prev ELSE [prev EXCEPT ![f] = b]
  BY <1>1, <1>5, <1>6 DEF DelPrev, Alone
<1>9. pc'[t] = "clear" /\ \A u \in Threads : u # t => Still(u)
  BY <1>1, <1>8, AloneStill
<1>10. /\ f # t => prev'[f] = b
       /\ \A n \in Nodes : n # f \/ f = t => prev'[n] = prev[n]
  BY <1>1, <1>4, <1>7, <1>8 DEF TypeOK, Nodes
<1>11. \A u \in Threads : u # t => ListOK(u)'
  <2>1. \A n \in Nodes \ Mine(t) : next'[n] = next[n] /\ prev'[n] = prev[n]
    BY <1>4, <1>7, <1>8, <1>10
  <2> QED BY <1>1, <1>9, <2>1, OtherLists
<1>12. OnList(t)' = held[t] /\ Ring(t)' = held[t] \cup {t}
  BY <1>8, <1>9 DEF OnList, Ring
<1>13. /\ \A n : n # b => PrevOfNext(t, n) = n
       /\ PrevOfNext(t, b) = m /\ \A n : PrevOfNext(t, n)' = n
  BY <1>2, <1>3, <1>6, <1>9 DEF PrevOfNext
<1>14. Listed(t)' = OnList(t)'
  BY <1>4, <1>8, <1>12, ListedIsWalk DEF Links
<1>15. ASSUME NEW n \in Ring(t), next[n] # t PROVE prev'[next[n]] = n
  <2>1. next[n] \in Ring(t) /\ prev[next[n]] = PrevOfNext(t, n)
    BY <1>4, <1>15 DEF Links
  <2>2. CASE n = b
    BY <1>7, <1>10, <1>15, <2>2
  <2>3. CASE n # b
    <3>1. ASSUME next[n] = f, f # t PROVE FALSE
      <4>1. prev[f] = n
        BY <1>13, <2>1, <2>3, <3>1
      <4>2. prev[f] = m
        BY <1>4, <1>7, <1>13, <3>1 DEF Links
      <4> QED BY <1>4, <4>1, <4>2
    <3>2. prev'[next[n]] = prev[next[n]]
      BY <1>4, <1>10, <2>1, <3>1
    <3> QED BY <1>13, <2>1, <2>3, <3>2
  <2> QED BY <2>2, <2>3
<1>16. Links(t)'
  <2>1. prev'[t] = Offset
    BY <1>4, <1>10 DEF Links
  <2>2. \A n \in Ring(t) : next'[n] \in Ring(t) /\ (next'[n] # t => prev'[next'[n]] = n)
    BY <1>4, <1>8, <1>15 DEF Links
  <2> QED BY <1>4, <1>12, <1>13, <1>14, <2>1, <2>2 DEF Links
<1>17. ListOK(t)'
  BY <1>9, <1>16 DEF ListOK, Locals
<1> QED BY <1>11, <1>17

(* Entering an operation: an unlock finds the list as the thread left it. *)
LEMMA CallList ==
  ASSUME RInv, ~ForeignRelease, NEW t \in Threads, Calling(t)
  PROVE  \A u \in Threads : ListOK(u)'
PROOF
<1> USE RobustAssumption DEF memory, list, kernel, local, ghost, Enter, Go, GoTo
<1>1. QInv /\ TypeOK /\ Owned /\ \A u \in Threads : ListOK(u)
  BY DEF RInv, QInv
<1>2. PICK m \in Mutexes :
        \/ a0_mtx_timedlock(t, m) \/ a0_mtx_trylock(t, m) \/ a0_mtx_unlock(t, m)
        \/ a0_deadman_mtx_unlock(t, m) \/ a0_cnd_timedwait(t, m) \/ a0_cnd_broadcast(t, m)
  BY DEF Calling
<1>3. /\ pc[t] = "idle" /\ next' = next /\ prev' = prev /\ first' = first /\ before' = before
      /\ arg' = [arg EXCEPT ![t] = m]
      /\ \/ /\ held' = held
            /\ \E l \in {"cas", "try", "requeue"} : pc' = [pc EXCEPT ![t] = l]
         \/ /\ m \in held[t] /\ held' = [held EXCEPT ![t] = @ \ {m}]
            /\ pc' = [pc EXCEPT ![t] = "unlink"]
  <2>1. CASE a0_deadman_mtx_unlock(t, m)
    <3>1. m \in held[t] /\ held' = [held EXCEPT ![t] = @ \ {m}]
      BY <2>1 DEF a0_deadman_mtx_unlock
    <3> QED BY <2>1, <3>1 DEF a0_deadman_mtx_unlock
  <2>2. CASE a0_mtx_timedlock(t, m)
    BY <2>2 DEF a0_mtx_timedlock
  <2>3. CASE a0_mtx_trylock(t, m)
    BY <2>3 DEF a0_mtx_trylock
  <2>4. CASE a0_mtx_unlock(t, m)
    BY <2>4 DEF a0_mtx_unlock
  <2>5. CASE a0_cnd_timedwait(t, m)
    BY <2>5 DEF a0_cnd_timedwait
  <2>6. CASE a0_cnd_broadcast(t, m)
    BY <2>6 DEF a0_cnd_broadcast, a0_cnd_wake
  <2> QED BY <1>2, <2>1, <2>2, <2>3, <2>4, <2>5, <2>6
<1>4. \A u \in Threads : u # t => Still(u)
  BY <1>1, <1>3 DEF Still, TypeOK
<1>5. \A u \in Threads : u # t => ListOK(u)'
  BY <1>1, <1>3, <1>4, StillList
<1>6. CASE held' = held /\ \E l \in {"cas", "try", "requeue"} : pc' = [pc EXCEPT ![t] = l]
  <2>1. Still(t)
    BY <1>1, <1>3, <1>6 DEF Still, Busy, TypeOK
  <2> QED BY <1>1, <1>3, <1>5, <2>1, StillList
<1>7. CASE /\ m \in held[t] /\ held' = [held EXCEPT ![t] = @ \ {m}]
           /\ pc' = [pc EXCEPT ![t] = "unlink"]
  <2>1. pc'[t] = "unlink" /\ arg'[t] = m /\ held'[t] = held[t] \ {m}
    BY <1>1, <1>3, <1>7 DEF TypeOK
  <2>2. OnList(t)' = OnList(t) /\ Ring(t)' = Ring(t)
    <3>1. OnList(t) = held[t] /\ OnList(t)' = (held[t] \ {m}) \cup {m}
      BY <1>3, <2>1 DEF OnList
    <3> QED BY <1>7, <3>1 DEF Ring
  <2>3. \A n : PrevOfNext(t, n)' = PrevOfNext(t, n)
    BY <1>3, <2>1 DEF PrevOfNext
  <2>4. Listed(t)' = Listed(t) /\ Links(t)
    BY <1>1, <1>3, ListedIsWalk DEF ListOK
  <2>5. Links(t)'
    BY <1>3, <2>2, <2>3, <2>4 DEF Links
  <2>6. ListOK(t)'
    BY <2>1, <2>5 DEF ListOK, Locals
  <2> QED BY <1>5, <2>6
<1> QED BY <1>3, <1>6, <1>7

(* All other steps leave every list alone. *)
LEMMA RestList ==
  ASSUME RInv, NEW t \in Threads,
         \/ \E l \in PCs, w \in Word : Moves(t, l, w) /\ WordSteps(t, l, w)
         \/ a0_robust_op_end(t) \/ WaitStart(t)
         \/ LockTimeout(t) \/ WaitTimeout(t) \/ a0_ftx_wait_requeue_pi(t) \/ RequeueAgain(t)
         \/ a0_ftx_lock_pi(t) /\ ftx[arg[t]].tid \notin {None, t}
         \/ a0_ftx_unlock_pi(t) /\ queue[arg[t]] # {}
         \/ Requeue(t) \/ Die(t)
  PROVE  \A u \in Threads : ListOK(u)'
PROOF
<1> USE RobustAssumption DEF memory, list, kernel, local, ghost, Go, GoTo
<1>1. QInv /\ TypeOK /\ Placed /\ \A u \in Threads : ListOK(u)
  BY DEF RInv, QInv
<1>2. next' = next /\ prev' = prev
  BY DEF Moves, a0_robust_op_end, WaitStart, LockTimeout, WaitTimeout, a0_ftx_wait_requeue_pi,
         RequeueAgain, a0_ftx_lock_pi, a0_ftx_unlock_pi, Requeue, Die
<1> SUFFICES ASSUME NEW u \in Threads PROVE Still(u) \/ pc'[u] = "dead"
  BY <1>1, <1>2, StillList DEF ListOK
<1>3. CASE \E l \in PCs, w \in Word : Moves(t, l, w) /\ WordSteps(t, l, w)
  <2>1. PICK l \in PCs, w \in Word : Moves(t, l, w) /\ WordSteps(t, l, w)
    BY <1>3
  <2>2. pc[t] \notin Busy \cup {"dead"} /\ l \notin Busy \cup {"dead"}
    BY <2>1 DEF WordSteps, Busy
  <2>3. pc'[t] = l /\ (u # t => pc'[u] = pc[u]) /\ UNCHANGED <<held, arg, first, before>>
    BY <1>1, <2>1 DEF Moves, TypeOK
  <2> QED BY <2>2, <2>3 DEF Still
<1>4. CASE \/ a0_robust_op_end(t) \/ WaitStart(t)
           \/ LockTimeout(t) \/ WaitTimeout(t) \/ a0_ftx_wait_requeue_pi(t) \/ RequeueAgain(t)
           \/ a0_ftx_lock_pi(t) /\ ftx[arg[t]].tid \notin {None, t}
  <2>1. /\ pc[t] \in {"end", "rewait", "blocked", "asleep", "requeue_wait", "requeue", "lock_pi"}
        /\ \E l \in {"rewait", "idle", "requeue_wait", "end", "cas", "asleep", "blocked", "requeue"} :
             pc' = [pc EXCEPT ![t] = l]
        /\ arg' = arg \/ arg' = [arg EXCEPT ![t] = None]
        /\ UNCHANGED <<held, first, before>>
    <3>1. CASE RequeueAgain(t)
      <4>1. pc[t] = "requeue" /\ pc' = pc /\ UNCHANGED <<arg, held, first, before>>
        BY <3>1 DEF RequeueAgain
      <4>2. pc' = [pc EXCEPT ![t] = "requeue"]
        BY <1>1, <4>1 DEF TypeOK
      <4> QED BY <4>1, <4>2
    <3>2. CASE a0_ftx_lock_pi(t) /\ ftx[arg[t]].tid \notin {None, t}
      BY <3>2 DEF a0_ftx_lock_pi
    <3>3. CASE a0_robust_op_end(t)
      BY <3>3 DEF a0_robust_op_end
    <3>4. CASE WaitStart(t) \/ LockTimeout(t) \/ WaitTimeout(t) \/ a0_ftx_wait_requeue_pi(t)
      BY <3>4 DEF WaitStart, LockTimeout, WaitTimeout, a0_ftx_wait_requeue_pi
    <3> QED BY <1>4, <3>1, <3>2, <3>3, <3>4
  <2> QED BY <1>1, <2>1 DEF Still, Busy, TypeOK
<1>5. CASE a0_ftx_unlock_pi(t) /\ queue[arg[t]] # {}
  <2>1. PICK w \in queue[arg[t]] : pc' = [pc EXCEPT ![t] = "end", ![w] = "node"]
    BY <1>5 DEF a0_ftx_unlock_pi
  <2>2. /\ pc[t] = "unlock_pi" /\ arg[t] \in Mutexes /\ UNCHANGED <<held, arg, first, before>>
    BY <1>1, <1>5 DEF a0_ftx_unlock_pi, Placed
  <2>3. w \in Threads /\ pc[w] = "blocked"
    BY <1>1, <2>2 DEF Placed, TypeOK
  <2> QED BY <1>1, <2>1, <2>2, <2>3 DEF Still, Busy, TypeOK
<1>6. CASE Requeue(t)
  <2>1. PICK S \in SUBSET Threads : S = sleepers[arg[t]] /\ pc[t] = "requeue" /\ \A v \in S : pc[v] = "asleep"
    BY <1>1, <1>6 DEF Requeue, Placed, TypeOK
  <2>2. /\ pc'[t] = "idle" /\ \A v \in S : pc'[v] \in {"blocked", "node"}
        /\ \A v \in Threads : v \notin S /\ v # t => pc'[v] = pc[v]
    <3> DEFINE q == [v \in Threads |-> IF v = t THEN "idle" ELSE IF v \in S THEN "blocked" ELSE pc[v]]
    <3>1. pc' = q \/ \E w \in S : pc' = [q EXCEPT ![w] = "node"]
      BY <1>6, <2>1 DEF Requeue
    <3>2. /\ q[t] = "idle" /\ \A v \in S : v # t /\ q[v] = "blocked"
          /\ \A v \in Threads : v \notin S /\ v # t => q[v] = pc[v]
          /\ DOMAIN q = Threads
      BY <2>1
    <3> HIDE DEF q
    <3> QED BY <3>1, <3>2
  <2>3. UNCHANGED <<held, first, before>> /\ (u # t => arg'[u] = arg[u])
    BY <1>1, <1>6 DEF Requeue, TypeOK
  <2> QED BY <2>1, <2>2, <2>3 DEF Still, Busy
<1>7. CASE Die(t)
  <2>1. PICK heir : Dies(t, heir)
    BY <1>1, <1>7, DieStep
  <2>2. \A v \in Threads \ {t} : /\ held'[v] = held[v] /\ arg'[v] = arg[v]
                                 /\ first'[v] = first[v] /\ before'[v] = before[v]
    BY <1>1, <1>7, DieStep
  <2>3. CASE u = t
    BY <2>1, <2>3 DEF Dies
  <2>4. CASE u # t
    <3>1. \/ pc'[u] = "node" /\ \E m \in DOMAIN heir : heir[m] = u
          \/ pc'[u] = pc[u]
      BY <2>1, <2>4 DEF Dies
    <3>2. CASE pc'[u] = "node" /\ \E m \in DOMAIN heir : heir[m] = u
      <4>1. PICK m \in DOMAIN heir : heir[m] = u
        BY <3>2
      <4>2. m \in Mutexes /\ heir[m] \in queue[m]
        BY <2>1 DEF Dies
      <4>3. pc[u] = "blocked"
        BY <1>1, <4>1, <4>2 DEF Placed
      <4> QED BY <2>2, <2>4, <3>2, <4>3 DEF Still, Busy
    <3> QED BY <2>2, <2>4, <3>1, <3>2 DEF Still
  <2> QED BY <2>3, <2>4
<1> QED BY <1>3, <1>4, <1>5, <1>6, <1>7

-----------------------------------------------------------------------------
(* The invariant. *)

(* No thread has a mutex, and every list is empty. *)
LEMMA InitRInv == Init => RInv
PROOF
<1> SUFFICES ASSUME Init PROVE RInv
  OBVIOUS
<1> USE RobustAssumption
<1>1. QInv
  BY InitQInv
<1>2. /\ \A t \in Threads : /\ next[t] = t /\ prev[t] = Offset /\ pc[t] = "idle"
                            /\ held[t] = {} /\ arg[t] = None
      /\ \A m \in Mutexes : ftx[m] = Free
  BY DEF Init, Nodes
<1>3. Owned
  BY <1>2, Words DEF Owned, Claim, Adding, Removing
<1>4. ASSUME NEW t \in Threads PROVE ListOK(t)
  <2>1. OnList(t) = {} /\ Ring(t) = {t}
    BY <1>2 DEF OnList, Ring
  <2>2. Closed(t, {})
    BY <1>2 DEF Closed
  <2>3. Listed(t) = {}
    BY <2>2 DEF Listed
  <2>4. Links(t)
    BY <1>2, <2>1, <2>3 DEF Links
  <2> QED BY <1>2, <2>4 DEF ListOK, Locals
<1> QED BY <1>1, <1>3, <1>4 DEF RInv

(* Every step keeps it, when mutexes are released by their owners only. *)
LEMMA NextRInv ==
  ASSUME ~ForeignRelease
  PROVE  RInv /\ [Next]_vars => RInv'
PROOF
<1> SUFFICES ASSUME RInv, [Next]_vars PROVE RInv'
  OBVIOUS
<1>1. QInv /\ TypeOK /\ Placed /\ Owned /\ \A u \in Threads : ListOK(u)
  BY DEF RInv, QInv
<1>2. QInv'
  BY <1>1, NextQInv
<1> SUFFICES Owned' /\ \A u \in Threads : ListOK(u)'
  BY <1>2 DEF RInv
<1>3. CASE UNCHANGED vars
  <2>1. UNCHANGED <<ftx, next, prev, pending, pc, arg, first, before, held>>
    BY <1>3 DEF vars, memory, list, local, ghost
  <2>2. Owned'
    BY <1>1, <2>1 DEF Owned, Claim
  <2>3. \A u \in Threads : Still(u)
    BY <2>1 DEF Still
  <2> QED BY <1>1, <2>1, <2>2, <2>3, StillList
<1>4. ASSUME NEW t \in Threads,
             Calling(t) \/ Running(t) \/ LockTimeout(t) \/ WaitTimeout(t) \/ Die(t)
      PROVE  Owned' /\ \A u \in Threads : ListOK(u)'
  <2>1. CASE Calling(t)
    BY <1>1, <2>1, CallOwned, CallList
  <2>2. CASE \/ LockCas(t) \/ TryCas(t) \/ a0_ftx_trylock_pi(t) \/ ClearWord(t) \/ ReleaseCas(t)
             \/ a0_ftx_lock_pi(t) /\ ftx[arg[t]].tid \in {None, t}
             \/ a0_ftx_unlock_pi(t) /\ queue[arg[t]] = {}
    <3>1. PICK l \in PCs, w \in Word : Moves(t, l, w) /\ WordSteps(t, l, w)
      BY <1>1, <2>2, WordStep
    <3> QED BY <1>1, <3>1, WordOwned, RestList
  <2>3. CASE AddNode(t) \/ AddPublish(t) \/ AddBack(t) \/ DelNext(t) \/ DelPrev(t)
    BY <1>1, <2>3, StepOwned, AddNodeList, AddPublishList, AddBackList, DelNextList, DelPrevList
  <2>4. CASE \/ a0_robust_op_end(t) \/ WaitStart(t)
             \/ LockTimeout(t) \/ WaitTimeout(t) \/ a0_ftx_wait_requeue_pi(t) \/ RequeueAgain(t)
             \/ a0_ftx_lock_pi(t) /\ ftx[arg[t]].tid \notin {None, t}
    BY <1>1, <2>4, StepOwned, RestList
  <2>5. CASE a0_ftx_unlock_pi(t) /\ queue[arg[t]] # {}
    BY <1>1, <2>5, GrantOwned, RestList
  <2>6. CASE Requeue(t)
    BY <1>1, <2>6, RequeueOwned, RestList
  <2>7. CASE Die(t)
    BY <1>1, <2>7, DieOwned, RestList
  <2> QED BY <1>4, <2>1, <2>2, <2>3, <2>4, <2>5, <2>6, <2>7 DEF Running
<1> QED BY <1>3, <1>4 DEF Next

(* The words, what the threads were told and the robust lists agree, at every *)
(* store, when each thread releases only what it took itself.                 *)
THEOREM RobustInvariant ==
  ASSUME ~ForeignRelease
  PROVE  Spec => []RInv
PROOF
<1>1. Init => RInv
  BY InitRInv
<1>2. RInv /\ [Next]_vars => RInv'
  BY NextRInv
<1> QED BY <1>1, <1>2, PTL DEF Spec

(* A mutex that a thread was told it holds has that thread in its word: a      *)
(* handover, requeue, timeout or death never gives it to another one as well.  *)
(* An owner is expected to release what it took (mtx.c checks it;              *)
(* deadman_mtx.c does not, and ForeignRelease stands for that).                *)
THEOREM HoldersOwn ==
  ASSUME ~ForeignRelease
  PROVE  Spec => []HeldIsOwned
PROOF
<1>1. RInv => HeldIsOwned
  <2> SUFFICES ASSUME RInv, NEW t \in Threads, NEW m \in held[t] PROVE ftx[m].tid = t
    BY DEF HeldIsOwned
  <2>1. TypeOK /\ Owned
    BY DEF RInv, QInv
  <2>2. m \in Mutexes
    BY <2>1 DEF TypeOK
  <2> QED BY <2>1, <2>2 DEF Owned, Claim
<1> QED BY <1>1, RobustInvariant, PTL

(* At whatever store a thread dies, no mutex is left to it: all that it owns  *)
(* is on its list or pending when the kernel walks it.                        *)
THEOREM DeadLeaveNothing ==
  ASSUME ~ForeignRelease
  PROVE  Spec => []DeadOwnNothing
PROOF
<1>1. RInv => DeadOwnNothing
  <2> SUFFICES ASSUME RInv, NEW m \in Mutexes, ftx[m].tid # None PROVE pc[ftx[m].tid] # "dead"
    BY DEF DeadOwnNothing
  <2>1. TypeOK /\ Owned
    BY DEF RInv, QInv
  <2>2. PICK t \in Threads : ftx[m].tid = t
    BY <2>1, Words DEF TypeOK
  <2>3. Claim(t, m)
    BY <2>1, <2>2 DEF Owned
  <2> QED BY <2>1, <2>2, <2>3 DEF Owned, Claim, Adding, Removing
<1> QED BY <1>1, RobustInvariant, PTL

(* Between operations the robust list of a live thread is exactly what it     *)
(* holds, linked both ways, and its head is as a0_robust_init_thread left it. *)
THEOREM ListsExact ==
  ASSUME ~ForeignRelease
  PROVE  Spec => []ListExact
PROOF
<1>1. RInv => ListExact
  <2> SUFFICES ASSUME RInv, NEW t \in Threads, pc[t] # "dead", pending[t] = None
               PROVE  /\ Listed(t) = held[t]
                      /\ prev[t] = Offset
                      /\ \A m \in held[t] : /\ next[prev[m]] = m
                                            /\ next[m] # t => next[m] \in held[t] /\ prev[next[m]] = m
    BY DEF ListExact
  <2>1. Placed /\ Owned /\ Links(t)
    BY DEF RInv, QInv, ListOK
  <2>2. pc[t] \in {"idle", "rewait", "requeue"}
    BY <2>1, RobustAssumption DEF Placed, Owned
  <2>3. OnList(t) = held[t] /\ Ring(t) = held[t] \cup {t} /\ \A n : PrevOfNext(t, n) = n
    BY <2>2 DEF OnList, Ring, PrevOfNext
  <2>4. \A m \in held[t] : next[prev[m]] = m
    BY <2>2, <2>3, OnlyPred
  <2>5. \A m \in held[t] : next[m] # t => next[m] \in held[t] /\ prev[next[m]] = m
    BY <2>1, <2>3 DEF Links
  <2> QED BY <2>1, <2>3, <2>4, <2>5 DEF Links
<1> QED BY <1>1, RobustInvariant, PTL

-----------------------------------------------------------------------------
(* To its users it is a robust mutex (Mutex). *)

Clearers == {"unlink", "unlink_back", "clear"}
Leaving  == {"release", "unlock_pi"}

\* A thread that has cleared the mark of a dead owner finds it cleared.
Unmarked == \A t \in Threads : pc[t] \in Leaving => ~ftx[arg[t]].died

Clears(t, m) == arg[t] = m /\ pc[t] \in Clearers
Hold(m) == {t \in Threads : m \in held[t]}
Orphan(m) == ftx[m].died /\ ~Clearing(m)

\* A thread does not come to clear a mark, and does not stop on the way.
Along(u) ==
  \/ pc'[u] = pc[u] /\ arg'[u] = arg[u]
  \/ pc[u] \notin Clearers /\ pc'[u] \notin Clearers \cup Leaving
  \/ pc[u] \in Leaving /\ pc'[u] \in Leaving /\ arg'[u] = arg[u]
  \/ pc[u] \in Clearers /\ pc'[u] \in Clearers /\ arg'[u] = arg[u]
SameMark(m) == ftx'[m].died <=> ftx[m].died

\* Nothing that the users of a mutex are told of changes.
Quiet ==
  /\ UNCHANGED held
  /\ \A m \in Mutexes \ Deadmen : SameMark(m)
  /\ \A u \in Threads : Along(u)

(* The mark in a word. *)
LEMMA Marks ==
  /\ ~Free.died
  /\ \A t \in Threads : ~[Free EXCEPT !.tid = t].died
  /\ \A u, b : \A d \in BOOLEAN : [tid |-> u, waiters |-> b, died |-> d].died <=> d
  /\ \A w \in Word : [w EXCEPT !.waiters = TRUE].died <=> w.died
  /\ \A w \in Word : ~[w EXCEPT !.died = FALSE].died
PROOF
<1>1. ~Free.died
  BY DEF Free
<1>2. \A t \in Threads : ~[Free EXCEPT !.tid = t].died
  BY DEF Free
<1>3. \A u, b : \A d \in BOOLEAN : [tid |-> u, waiters |-> b, died |-> d].died <=> d
  OBVIOUS
<1>4. \A w \in Word : [w EXCEPT !.waiters = TRUE].died <=> w.died
  BY DEF Word
<1>5. \A w \in Word : ~[w EXCEPT !.died = FALSE].died
  BY DEF Word
<1> QED BY <1>1, <1>2, <1>3, <1>4, <1>5

(* One word changes, and its mark stays. *)
LEMMA WordSame ==
  ASSUME TypeOK, NEW m \in Mutexes, NEW w, SetWord(m, w), w.died <=> ftx[m].died
  PROVE  \A n \in Mutexes : SameMark(n)
  BY DEF TypeOK, SetWord, SameMark

(* One thread moves on. *)
LEMMA OneAlong ==
  ASSUME TypeOK, NEW t \in Threads, NEW l, pc' = [pc EXCEPT ![t] = l],
         \A u \in Threads : u # t => arg'[u] = arg[u],
         \/ pc[t] \notin Clearers /\ l \notin Clearers \cup Leaving
         \/ pc[t] \in Leaving /\ l \in Leaving /\ arg'[t] = arg[t]
         \/ pc[t] \in Clearers /\ l \in Clearers /\ arg'[t] = arg[t]
  PROVE  \A u \in Threads : Along(u)
PROOF
<1>1. pc \in [Threads -> PCs]
  BY DEF TypeOK
<1>2. pc'[t] = l /\ \A u \in Threads : u # t => pc'[u] = pc[u]
  BY <1>1
<1>3. Along(t)
  BY <1>2 DEF Along
<1>4. \A u \in Threads : u # t => Along(u)
  BY <1>2 DEF Along
<1> QED BY <1>3, <1>4

(* Steps that change no word. *)
LEMMA LocalQuiet ==
  ASSUME TypeOK, NEW t \in Threads, UNCHANGED <<ftx, held>>, NEW l,
         pc' = [pc EXCEPT ![t] = l],
         \A u \in Threads : u # t => arg'[u] = arg[u],
         \/ pc[t] \notin Clearers /\ l \notin Clearers \cup Leaving
         \/ pc[t] \in Clearers /\ l \in Clearers /\ arg'[t] = arg[t]
  PROVE  Quiet
  BY OneAlong DEF Quiet, SameMark

(* Calls that do not release, and steps of the list, of waits and of ends. *)
LEMMA StepQuiet ==
  ASSUME TypeOK, NEW t \in Threads,
         \/ \E m \in Mutexes : \/ a0_mtx_timedlock(t, m) \/ a0_mtx_trylock(t, m)
                               \/ a0_cnd_broadcast(t, m)
         \/ AddNode(t) \/ AddPublish(t) \/ DelNext(t) \/ DelPrev(t)
         \/ a0_robust_op_end(t) \/ WaitStart(t) \/ LockTimeout(t) \/ WaitTimeout(t)
         \/ a0_ftx_wait_requeue_pi(t) \/ RequeueAgain(t)
  PROVE  Quiet
PROOF
<1> USE DEF memory, list, kernel, ghost, Go, GoTo, Clearers, Leaving
<1>0. arg \in [Threads -> Mutexes \cup {None}] /\ pc \in [Threads -> PCs]
  BY DEF TypeOK
<1>1. CASE \E m \in Mutexes : \/ a0_mtx_timedlock(t, m) \/ a0_mtx_trylock(t, m)
                              \/ a0_cnd_broadcast(t, m)
  <2>1. /\ pc[t] = "idle" /\ UNCHANGED <<ftx, held>>
        /\ \E l \in {"cas", "try", "requeue"} : pc' = [pc EXCEPT ![t] = l]
        /\ \E m \in Mutexes : arg' = [arg EXCEPT ![t] = m]
    BY <1>1 DEF a0_mtx_timedlock, a0_mtx_trylock, a0_cnd_broadcast, a0_cnd_wake, Enter
  <2>2. \A u \in Threads : u # t => arg'[u] = arg[u]
    BY <1>0, <2>1
  <2> QED BY <2>1, <2>2, LocalQuiet
<1>2. CASE AddNode(t) \/ AddPublish(t)
  <2>1. /\ UNCHANGED <<ftx, held, arg>> /\ pc[t] \in {"node", "publish"}
        /\ \E l \in {"publish", "back"} : pc' = [pc EXCEPT ![t] = l]
    BY <1>2 DEF AddNode, AddPublish
  <2> QED BY <2>1, LocalQuiet
<1>3. CASE DelNext(t) \/ DelPrev(t)
  <2>1. /\ UNCHANGED <<ftx, held, arg>> /\ pc[t] \in {"unlink", "unlink_back"}
        /\ \E l \in {"unlink_back", "clear"} : pc' = [pc EXCEPT ![t] = l]
    BY <1>3 DEF DelNext, DelPrev
  <2> QED BY <2>1, LocalQuiet
<1>4. CASE a0_robust_op_end(t)
  <2>1. /\ UNCHANGED <<ftx, held>> /\ pc[t] = "end"
        /\ \E l \in {"rewait", "idle"} : pc' = [pc EXCEPT ![t] = l]
        /\ UNCHANGED arg \/ arg' = [arg EXCEPT ![t] = None]
    BY <1>4 DEF a0_robust_op_end
  <2>2. \A u \in Threads : u # t => arg'[u] = arg[u]
    BY <1>0, <2>1
  <2> QED BY <2>1, <2>2, LocalQuiet
<1>5. CASE \/ WaitStart(t) \/ LockTimeout(t) \/ WaitTimeout(t) \/ a0_ftx_wait_requeue_pi(t)
  <2>1. /\ UNCHANGED <<ftx, held, arg>> /\ pc[t] \in {"rewait", "blocked", "asleep", "requeue_wait"}
        /\ \E l \in {"requeue_wait", "end", "cas", "asleep"} : pc' = [pc EXCEPT ![t] = l]
    BY <1>5 DEF WaitStart, LockTimeout, WaitTimeout, a0_ftx_wait_requeue_pi
  <2> QED BY <2>1, LocalQuiet
<1>6. CASE RequeueAgain(t)
  BY <1>6 DEF RequeueAgain, Quiet, Along, SameMark
<1> QED BY <1>1, <1>2, <1>3, <1>4, <1>5, <1>6

(* Taking a word, asking for it, and giving it back: the mark goes with it. *)
LEMMA WordQuiet ==
  ASSUME TypeOK, Placed, Unmarked, NEW t \in Threads,
         \/ LockCas(t) \/ a0_ftx_lock_pi(t) \/ TryCas(t) \/ a0_ftx_trylock_pi(t) \/ ReleaseCas(t)
  PROVE  Quiet
PROOF
<1> USE DEF memory, list, kernel, ghost, GoTo
<1>1. pc[t] \in {"cas", "lock_pi", "try", "try_pi", "release"} /\ UNCHANGED <<held, arg>>
  BY DEF LockCas, a0_ftx_lock_pi, TryCas, a0_ftx_trylock_pi, ReleaseCas
<1>2. /\ arg[t] \in Mutexes /\ ftx \in [Mutexes -> Word] /\ ftx[arg[t]] \in Word
      /\ pc[t] = "release" => ~ftx[arg[t]].died
  <2>1. arg[t] \in Mutexes
    BY <1>1 DEF Placed
  <2> QED BY <2>1 DEF TypeOK, Unmarked, Leaving
<1>3. \A u \in Threads : Along(u)
  <2>1. \E l \in {"node", "lock_pi", "try_pi", "end", "blocked", "unlock_pi"} :
          pc' = [pc EXCEPT ![t] = l] /\ (pc[t] = "release" => l \in {"end", "unlock_pi"})
                                     /\ (pc[t] # "release" => l # "unlock_pi")
    BY DEF LockCas, a0_ftx_lock_pi, TryCas, a0_ftx_trylock_pi, ReleaseCas
  <2> QED BY <1>1, <2>1, OneAlong DEF Clearers, Leaving
<1>4. \/ UNCHANGED ftx
      \/ \E w : SetWord(arg[t], w) /\ (w.died <=> ftx[arg[t]].died)
      \/ arg[t] \in Deadmen /\ \E w : SetWord(arg[t], w)
  <2> DEFINE m == arg[t]
  <2>1. CASE SetWord(m, [Free EXCEPT !.tid = t]) /\ ftx[m] = Free
    BY <2>1, Marks
  <2>2. CASE SetWord(m, [tid |-> t, waiters |-> FALSE, died |-> ftx[m].died])
    <3>1. ftx[m].died \in BOOLEAN
      BY <1>2, Words
    <3> QED BY <2>2, <3>1, Marks
  <2>3. CASE SetWord(m, [ftx[m] EXCEPT !.waiters = TRUE])
    BY <1>2, <2>3, Marks
  <2>4. CASE SetWord(m, Free) /\ pc[t] = "release"
    BY <1>2, <2>4, Marks
  <2>5. CASE m \in Deadmen /\ \E w : SetWord(m, w)
    BY <2>5
  <2>6. CASE UNCHANGED ftx
    BY <2>6
  <2> HIDE DEF m
  <2>7. CASE LockCas(t)
    BY <2>1, <2>6, <2>7 DEF LockCas, m
  <2>8. CASE a0_ftx_lock_pi(t)
    BY <2>2, <2>3, <2>6, <2>8 DEF a0_ftx_lock_pi, m
  <2>9. CASE TryCas(t)
    BY <2>1, <2>5, <2>6, <2>9 DEF TryCas, m
  <2>10. CASE a0_ftx_trylock_pi(t)
    BY <2>2, <2>6, <2>10 DEF a0_ftx_trylock_pi, m
  <2>11. CASE ReleaseCas(t)
    BY <2>4, <2>6, <2>11 DEF ReleaseCas, m
  <2> QED BY <2>7, <2>8, <2>9, <2>10, <2>11
<1>5. \A n \in Mutexes \ Deadmen : SameMark(n)
  <2>1. CASE UNCHANGED ftx
    BY <2>1 DEF SameMark
  <2>2. CASE arg[t] \in Deadmen /\ \E w : SetWord(arg[t], w)
    BY <1>2, <2>2 DEF SetWord, SameMark
  <2>3. CASE arg[t] \notin Deadmen /\ \E w : SetWord(arg[t], w) /\ (w.died <=> ftx[arg[t]].died)
    BY <1>2, <2>3, WordSame
  <2> QED BY <1>4, <2>1, <2>2, <2>3
<1> QED BY <1>1, <1>3, <1>5 DEF Quiet

(* A mutex given to a thread that queued for it. *)
LEMMA GrantQuiet ==
  ASSUME TypeOK, Placed, Unmarked, NEW t \in Threads, a0_ftx_unlock_pi(t)
  PROVE  Quiet
PROOF
<1> USE DEF memory, list, kernel, ghost, GoTo
<1>1. PICK m \in Mutexes : m = arg[t]
  BY DEF Placed, a0_ftx_unlock_pi
<1>2. /\ pc[t] = "unlock_pi" /\ UNCHANGED <<held, arg>> /\ pc \in [Threads -> PCs]
      /\ ftx \in [Mutexes -> Word] /\ ~ftx[m].died
  BY <1>1 DEF a0_ftx_unlock_pi, TypeOK, Unmarked, Leaving
<1>3. CASE SetWord(m, Free) /\ pc' = [pc EXCEPT ![t] = "end"]
  <2>1. \A n \in Mutexes : SameMark(n)
    BY <1>2, <1>3, Marks, WordSame
  <2>2. \A u \in Threads : Along(u)
    BY <1>2, <1>3, OneAlong DEF Clearers, Leaving
  <2> QED BY <1>2, <2>1, <2>2 DEF Quiet
<1>4. CASE \E w \in queue[m] : /\ Granted(m, w, FALSE)
                               /\ pc' = [pc EXCEPT ![t] = "end", ![w] = "node"]
  <2>1. PICK w \in queue[m] : /\ Granted(m, w, FALSE)
                              /\ pc' = [pc EXCEPT ![t] = "end", ![w] = "node"]
    BY <1>4
  <2>2. w \in Threads /\ pc[w] = "blocked" /\ w # t
    BY <1>2, <2>1 DEF Placed, TypeOK
  <2>3. ~[tid |-> w, waiters |-> TRUE, died |-> FALSE].died
    OBVIOUS
  <2>4. \A n \in Mutexes : SameMark(n)
    BY <1>2, <2>1, <2>3, WordSame DEF Granted
  <2>5. /\ pc'[t] = "end" /\ pc'[w] = "node"
        /\ \A u \in Threads : u \notin {t, w} => pc'[u] = pc[u]
    BY <1>2, <2>1, <2>2
  <2>6. \A u \in Threads : Along(u)
    <3>1. Along(t) /\ Along(w)
      BY <1>2, <2>2, <2>5 DEF Along, Clearers, Leaving
    <3>2. \A u \in Threads : u \notin {t, w} => Along(u)
      BY <1>2, <2>5 DEF Along
    <3> QED BY <3>1, <3>2
  <2> QED BY <1>2, <2>4, <2>6 DEF Quiet
<1> QED BY <1>1, <1>3, <1>4 DEF a0_ftx_unlock_pi

(* Sleepers put on the queue, or given the mutex. *)
LEMMA RequeueQuiet ==
  ASSUME TypeOK, Placed, NEW t \in Threads, Requeue(t)
  PROVE  Quiet
PROOF
<1> USE DEF memory, list, kernel, ghost
<1>1. PICK m \in Mutexes : m = arg[t]
  BY DEF Placed, Requeue
<1>2. PICK S \in SUBSET Threads : S = sleepers[m]
  BY DEF TypeOK
<1>3. /\ pc[t] = "requeue" /\ UNCHANGED held /\ arg' = [arg EXCEPT ![t] = None]
      /\ ftx \in [Mutexes -> Word] /\ ftx[m] \in Word /\ ftx[m].died \in BOOLEAN
      /\ arg \in [Threads -> Mutexes \cup {None}] /\ pc \in [Threads -> PCs]
  BY <1>1, Words DEF Requeue, TypeOK
<1>4. \A u \in S : u # t /\ pc[u] = "asleep"
  BY <1>2, <1>3 DEF Placed
<1> DEFINE q == [u \in Threads |-> IF u = t THEN "idle" ELSE IF u \in S THEN "blocked" ELSE pc[u]]
<1>5. \/ UNCHANGED ftx /\ pc' = q
      \/ SetWord(m, [ftx[m] EXCEPT !.waiters = TRUE]) /\ pc' = q
      \/ \E w \in S : /\ SetWord(m, [tid |-> w, waiters |-> S # {w}, died |-> ftx[m].died])
                      /\ pc' = [q EXCEPT ![w] = "node"]
  BY <1>1, <1>2 DEF Requeue
<1>6. \A n \in Mutexes : SameMark(n)
  <2>1. CASE UNCHANGED ftx
    BY <2>1 DEF SameMark
  <2>2. CASE SetWord(m, [ftx[m] EXCEPT !.waiters = TRUE])
    BY <1>3, <2>2, Marks, WordSame
  <2>3. CASE \E w \in S : SetWord(m, [tid |-> w, waiters |-> S # {w}, died |-> ftx[m].died])
    BY <1>3, <2>3, Marks, WordSame
  <2> QED BY <1>5, <2>1, <2>2, <2>3
<1>7. \A u \in Threads : pc'[u] = pc[u] \/ (u \in S \cup {t} /\ pc'[u] \in {"idle", "blocked", "node"})
  BY <1>3, <1>5
<1>8. \A u \in Threads : u # t => arg'[u] = arg[u]
  BY <1>3
<1>9. pc'[t] \in {"idle", "blocked", "node"}
  BY <1>3, <1>4, <1>5
<1>10. \A u \in Threads : Along(u)
  <2>1. Along(t)
    BY <1>3, <1>9 DEF Along, Clearers, Leaving
  <2>2. ASSUME NEW u \in Threads, u # t PROVE Along(u)
    BY <1>4, <1>7, <1>8, <2>2 DEF Along, Clearers, Leaving
  <2> QED BY <2>1, <2>2
<1> QED BY <1>3, <1>6, <1>10 DEF Quiet

\* What the users of a mutex see of it, before and after.
SameHold(m) == Hold(m)' = Hold(m)
SameOrphan(m) == Orphan(m)' <=> Orphan(m)

(* A mutex has one claimant. *)
LEMMA OneClaim ==
  ASSUME Owned, NEW m \in Mutexes, NEW t \in Threads, NEW u \in Threads, Claim(t, m), Claim(u, m)
  PROVE  t = u
  BY DEF Owned

(* Who clears a mutex claims it, and who holds one does not clear it. *)
LEMMA ClearersClaim ==
  ASSUME Owned, NEW m \in Mutexes, NEW t \in Threads, Clears(t, m)
  PROVE  Claim(t, m) /\ Hold(m) = {}
PROOF
<1>1. Claim(t, m) /\ m \notin held[t]
  BY DEF Clears, Clearers, Claim, Removing, Owned
<1>2. ASSUME NEW u \in Hold(m) PROVE FALSE
  <2>1. u \in Threads /\ m \in held[u] /\ Claim(u, m)
    BY DEF Hold, Claim
  <2> QED BY <1>1, <2>1, OneClaim
<1> QED BY <1>1, <1>2

(* Whether a mark is being cleared is seen from the threads that might. *)
LEMMA ClearingSame ==
  ASSUME NEW m, \A u \in Threads : Clears(u, m)' <=> Clears(u, m)
  PROVE  Clearing(m)' <=> Clearing(m)
PROOF
<1>1. Clearing(m) <=> \E u \in Threads : Clears(u, m)
  BY DEF Clearing, Clears, Clearers
<1>2. Clearing(m)' <=> \E u \in Threads : Clears(u, m)'
  BY DEF Clearing, Clears, Clearers
<1> QED BY <1>1, <1>2

(* A quiet step is not seen. *)
LEMMA QuietSame ==
  ASSUME Placed, Unmarked, Quiet
  PROVE  /\ \A m \in Mutexes \ Deadmen : SameHold(m) /\ SameOrphan(m)
         /\ Unmarked'
PROOF
<1>1. UNCHANGED held /\ \A u \in Threads : Along(u)
  BY DEF Quiet
<1>2. ASSUME NEW m \in Mutexes \ Deadmen PROVE SameHold(m) /\ SameOrphan(m)
  <2>1. \A u \in Threads : Clears(u, m)' <=> Clears(u, m)
    BY <1>1 DEF Along, Clears, Clearers, Leaving
  <2>2. SameMark(m)
    BY DEF Quiet
  <2>3. SameHold(m)
    BY <1>1 DEF SameHold, Hold
  <2>4. SameOrphan(m)
    BY <2>1, <2>2, ClearingSame DEF SameOrphan, Orphan, SameMark
  <2> QED BY <2>3, <2>4
<1>3. Unmarked'
  <2> SUFFICES ASSUME NEW u \in Threads, pc'[u] \in Leaving PROVE ~ftx'[arg'[u]].died
    BY DEF Unmarked
  <2>1. pc[u] \in Leaving /\ arg'[u] = arg[u]
    BY <1>1 DEF Along, Clearers, Leaving
  <2>2. arg[u] \in Mutexes \ Deadmen
    BY <2>1 DEF Placed, Leaving, Ordinary
  <2>3. SameMark(arg[u])
    BY <2>2 DEF Quiet
  <2> QED BY <2>1, <2>3 DEF Unmarked, SameMark
<1> QED BY <1>2, <1>3

(* Clearing the mark is not seen either: nobody holds the mutex meanwhile. *)
LEMMA ClearSame ==
  ASSUME TypeOK, Placed, Owned, Unmarked, NEW t \in Threads, ClearWord(t)
  PROVE  /\ \A m \in Mutexes \ Deadmen : SameHold(m) /\ SameOrphan(m)
         /\ Unmarked'
PROOF
<1> USE DEF memory, list, kernel, ghost, GoTo
<1>1. PICK m \in Mutexes : m = arg[t]
  BY DEF Placed, ClearWord
<1>2. /\ pc[t] = "clear" /\ UNCHANGED <<held, arg>> /\ pc \in [Threads -> PCs]
      /\ ftx \in [Mutexes -> Word] /\ ftx[m] \in Word
      /\ \E l \in {"release", "end"} : pc' = [pc EXCEPT ![t] = l]
      /\ \E w : SetWord(m, w) /\ ~w.died
  <2>1. /\ pc[t] = "clear" /\ UNCHANGED <<held, arg>> /\ pc \in [Threads -> PCs]
        /\ ftx \in [Mutexes -> Word] /\ ftx[m] \in Word
    BY <1>1 DEF ClearWord, TypeOK
  <2>2. \E l \in {"release", "end"} : pc' = [pc EXCEPT ![t] = l]
    BY DEF ClearWord
  <2>3. \E w : SetWord(m, w) /\ ~w.died
    BY <1>1, <2>1, Marks DEF ClearWord
  <2> QED BY <2>1, <2>2, <2>3
<1>3. /\ pc'[t] \in {"release", "end"} /\ \A u \in Threads : u # t => pc'[u] = pc[u]
      /\ ~ftx'[m].died /\ \A n \in Mutexes : n # m => ftx'[n] = ftx[n]
  BY <1>2 DEF SetWord
<1>4. ASSUME NEW n \in Mutexes \ Deadmen PROVE SameHold(n) /\ SameOrphan(n)
  <2>1. SameHold(n)
    BY <1>2 DEF SameHold, Hold
  <2>2. CASE n = m
    <3>1. Clearing(m)
      BY <1>1, <1>2 DEF Clearing
    <3> QED BY <1>3, <2>1, <2>2, <3>1 DEF SameOrphan, Orphan
  <2>3. CASE n # m
    <3>1. \A u \in Threads : Clears(u, n)' <=> Clears(u, n)
      BY <1>1, <1>2, <1>3, <2>3 DEF Clears
    <3> QED BY <1>3, <2>1, <2>3, <3>1, ClearingSame DEF SameOrphan, Orphan
  <2> QED BY <2>2, <2>3
<1>5. Unmarked'
  <2> SUFFICES ASSUME NEW u \in Threads, pc'[u] \in Leaving PROVE ~ftx'[arg[u]].died
    BY <1>2 DEF Unmarked
  <2>1. CASE arg[u] = m
    BY <1>3, <2>1
  <2>2. CASE arg[u] # m
    <3>1. u # t /\ pc[u] \in Leaving
      BY <1>1, <1>3, <2>2
    <3>2. arg[u] \in Mutexes
      BY <3>1 DEF Placed, Leaving
    <3> QED BY <1>3, <2>2, <3>1, <3>2 DEF Unmarked
  <2> QED BY <2>1, <2>2
<1> QED BY <1>4, <1>5

(* The end of a lock: the mutex is held, which nobody did. *)
LEMMA AddBackTakes ==
  ASSUME TypeOK, Placed, Owned, Unmarked, NEW t \in Threads, AddBack(t)
  PROVE  /\ \E m \in Mutexes : /\ m = arg[t] /\ Hold(m) = {} /\ Hold(m)' = {t}
                               /\ \A n \in Mutexes : n # m => SameHold(n)
         /\ \A n \in Mutexes : SameOrphan(n)
         /\ Unmarked'
PROOF
<1> USE DEF memory, list, kernel, ghost, Go, GoTo
<1>1. PICK m \in Mutexes : m = arg[t]
  BY DEF Placed, AddBack
<1>2. /\ pc[t] = "back" /\ pc' = [pc EXCEPT ![t] = "end"] /\ UNCHANGED <<ftx, arg>>
      /\ held' = [held EXCEPT ![t] = @ \cup {m}]
      /\ pc \in [Threads -> PCs] /\ held \in [Threads -> SUBSET Mutexes]
  BY <1>1 DEF AddBack, TypeOK
<1>3. /\ pc'[t] = "end" /\ held'[t] = held[t] \cup {m}
      /\ \A u \in Threads : u # t => pc'[u] = pc[u] /\ held'[u] = held[u]
  BY <1>2
<1>4. Hold(m) = {}
  <2> SUFFICES ASSUME NEW u \in Threads, m \in held[u] PROVE FALSE
    BY DEF Hold
  <2>1. Claim(u, m) /\ Claim(t, m) /\ m \notin held[t]
    BY <1>1, <1>2 DEF Claim, Owned, Adding
  <2> QED BY <2>1, OneClaim
<1>5. Hold(m)' = {t}
  BY <1>3, <1>4 DEF Hold
<1>6. \A n \in Mutexes : n # m => SameHold(n)
  <2> SUFFICES ASSUME NEW n \in Mutexes, n # m PROVE \A u \in Threads : n \in held'[u] <=> n \in held[u]
    BY DEF SameHold, Hold
  <2> QED BY <1>3
<1>7. \A u \in Threads : Along(u)
  BY <1>2, OneAlong DEF Clearers, Leaving
<1>8. ASSUME NEW n \in Mutexes PROVE SameOrphan(n)
  <2>1. \A u \in Threads : Clears(u, n)' <=> Clears(u, n)
    BY <1>7 DEF Along, Clears, Clearers, Leaving
  <2> QED BY <1>2, <2>1, ClearingSame DEF SameOrphan, Orphan
<1>9. Unmarked'
  BY <1>2, <1>3 DEF Unmarked, Leaving
<1> QED BY <1>1, <1>4, <1>5, <1>6, <1>8, <1>9

(* The start of a release: the mutex is not held any more, nor orphaned. *)
LEMMA ReleaseGives ==
  ASSUME TypeOK, Owned, Unmarked, NEW t \in Threads, NEW m \in Mutexes,
         m \in held[t], held' = [held EXCEPT ![t] = @ \ {m}],
         pc[t] = "idle", pc' = [pc EXCEPT ![t] = "unlink"], arg' = [arg EXCEPT ![t] = m],
         UNCHANGED ftx
  PROVE  /\ Hold(m) = {t} /\ Hold(m)' = {} /\ ~Orphan(m)'
         /\ \A n \in Mutexes : n # m => SameHold(n) /\ SameOrphan(n)
         /\ Unmarked'
PROOF
<1>1. /\ pc \in [Threads -> PCs] /\ held \in [Threads -> SUBSET Mutexes]
      /\ arg \in [Threads -> Mutexes \cup {None}]
  BY DEF TypeOK
<1>2. /\ pc'[t] = "unlink" /\ held'[t] = held[t] \ {m} /\ arg'[t] = m
      /\ \A u \in Threads : u # t => pc'[u] = pc[u] /\ held'[u] = held[u] /\ arg'[u] = arg[u]
  BY <1>1
<1>3. Hold(m) = {t}
  <2>1. ASSUME NEW u \in Threads, m \in held[u] PROVE u = t
    BY <2>1, OneClaim DEF Claim
  <2> QED BY <2>1 DEF Hold
<1>4. Hold(m)' = {}
  BY <1>2, <1>3 DEF Hold
<1>5. ~Orphan(m)'
  BY <1>2 DEF Orphan, Clearing
<1>6. ASSUME NEW n \in Mutexes, n # m PROVE SameHold(n) /\ SameOrphan(n)
  <2>1. \A u \in Threads : n \in held'[u] <=> n \in held[u]
    BY <1>2, <1>6
  <2>2. \A u \in Threads : Clears(u, n)' <=> Clears(u, n)
    BY <1>2, <1>6 DEF Clears, Clearers
  <2> QED BY <2>1, <2>2, ClearingSame DEF SameHold, Hold, SameOrphan, Orphan
<1>7. Unmarked'
  BY <1>2 DEF Unmarked, Leaving
<1> QED BY <1>3, <1>4, <1>5, <1>6, <1>7

(* A death: what the thread held is free and orphaned, and so may be what it *)
(* was taking or releasing.                                                  *)
LEMMA DieOrphans ==
  ASSUME RInv, Unmarked, NEW t \in Threads, Die(t)
  PROVE  /\ \A m \in Mutexes : /\ Hold(m)' = Hold(m) \ {t}
                               /\ Orphan(m) \/ t \in Hold(m) => Orphan(m)'
                               /\ Hold(m) # {} /\ Orphan(m)' => Orphan(m) \/ t \in Hold(m)
         /\ Unmarked'
PROOF
<1>1. TypeOK /\ Placed /\ Owned /\ ListOK(t) /\ pc[t] # "dead"
  BY DEF RInv, QInv, Die
<1>2. PICK heir : Dies(t, heir)
  BY <1>1, DieStep
<1>3. /\ held'[t] = {} /\ arg'[t] = None /\ pc'[t] = "dead"
      /\ \A u \in Threads \ {t} : held'[u] = held[u] /\ arg'[u] = arg[u]
  BY <1>1, <1>2, DieStep DEF Dies
<1>4. \A u \in Threads \ {t} : pc'[u] = pc[u] \/ pc'[u] = "node"
  BY <1>2 DEF Dies
<1>5. \A m \in Mutexes : ftx[m].tid # t => ftx'[m] = ftx[m]
  BY <1>2 DEF Dies
<1>6. \A m \in Mutexes : ftx'[m].died \/ ftx'[m] = ftx[m]
  <2> SUFFICES ASSUME NEW m \in Mutexes, ftx'[m] # ftx[m] PROVE ftx'[m].died
    OBVIOUS
  <2>1. \/ ftx'[m] = [tid |-> heir[m], waiters |-> TRUE, died |-> TRUE]
        \/ ftx'[m] = [tid |-> None, waiters |-> ftx[m].waiters, died |-> TRUE]
    BY <1>2 DEF Dies
  <2> QED BY <2>1
<1>7. \A m \in held[t] : ftx'[m].died
  <2> SUFFICES ASSUME NEW m \in held[t] PROVE ftx'[m].died
    OBVIOUS
  <2>1. m \in Mutexes /\ ftx[m].tid = t
    BY <1>1 DEF TypeOK, Owned, Claim
  <2>2. prev[t] = Offset /\ m \in Listed(t)
    BY <1>1 DEF ListOK, Links, OnList
  <2>3. \/ ftx'[m] = [tid |-> heir[m], waiters |-> TRUE, died |-> TRUE]
        \/ ftx'[m] = [tid |-> None, waiters |-> ftx[m].waiters, died |-> TRUE]
    BY <1>2, <2>1, <2>2 DEF Dies
  <2> QED BY <2>3
<1>8. ASSUME NEW m \in Mutexes, NEW u \in Threads, Clears(u, m)' PROVE Clears(u, m) /\ u # t
  BY <1>3, <1>4, <1>8 DEF Clears, Clearers
<1>9. ASSUME NEW m \in Mutexes
      PROVE  /\ Hold(m)' = Hold(m) \ {t}
             /\ Orphan(m) \/ t \in Hold(m) => Orphan(m)'
             /\ Hold(m) # {} /\ Orphan(m)' => Orphan(m) \/ t \in Hold(m)
  <2>1. Hold(m)' = Hold(m) \ {t}
    BY <1>3 DEF Hold
  <2>2. Clearing(m)' => Clearing(m)
    <3>1. Clearing(m)' => \E u \in Threads : Clears(u, m)'
      BY DEF Clearing, Clears, Clearers
    <3>2. (\E u \in Threads : Clears(u, m)) => Clearing(m)
      BY DEF Clearing, Clears, Clearers
    <3> QED BY <1>8, <3>1, <3>2
  <2>3. Hold(m) # {} => ~Clearing(m)
    <3>1. Clearing(m) => \E u \in Threads : Clears(u, m)
      BY DEF Clearing, Clears, Clearers
    <3> QED BY <1>1, <3>1, ClearersClaim
  <2>4. Orphan(m) => Orphan(m)'
    BY <1>6, <2>2 DEF Orphan
  <2>5. t \in Hold(m) => Orphan(m)'
    <3>1. t \in Hold(m) => Hold(m) # {} /\ m \in held[t]
      BY DEF Hold
    <3> QED BY <1>7, <2>2, <2>3, <3>1 DEF Orphan
  <2>6. ASSUME NEW u \in Hold(m), Orphan(m)', u # t PROVE Orphan(m)
    <3>1. ftx[m].tid = u
      BY <1>1, <2>6 DEF Hold, Owned, Claim
    <3>2. ftx'[m] = ftx[m]
      BY <1>5, <2>6, <3>1
    <3> QED BY <2>3, <2>6, <3>2 DEF Orphan
  <2> QED BY <2>1, <2>4, <2>5, <2>6
<1>10. Unmarked'
  <2> SUFFICES ASSUME NEW u \in Threads, pc'[u] \in Leaving PROVE ~ftx'[arg'[u]].died
    BY DEF Unmarked
  <2>1. u # t /\ pc[u] \in Leaving /\ arg'[u] = arg[u]
    BY <1>3, <1>4 DEF Leaving
  <2>2. arg[u] \in Mutexes /\ ftx[arg[u]].tid = u
    BY <1>1, <2>1 DEF Placed, Leaving, Owned, Claim, Removing
  <2> QED BY <1>5, <2>1, <2>2 DEF Unmarked
<1> QED BY <1>9, <1>10

\* The mutexes that other code locks with a0_mtx_lock.
Plain == Mutexes \ Deadmen

\* A step as the users see it.
Unseen == \A m \in Plain : SameHold(m) /\ SameOrphan(m)
Taken(t, m) == /\ Hold(m) = {} /\ Hold(m)' = {t} /\ SameOrphan(m)
               /\ \A n \in Plain : n # m => SameHold(n) /\ SameOrphan(n)
Given(t, m) == /\ Hold(m) = {t} /\ Hold(m)' = {} /\ ~Orphan(m)'
               /\ \A n \in Plain : n # m => SameHold(n) /\ SameOrphan(n)
Died(t) == \A m \in Plain : /\ Hold(m)' = Hold(m) \ {t}
                            /\ Orphan(m) \/ t \in Hold(m) => Orphan(m)'
                            /\ Hold(m) # {} /\ Orphan(m)' => Orphan(m) \/ t \in Hold(m)

(* Every step is unseen, or takes, gives back or loses a mutex. *)
LEMMA StepSeen ==
  ASSUME ~ForeignRelease, RInv, Unmarked, [Next]_vars
  PROVE  /\ \/ Unseen
            \/ \E t \in Threads : Died(t) \/ \E m \in Plain : Taken(t, m) \/ Given(t, m)
         /\ Unmarked'
PROOF
<1>1. TypeOK /\ Placed /\ Owned
  BY DEF RInv, QInv
<1>2. ASSUME Quiet PROVE Unseen /\ Unmarked'
  BY <1>1, <1>2, QuietSame DEF Unseen, Plain
<1>3. CASE UNCHANGED vars
  <2>1. Quiet
    BY <1>3 DEF vars, memory, local, ghost, Quiet, SameMark, Along
  <2> QED BY <1>2, <2>1
<1>4. ASSUME NEW t \in Threads,
             Calling(t) \/ Running(t) \/ LockTimeout(t) \/ WaitTimeout(t) \/ Die(t)
      PROVE  /\ \/ Unseen
                \/ Died(t) \/ \E m \in Plain : Taken(t, m) \/ Given(t, m)
             /\ Unmarked'
  <2>1. CASE \E m \in Mutexes : a0_mtx_unlock(t, m) \/ a0_cnd_timedwait(t, m)
    <3>1. PICK m \in Mutexes : a0_mtx_unlock(t, m) \/ a0_cnd_timedwait(t, m)
      BY <2>1
    <3>2. /\ m \in Plain /\ m \in held[t] /\ held' = [held EXCEPT ![t] = @ \ {m}]
          /\ pc[t] = "idle" /\ pc' = [pc EXCEPT ![t] = "unlink"] /\ arg' = [arg EXCEPT ![t] = m]
          /\ UNCHANGED ftx
      BY <3>1 DEF a0_mtx_unlock, a0_cnd_timedwait, Enter, Go, GoTo, memory, Plain
    <3> QED BY <1>1, <3>2, ReleaseGives DEF Given, Plain
  <2>2. CASE \E m \in Mutexes : a0_deadman_mtx_unlock(t, m)
    <3>1. PICK m \in Mutexes : a0_deadman_mtx_unlock(t, m)
      BY <2>2
    <3>2. /\ m \in Deadmen /\ m \in held[t] /\ held' = [held EXCEPT ![t] = @ \ {m}]
          /\ pc[t] = "idle" /\ pc' = [pc EXCEPT ![t] = "unlink"] /\ arg' = [arg EXCEPT ![t] = m]
          /\ UNCHANGED ftx
      BY <3>1 DEF a0_deadman_mtx_unlock, Enter, Go, GoTo, memory
    <3> QED BY <1>1, <3>2, ReleaseGives DEF Unseen, Plain
  <2>3. CASE AddBack(t)
    <3>1. PICK m \in Mutexes : /\ Hold(m) = {} /\ Hold(m)' = {t}
                               /\ \A n \in Mutexes : n # m => SameHold(n)
      BY <1>1, <2>3, AddBackTakes
    <3>2. Unmarked' /\ \A n \in Mutexes : SameOrphan(n)
      BY <1>1, <2>3, AddBackTakes
    <3>3. CASE m \in Deadmen
      BY <3>1, <3>2, <3>3 DEF Unseen, Plain
    <3>4. CASE m \notin Deadmen
      BY <3>1, <3>2, <3>4 DEF Taken, Plain
    <3> QED BY <3>3, <3>4
  <2>4. CASE ClearWord(t)
    BY <1>1, <2>4, ClearSame DEF Unseen, Plain
  <2>5. CASE Die(t)
    BY <2>5, DieOrphans DEF Died, Plain
  <2>6. CASE \/ LockCas(t) \/ a0_ftx_lock_pi(t) \/ TryCas(t) \/ a0_ftx_trylock_pi(t) \/ ReleaseCas(t)
             \/ a0_ftx_unlock_pi(t) \/ Requeue(t)
    BY <1>1, <1>2, <2>6, WordQuiet, GrantQuiet, RequeueQuiet
  <2>7. CASE \/ \E m \in Mutexes : \/ a0_mtx_timedlock(t, m) \/ a0_mtx_trylock(t, m)
                                   \/ a0_cnd_broadcast(t, m)
             \/ AddNode(t) \/ AddPublish(t) \/ DelNext(t) \/ DelPrev(t)
             \/ a0_robust_op_end(t) \/ WaitStart(t) \/ LockTimeout(t) \/ WaitTimeout(t)
             \/ a0_ftx_wait_requeue_pi(t) \/ RequeueAgain(t)
    BY <1>1, <1>2, <2>7, StepQuiet
  <2> QED BY <1>4, <2>1, <2>2, <2>3, <2>4, <2>5, <2>6, <2>7 DEF Calling, Running
<1> QED BY <1>3, <1>4 DEF Next

(* Seen from the users, such a step is one of Mutex. *)
LEMMA MtxStep ==
  ASSUME \/ Unseen
         \/ \E t \in Threads : Died(t) \/ \E m \in Plain : Taken(t, m) \/ Given(t, m)
  PROVE  Mtx!Next \/ UNCHANGED Mtx!mtxvars
PROOF
<1> DEFINE H == [m \in Plain |-> Hold(m)]
           O == [m \in Plain |-> Orphan(m)]
<1>1. /\ [m \in Mutexes \ Deadmen |-> {t \in Threads : m \in held[t]}] = H
      /\ [m \in Mutexes \ Deadmen |-> ftx[m].died /\ ~Clearing(m)] = O
      /\ [m \in Mutexes \ Deadmen |-> {t \in Threads : m \in held'[t]}] = H'
      /\ [m \in Mutexes \ Deadmen |-> ftx'[m].died /\ ~Clearing(m)'] = O'
  BY DEF Hold, Orphan, Plain
<1>2. Mtx!mtxvars = <<H, O>> /\ (Mtx!mtxvars = <<H, O>>)'
  BY <1>1 DEF Mtx!mtxvars
<1>3. ASSUME \A m \in Plain : SameOrphan(m) PROVE O' = O
  <2>1. \A m \in Plain : O'[m] = O[m]
    BY <1>3 DEF SameOrphan, Orphan
  <2> QED BY <2>1
<1>4. CASE Unseen
  <2>1. H' = H
    BY <1>4 DEF Unseen, SameHold
  <2> QED BY <1>2, <1>3, <1>4, <2>1 DEF Unseen
<1>5. ASSUME NEW t \in Threads, Died(t) PROVE Mtx!Next
  <2> DEFINE busy == {m \in Plain : Hold(m) = {} /\ Orphan(m)'}
  <2>1. H' = [m \in Plain |-> H[m] \ {t}]
    BY <1>5 DEF Died
  <2>2. \A m \in Plain : Orphan(m)' <=> Orphan(m) \/ t \in Hold(m) \/ m \in busy
    BY <1>5 DEF Died
  <2>3. PICK B \in SUBSET {m \in Plain : H[m] = {}} : B = busy
    OBVIOUS
  <2>4. O' = [m \in Plain |-> O[m] \/ t \in H[m] \/ m \in B]
    BY <2>2, <2>3 DEF Orphan
  <2>5. Mtx!Perish(t)
    <3> HIDE DEF H, O, busy
    <3> QED BY <1>1, <2>1, <2>3, <2>4 DEF Mtx!Perish, Plain
  <2> QED BY <2>5 DEF Mtx!Next
<1>6. ASSUME NEW t \in Threads, NEW m \in Plain, Taken(t, m) PROVE Mtx!Next
  <2>1. H[m] = {} /\ H' = [H EXCEPT ![m] = {t}]
    BY <1>6 DEF Taken, SameHold
  <2>2. O' = O
    BY <1>3, <1>6 DEF Taken
  <2>3. Mtx!Take(t, m)
    BY <1>1, <2>1, <2>2 DEF Mtx!Take, Plain
  <2> QED BY <2>3 DEF Mtx!Next, Plain
<1>7. ASSUME NEW t \in Threads, NEW m \in Plain, Given(t, m) PROVE Mtx!Next
  <2>1. H[m] = {t} /\ H' = [H EXCEPT ![m] = {}]
    BY <1>7 DEF Given, SameHold
  <2>2. O' = [O EXCEPT ![m] = FALSE]
    BY <1>7 DEF Given, SameOrphan, Orphan
  <2>3. Mtx!Give(t, m)
    BY <1>1, <2>1, <2>2 DEF Mtx!Give, Plain
  <2> QED BY <2>3 DEF Mtx!Next, Plain
<1> QED BY <1>4, <1>5, <1>6, <1>7

(* At the start every mutex is free and no owner has died. *)
LEMMA MtxInit == Init => Mtx!Init /\ Unmarked
PROOF
<1> SUFFICES ASSUME Init PROVE Mtx!Init /\ Unmarked
  OBVIOUS
<1>1. /\ \A t \in Threads : held[t] = {} /\ pc[t] = "idle"
      /\ \A m \in Mutexes : ~ftx[m].died
  BY Marks DEF Init
<1>2. [m \in Mutexes \ Deadmen |-> {t \in Threads : m \in held[t]}] = [m \in Mutexes \ Deadmen |-> {}]
  BY <1>1
<1>3. [m \in Mutexes \ Deadmen |-> ftx[m].died /\ ~Clearing(m)] = [m \in Mutexes \ Deadmen |-> FALSE]
  BY <1>1
<1> QED BY <1>1, <1>2, <1>3 DEF Mtx!Init, Unmarked, Leaving

(* The futex words, the queues, the requeues and the robust lists together    *)
(* are a robust mutex: one holder at a time, free at once when its holder     *)
(* dies, and marked as orphaned until a holder gives it back.  As above, each *)
(* thread releases what it took itself.                                       *)
THEOREM ImplementsMutex ==
  ASSUME ~ForeignRelease
  PROVE  Spec => MutexSpec
PROOF
<1>1. Init => RInv /\ Unmarked /\ Mtx!Init
  BY InitRInv, MtxInit
<1>2. RInv /\ Unmarked /\ [Next]_vars => RInv' /\ Unmarked'
  BY NextRInv, StepSeen
<1>3. RInv /\ Unmarked /\ [Next]_vars => [Mtx!Next]_(Mtx!mtxvars)
  BY StepSeen, MtxStep
<1> QED BY <1>1, <1>2, <1>3, PTL DEF Spec, MutexSpec, Mtx!Spec
=============================================================================
