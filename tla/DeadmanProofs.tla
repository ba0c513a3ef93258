---------------------------- MODULE DeadmanProofs ----------------------------
(***************************************************************************)
(* Proofs about the deadman mutex, for any number of users, lockings and   *)
(* deaths, with and without delayed stores.                                *)
(*                                                                         *)
(* The word names a user exactly while that user is between its swap and   *)
(* the store that unlocks (Owning); so at most one user is about to        *)
(* increment the token, and the token of the current locking, once given,  *)
(* is the largest (Tokens).                                                *)
(***************************************************************************)
EXTENDS DeadmanMtx, FiniteSetTheorems, TLAPS

\* The operations that pass a point of the code.
OpsAt(l) ==
  IF l \in {"idle", "dead", "unlock"} THEN {"none"}
  ELSE IF l \in {"try", "cas", "bump", "bcast"} THEN {"lock", "try"}
  ELSE IF l = "tkn" THEN {"locked"}
  ELSE IF l = "cmp" THEN {"unlocked"}
  ELSE {"lock", "locked", "unlocked"}

Placed(u) ==
  /\ op[u] \in OpsAt(pc[u])
  /\ is_owner[u] => pc[u] # "dead" /\ (op[u] \notin {"lock", "try"} \/ pc[u] = "bcast")
  /\ pc[u] \in {"bcast", "unlock"} => is_owner[u]
  /\ pc[u] = "cas" => cur[u].tid = None

Owning(u) == ftx.tid = u <=> pc[u] = "bump" \/ (is_owner[u] /\ pc[u] # "unlock")

Tokens ==
  /\ \A e \in Epochs : /\ token_of[e] <= tkn
                       /\ token_of[e] # 0 => e <= epoch /\ (e = epoch => token_of[e] = tkn)
  /\ tkn <= epoch
  /\ \A u \in Users : pc[u] = "bump" => tkn < epoch

\* The lockings that may still come.
ToCome == {u \in Users : op[u] \in {"lock", "try"} /\ pc[u] \notin {"bump", "bcast"}}
InBound == epoch + Cardinality(ToCome) <= MaxEpochs

DInv ==
  /\ TypeOK /\ InBound /\ Tokens
  /\ ftx.died => ftx.tid = None
  /\ \A u \in Users : Placed(u) /\ Owning(u)

-----------------------------------------------------------------------------
(* Types. *)

(* The parts of a word. *)
LEMMA Words ==
  /\ Free \in Word /\ Free.tid = None /\ Free.died = FALSE
  /\ \A w \in Word : w.tid \in Users \cup {None} /\ w.waiters \in BOOLEAN /\ w.died \in BOOLEAN
  /\ \A u \in Users \cup {None}, b \in BOOLEAN, d \in BOOLEAN :
       [tid |-> u, waiters |-> b, died |-> d] \in Word
  /\ \A w \in Word : /\ [w EXCEPT !.waiters = TRUE] \in Word
                     /\ [w EXCEPT !.waiters = TRUE].tid = w.tid
                     /\ [w EXCEPT !.waiters = TRUE].died = w.died
PROOF
<1>1. Free \in Word /\ Free.tid = None /\ Free.died = FALSE
  BY DEF Word, Free
<1>2. \A w \in Word : w.tid \in Users \cup {None} /\ w.waiters \in BOOLEAN /\ w.died \in BOOLEAN
  BY DEF Word
<1>3. \A u \in Users \cup {None}, b \in BOOLEAN, d \in BOOLEAN :
        [tid |-> u, waiters |-> b, died |-> d] \in Word
  BY DEF Word
<1>4. \A w \in Word : /\ [w EXCEPT !.waiters = TRUE] \in Word
                      /\ [w EXCEPT !.waiters = TRUE].tid = w.tid
                      /\ [w EXCEPT !.waiters = TRUE].died = w.died
  BY DEF Word
<1> QED BY <1>1, <1>2, <1>3, <1>4

\* The types of what an operation works with, and of what only counts.
WorkTypes ==
  /\ shutdown \in [Users -> Flags] /\ inop \in [Users -> Flags] /\ is_owner \in [Users -> BOOLEAN]
  /\ pc \in [Users -> PCs] /\ op \in [Users -> Ops]
  /\ old \in [Users -> Word] /\ cur \in [Users -> Word] /\ tok \in [Users -> Nat]
  /\ closer \in [Users -> {"none", "spin", "done"}]
  /\ seen \in [Users -> Nat] /\ deaths \in Nat
CountTypes ==
  ftx \in Word /\ tkn \in 0..MaxEpochs /\ epoch \in 0..MaxEpochs /\ token_of \in [Epochs -> Nat]

(* Together they are the type invariant. *)
LEMMA TypeParts == (TypeOK <=> WorkTypes /\ CountTypes) /\ (TypeOK <=> WorkTypes /\ CountTypes)'
  BY DEF TypeOK, WorkTypes, CountTypes

(* Broadcasting and storing keep types. *)
LEMMA HelperTypes ==
  /\ \A f \in [Users -> PCs] : /\ Broadcast(f) \in [Users -> PCs]
                               /\ \A v \in Users : Broadcast(f)[v] = f[v] \/ (f[v] = "sleep" /\ Broadcast(f)[v] = "load")
  /\ \A f \in [Users -> Flags], u \in Users : Store(f, u) \in [Users -> Flags]
PROOF
<1>1. \A f \in [Users -> PCs] : /\ Broadcast(f) \in [Users -> PCs]
                                /\ \A v \in Users : Broadcast(f)[v] = f[v] \/ (f[v] = "sleep" /\ Broadcast(f)[v] = "load")
  <2>1. "load" \in PCs
    BY DEF PCs
  <2> QED BY <2>1 DEF Broadcast
<1>2. \A f \in [Users -> Flags], u \in Users : Store(f, u) \in [Users -> Flags]
  BY DEF Store, Flags
<1> QED BY <1>1, <1>2

(* Every step keeps the types of what operations work with. *)
LEMMA StepTypes ==
  ASSUME WorkTypes, CountTypes, NEW u \in Users,
         \/ Entering(u) \/ Running(u) \/ Timeout(u) \/ a0_deadman_mtx_unlock(u)
         \/ a0_deadman_mtx_shutdown(u) \/ ShutdownSpin(u) \/ Flush(u)
         \/ Die(u) \/ a0_deadman_mtx_init(u)
  PROVE  WorkTypes'
PROOF
<1> USE DeadmanAssumption DEF token, object, call, ghost, Go
<1>1. /\ {"idle", "dead", "load", "try", "cas", "bump", "bcast", "cmp", "tkn", "mark", "wait",
          "sleep", "unlock"} \subseteq PCs
      /\ {"none", "lock", "try", "locked", "unlocked"} \subseteq Ops
      /\ {"no", "yes"} \subseteq Flags
  BY DEF PCs, Ops, Flags
<1>2. /\ shutdown \in [Users -> Flags] /\ inop \in [Users -> Flags] /\ is_owner \in [Users -> BOOLEAN]
      /\ pc \in [Users -> PCs] /\ op \in [Users -> Ops]
      /\ old \in [Users -> Word] /\ cur \in [Users -> Word] /\ tok \in [Users -> Nat]
      /\ closer \in [Users -> {"none", "spin", "done"}]
      /\ seen \in [Users -> Nat] /\ deaths \in Nat
      /\ ftx \in Word /\ tkn \in Nat /\ epoch \in Nat
  BY DEF WorkTypes, CountTypes
<1>3. Free \in Word
  BY Words
<1>4. Return(u) => /\ pc' \in [Users -> PCs] /\ inop' \in [Users -> Flags]
                   /\ old' \in [Users -> Word] /\ cur' \in [Users -> Word] /\ op' \in [Users -> Ops]
  BY <1>1, <1>2, <1>3 DEF Return
<1>5. Busy(u) => /\ pc' \in [Users -> PCs] /\ inop' \in [Users -> Flags]
                 /\ old' \in [Users -> Word] /\ cur' \in [Users -> Word] /\ op' \in [Users -> Ops]
  BY <1>1, <1>2, <1>4 DEF Busy
<1>6. CASE Entering(u)
  <2>1. Store(inop, u) \in [Users -> Flags]
    BY <1>2, HelperTypes
  <2> QED BY <1>1, <1>2, <1>6, <2>1
        DEF WorkTypes, Entering, a0_deadman_mtx_timedlock, a0_deadman_mtx_trylock,
            a0_deadman_mtx_timedwait_locked, a0_deadman_mtx_timedwait_unlocked
<1>7. CASE LoadLock(u)
  BY <1>1, <1>2, <1>7 DEF WorkTypes, LoadLock
<1>8. CASE LoadLocked(u)
  <2>1. /\ pc' \in [Users -> PCs] /\ inop' \in [Users -> Flags] /\ seen' \in [Users -> Nat]
        /\ old' \in [Users -> Word] /\ cur' \in [Users -> Word] /\ op' \in [Users -> Ops]
    BY <1>1, <1>2, <1>4, <1>8 DEF LoadLocked
  <2> QED BY <1>2, <1>8, <2>1 DEF WorkTypes, LoadLocked
<1>9. CASE ReadToken(u)
  BY <1>2, <1>4, <1>9 DEF WorkTypes, ReadToken
<1>10. CASE LoadUnlocked(u)
  <2>1. /\ pc' \in [Users -> PCs] /\ inop' \in [Users -> Flags]
        /\ old' \in [Users -> Word] /\ cur' \in [Users -> Word] /\ op' \in [Users -> Ops]
    BY <1>1, <1>2, <1>4, <1>10 DEF LoadUnlocked
  <2> QED BY <1>2, <1>10, <2>1 DEF WorkTypes, LoadUnlocked
<1>11. CASE CompareToken(u)
  <2>1. /\ pc' \in [Users -> PCs] /\ inop' \in [Users -> Flags]
        /\ old' \in [Users -> Word] /\ cur' \in [Users -> Word] /\ op' \in [Users -> Ops]
    BY <1>1, <1>2, <1>4, <1>11 DEF CompareToken
  <2> QED BY <1>2, <1>11, <2>1 DEF WorkTypes, CompareToken
<1>12. CASE TryLoad(u)
  <2>1. /\ pc' \in [Users -> PCs] /\ inop' \in [Users -> Flags]
        /\ old' \in [Users -> Word] /\ cur' \in [Users -> Word] /\ op' \in [Users -> Ops]
    BY <1>1, <1>2, <1>4, <1>5, <1>12 DEF TryLoad
  <2> QED BY <1>2, <1>12, <2>1 DEF WorkTypes, TryLoad
<1>13. CASE TryCas(u)
  <2>1. /\ pc' \in [Users -> PCs] /\ inop' \in [Users -> Flags]
        /\ old' \in [Users -> Word] /\ cur' \in [Users -> Word] /\ op' \in [Users -> Ops]
    BY <1>1, <1>2, <1>5, <1>13 DEF TryCas
  <2> QED BY <1>2, <1>13, <2>1 DEF WorkTypes, TryCas
<1>14. CASE BumpToken(u)
  BY <1>1, <1>2, <1>14 DEF WorkTypes, BumpToken
<1>15. CASE LockDone(u)
  <2>1. Broadcast(pc) \in [Users -> PCs]
    BY <1>2, HelperTypes
  <2> QED BY <1>1, <1>2, <1>3, <1>15, <2>1 DEF WorkTypes, LockDone
<1>16. CASE Mark(u)
  <2>1. PICK w \in Word : w = [old[u] EXCEPT !.waiters = TRUE]
    BY <1>2, Words
  <2>2. old' \in [Users -> Word]
    <3>1. old' = [old EXCEPT ![u].waiters = TRUE] \/ old' = old
      BY <1>16 DEF Mark
    <3>2. [old EXCEPT ![u].waiters = TRUE] = [old EXCEPT ![u] = w]
      BY <1>2, <2>1
    <3>3. [old EXCEPT ![u] = w] \in [Users -> Word]
      BY <1>2
    <3> QED BY <1>2, <3>1, <3>2, <3>3, Zenon
  <2>3. pc' \in [Users -> PCs]
    BY <1>1, <1>2, <1>16 DEF Mark
  <2> QED BY <1>2, <1>16, <2>2, <2>3 DEF WorkTypes, Mark
<1>17. CASE a0_ftx_wait(u)
  BY <1>1, <1>2, <1>17 DEF WorkTypes, a0_ftx_wait
<1>18. CASE UnlockWake(u)
  <2>1. Broadcast(pc) \in [Users -> PCs]
    BY <1>2, HelperTypes
  <2> QED BY <1>1, <1>2, <1>18, <2>1 DEF WorkTypes, UnlockWake
<1>19. CASE Timeout(u)
  BY <1>2, <1>4, <1>19 DEF WorkTypes, Timeout
<1>20. CASE a0_deadman_mtx_unlock(u) \/ a0_deadman_mtx_init(u)
  BY <1>1, <1>2, <1>20 DEF WorkTypes, a0_deadman_mtx_unlock, a0_deadman_mtx_init
<1>21. CASE a0_deadman_mtx_shutdown(u)
  <2>1. Store(shutdown, u) \in [Users -> Flags]
    BY <1>2, HelperTypes
  <2> QED BY <1>2, <1>21, <2>1 DEF WorkTypes, a0_deadman_mtx_shutdown
<1>22. CASE ShutdownSpin(u)
  <2>1. Broadcast(pc) \in [Users -> PCs]
    BY <1>2, HelperTypes
  <2> QED BY <1>1, <1>2, <1>22, <2>1 DEF WorkTypes, ShutdownSpin
<1>23. CASE Flush(u)
  BY <1>1, <1>2, <1>23 DEF WorkTypes, Flush
<1>24. CASE Die(u)
  <2>1. pc' \in [Users -> PCs]
    <3>1. \/ pc' = [pc EXCEPT ![u] = "dead"]
          \/ \E v \in Users : pc' = [[pc EXCEPT ![u] = "dead"] EXCEPT ![v] = "load"]
      BY <1>24 DEF Die
    <3> QED BY <1>1, <1>2, <3>1
  <2>2. /\ deaths' = deaths + 1
        /\ shutdown' = [shutdown EXCEPT ![u] = "no"] /\ inop' = [inop EXCEPT ![u] = "no"]
        /\ is_owner' = [is_owner EXCEPT ![u] = FALSE]
        /\ op' = [op EXCEPT ![u] = "none"]
        /\ old' = [old EXCEPT ![u] = Free] /\ cur' = [cur EXCEPT ![u] = Free]
        /\ tok' = [tok EXCEPT ![u] = 0] /\ seen' = [seen EXCEPT ![u] = 0]
        /\ closer' = [closer EXCEPT ![u] = "none"]
    BY <1>24 DEF Die
  <2> QED BY <1>1, <1>2, <1>3, <2>1, <2>2 DEF WorkTypes
<1> QED BY <1>6, <1>7, <1>8, <1>9, <1>10, <1>11, <1>12, <1>13, <1>14, <1>15, <1>16, <1>17, <1>18,
           <1>19, <1>20, <1>21, <1>22, <1>23, <1>24 DEF Running

-----------------------------------------------------------------------------
(* Steps that lock nothing and unlock nothing. *)

\* The others go on, or are woken up.
Others(u) ==
  \A v \in Users \ {u} : /\ pc'[v] = pc[v] \/ (pc[v] = "sleep" /\ pc'[v] = "load")
                         /\ op'[v] = op[v] /\ cur'[v] = cur[v] /\ is_owner'[v] = is_owner[v]

\* Where such a step may lead.
Moves(u) ==
  \/ /\ pc'[u] = pc[u] \/ (pc[u] = "sleep" /\ pc'[u] = "load")
     /\ op'[u] = op[u] /\ cur'[u] = cur[u]
  \/ /\ pc[u] = "idle" /\ pc'[u] \in {"load", "try"} /\ op'[u] \in {"lock", "try"} /\ op'[u] \in OpsAt(pc'[u])
     /\ ~is_owner[u] /\ MayLock
  \/ pc[u] = "idle" /\ pc'[u] = "load" /\ op'[u] \in {"locked", "unlocked"}
  \/ /\ pc[u] \notin {"idle", "dead", "bump", "unlock"} /\ pc'[u] = "idle" /\ op'[u] = "none"
  \/ /\ pc[u] \in {"load", "cmp", "try", "cas", "mark", "wait"}
     /\ pc'[u] \in {"load", "cmp", "tkn", "try", "cas", "mark", "wait", "sleep"}
     /\ op'[u] = op[u] /\ op[u] \in OpsAt(pc'[u])
     /\ pc'[u] = "cas" => cur'[u].tid = None
  \/ pc[u] = "dead" /\ pc'[u] = "idle" /\ op'[u] = op[u]

Quiet(u) ==
  /\ Others(u) /\ Moves(u) /\ is_owner'[u] = is_owner[u]
  /\ ftx' \in Word /\ ftx'.tid = ftx.tid /\ ftx'.died = ftx.died
  /\ UNCHANGED <<tkn, epoch, token_of>>

(* Most steps are of this kind. *)
LEMMA QuietStep ==
  ASSUME TypeOK, NEW u \in Users, Placed(u),
         \/ Entering(u) \/ LoadLock(u) \/ LoadLocked(u) \/ ReadToken(u) \/ LoadUnlocked(u)
         \/ CompareToken(u) \/ TryLoad(u) \/ (TryCas(u) /\ ftx # cur[u]) \/ LockDone(u)
         \/ Mark(u) \/ a0_ftx_wait(u) \/ Timeout(u)
         \/ a0_deadman_mtx_shutdown(u) \/ ShutdownSpin(u) \/ Flush(u) \/ a0_deadman_mtx_init(u)
  PROVE  Quiet(u)
PROOF
<1> USE DeadmanAssumption DEF token, object, call, ghost, Go
<1>1. /\ is_owner \in [Users -> BOOLEAN] /\ pc \in [Users -> PCs] /\ op \in [Users -> Ops]
      /\ cur \in [Users -> Word] /\ ftx \in Word
  BY DEF TypeOK
<1>2. op[u] \in OpsAt(pc[u])
  BY DEF Placed
<1>3. ASSUME Return(u), is_owner' = is_owner, pc[u] \notin {"idle", "dead", "bump", "unlock"}
      PROVE  Others(u) /\ Moves(u) /\ is_owner'[u] = is_owner[u]
  BY <1>1, <1>3 DEF Return, Others, Moves
<1>4. ASSUME NEW l, pc' = [pc EXCEPT ![u] = l], op' = op, cur' = cur, is_owner' = is_owner,
             pc[u] \in {"load", "cmp", "try", "cas", "mark", "wait"}, op[u] \in OpsAt(l),
             l \in {"load", "cmp", "tkn", "try", "mark", "wait", "sleep"}
      PROVE  Others(u) /\ Moves(u) /\ is_owner'[u] = is_owner[u]
  BY <1>1, <1>4 DEF Others, Moves
<1>5. CASE Entering(u)
  <2>1. /\ op' \in {[op EXCEPT ![u] = o] : o \in {"lock", "try", "locked", "unlocked"}}
        /\ pc[u] = "idle" /\ UNCHANGED <<is_owner, ftx, tkn, epoch, token_of, cur>>
        /\ \/ pc' = [pc EXCEPT ![u] = "load"] /\ op' # [op EXCEPT ![u] = "try"]
           \/ pc' = [pc EXCEPT ![u] = "try"] /\ op' = [op EXCEPT ![u] = "try"]
        /\ op' \in {[op EXCEPT ![u] = o] : o \in {"lock", "try"}} => ~is_owner[u] /\ MayLock
    <3>1. \A o, x : o # x => [op EXCEPT ![u] = o] # [op EXCEPT ![u] = x]
      <4>1. \A o : [op EXCEPT ![u] = o][u] = o
        BY <1>1
      <4> QED BY <4>1
    <3>2. CASE a0_deadman_mtx_timedlock(u)
      BY <3>1, <3>2 DEF a0_deadman_mtx_timedlock
    <3>3. CASE a0_deadman_mtx_trylock(u)
      BY <3>3 DEF a0_deadman_mtx_trylock
    <3>4. CASE a0_deadman_mtx_timedwait_locked(u)
      BY <3>1, <3>4 DEF a0_deadman_mtx_timedwait_locked
    <3>5. CASE a0_deadman_mtx_timedwait_unlocked(u)
      BY <3>1, <3>5 DEF a0_deadman_mtx_timedwait_unlocked
    <3> QED BY <1>5, <3>2, <3>3, <3>4, <3>5 DEF Entering
  <2>2. PICK o \in {"lock", "try", "locked", "unlocked"} : op' = [op EXCEPT ![u] = o]
    BY <2>1
  <2>3. op'[u] = o /\ Others(u) /\ pc'[u] \in {"load", "try"} /\ (pc'[u] = "try" <=> o = "try")
    BY <1>1, <2>1, <2>2 DEF Others
  <2>4. Moves(u)
    BY <1>1, <2>1, <2>2, <2>3 DEF Moves, OpsAt
  <2> QED BY <1>1, <2>1, <2>3, <2>4 DEF Quiet
<1>6. CASE LoadLock(u)
  <2>1. op[u] \in OpsAt("try")
    BY <1>6 DEF LoadLock, OpsAt
  <2> QED BY <1>1, <1>4, <1>6, <2>1 DEF LoadLock, Quiet
<1>7. CASE LoadLocked(u)
  <2>1. op[u] \in OpsAt("tkn") /\ op[u] \in OpsAt("mark")
    BY <1>7 DEF LoadLocked, OpsAt
  <2> QED BY <1>1, <1>3, <1>4, <1>7, <2>1 DEF LoadLocked, Quiet
<1>8. CASE ReadToken(u)
  BY <1>1, <1>3, <1>8 DEF ReadToken, Quiet
<1>9. CASE LoadUnlocked(u)
  <2>1. op[u] \in OpsAt("cmp")
    BY <1>9 DEF LoadUnlocked, OpsAt
  <2> QED BY <1>1, <1>3, <1>4, <1>9, <2>1 DEF LoadUnlocked, Quiet
<1>10. CASE CompareToken(u)
  <2>1. op[u] \in OpsAt("mark")
    BY <1>2, <1>10 DEF CompareToken, OpsAt
  <2> QED BY <1>1, <1>3, <1>4, <1>10, <2>1 DEF CompareToken, Quiet
<1>11. ASSUME Busy(u), is_owner' = is_owner, pc[u] \in {"try", "cas"}
       PROVE  Others(u) /\ Moves(u) /\ is_owner'[u] = is_owner[u]
  <2>1. "lock" \in OpsAt("mark")
    BY DEF OpsAt
  <2> QED BY <1>3, <1>4, <1>11, <2>1 DEF Busy
<1>12. CASE TryLoad(u)
  <2>1. CASE ftx.tid = None /\ Go(u, "try", "cas") /\ cur' = [cur EXCEPT ![u] = ftx] /\ UNCHANGED op
    <3>1. op[u] \in OpsAt("cas")
      BY <1>2, <2>1 DEF OpsAt
    <3>2. Others(u) /\ Moves(u)
      BY <1>1, <1>12, <2>1, <3>1 DEF TryLoad, Others, Moves
    <3> QED BY <1>1, <1>12, <3>2 DEF TryLoad, Quiet
  <2>2. CASE Return(u) \/ Busy(u)
    BY <1>1, <1>3, <1>11, <1>12, <2>2 DEF TryLoad, Quiet
  <2> QED BY <1>12, <2>1, <2>2 DEF TryLoad
<1>13. CASE TryCas(u) /\ ftx # cur[u]
  BY <1>1, <1>11, <1>13 DEF TryCas, Quiet
<1>14. CASE LockDone(u)
  <2>1. /\ Broadcast(pc) \in [Users -> PCs]
        /\ \A v \in Users : Broadcast(pc)[v] = pc[v] \/ (pc[v] = "sleep" /\ Broadcast(pc)[v] = "load")
    BY <1>1, HelperTypes
  <2>2. Others(u) /\ Moves(u) /\ is_owner'[u] = is_owner[u]
    BY <1>1, <1>14, <2>1 DEF LockDone, Others, Moves
  <2> QED BY <1>1, <1>14, <2>2 DEF LockDone, Quiet
<1>15. CASE Mark(u)
  <2>1. op[u] \in OpsAt("wait") /\ op[u] \in OpsAt("load")
    BY <1>2, <1>15 DEF Mark, OpsAt
  <2>2. ftx' \in Word /\ ftx'.tid = ftx.tid /\ ftx'.died = ftx.died
    <3>1. PICK w \in Word : w = [ftx EXCEPT !.waiters = TRUE] /\ w.tid = ftx.tid /\ w.died = ftx.died
      BY <1>1, Words
    <3>2. ftx' = w \/ ftx' = ftx
      BY <1>15, <3>1 DEF Mark
    <3> QED BY <1>1, <3>1, <3>2
  <2> QED BY <1>4, <1>15, <2>1, <2>2 DEF Mark, Quiet
<1>16. CASE a0_ftx_wait(u)
  <2>1. op[u] \in OpsAt("sleep") /\ op[u] \in OpsAt("load")
    BY <1>2, <1>16 DEF a0_ftx_wait, OpsAt
  <2> QED BY <1>1, <1>4, <1>16, <2>1 DEF a0_ftx_wait, Quiet
<1>17. CASE Timeout(u)
  BY <1>1, <1>3, <1>17 DEF Timeout, Quiet
<1>18. CASE a0_deadman_mtx_shutdown(u) \/ Flush(u)
  BY <1>1, <1>18 DEF a0_deadman_mtx_shutdown, Flush, Quiet, Others, Moves
<1>19. CASE ShutdownSpin(u)
  <2>1. \A v \in Users : Broadcast(pc)[v] = pc[v] \/ (pc[v] = "sleep" /\ Broadcast(pc)[v] = "load")
    BY <1>1, HelperTypes
  <2>2. pc' = Broadcast(pc) \/ pc' = pc
    BY <1>19 DEF ShutdownSpin
  <2>3. UNCHANGED <<op, cur, is_owner, ftx, tkn, epoch, token_of>>
    BY <1>19 DEF ShutdownSpin
  <2> QED BY <1>1, <2>1, <2>2, <2>3 DEF Quiet, Others, Moves
<1>20. CASE a0_deadman_mtx_init(u)
  BY <1>1, <1>20 DEF a0_deadman_mtx_init, Quiet, Others, Moves
<1> QED BY <1>5, <1>6, <1>7, <1>8, <1>9, <1>10, <1>12, <1>13, <1>14, <1>15, <1>16, <1>17, <1>18,
           <1>19, <1>20

(* The lockings to come, counted. *)
LEMMA ToComeCount ==
  ASSUME TypeOK
  PROVE  /\ IsFiniteSet(ToCome) /\ IsFiniteSet(ToCome')
         /\ Cardinality(ToCome) \in Nat /\ Cardinality(ToCome') \in Nat
         /\ ToCome' \subseteq ToCome => Cardinality(ToCome') <= Cardinality(ToCome)
         /\ \A u \in ToCome : u \notin ToCome' /\ ToCome' \subseteq ToCome =>
              Cardinality(ToCome') + 1 <= Cardinality(ToCome)
         /\ \A u \in Users : MayLock /\ ToCome' \subseteq ToCome \cup {u} =>
              epoch + Cardinality(ToCome') <= MaxEpochs
PROOF
<1> USE DeadmanAssumption
<1>1. /\ ToCome \subseteq Users /\ ToCome' \subseteq Users /\ IsFiniteSet(Users)
      /\ IsFiniteSet(ToCome) /\ IsFiniteSet(ToCome')
  BY FS_Subset DEF ToCome
<1>2. Cardinality(ToCome) \in Nat /\ Cardinality(ToCome') \in Nat
  BY <1>1, FS_CardinalityType
<1>3. ToCome' \subseteq ToCome => Cardinality(ToCome') <= Cardinality(ToCome)
  BY <1>1, FS_Subset
<1>4. ASSUME NEW u \in ToCome, u \notin ToCome', ToCome' \subseteq ToCome
      PROVE  Cardinality(ToCome') + 1 <= Cardinality(ToCome)
  <2>1. IsFiniteSet(ToCome \ {u}) /\ Cardinality(ToCome \ {u}) = Cardinality(ToCome) - 1
    BY <1>1, FS_RemoveElement
  <2>2. ToCome' \subseteq ToCome \ {u}
    BY <1>4
  <2>3. Cardinality(ToCome') <= Cardinality(ToCome \ {u})
    BY <2>1, <2>2, FS_Subset
  <2> QED BY <1>2, <2>1, <2>3
<1>5. ASSUME NEW u \in Users, MayLock, ToCome' \subseteq ToCome \cup {u}
      PROVE  epoch + Cardinality(ToCome') <= MaxEpochs
  <2> DEFINE L == {v \in Users : op[v] \in {"lock", "try"}}
  <2>1. IsFiniteSet(L) /\ Cardinality(L) \in Nat /\ epoch + Cardinality(L) < MaxEpochs
    BY <1>1, <1>5, FS_Subset, FS_CardinalityType DEF MayLock
  <2>2. ToCome' \subseteq L \cup {u}
    BY <1>5 DEF ToCome
  <2> HIDE DEF L
  <2>3. /\ IsFiniteSet(L \cup {u}) /\ Cardinality(L \cup {u}) \in Nat
        /\ Cardinality(L \cup {u}) <= Cardinality(L) + 1
    <3>1. /\ IsFiniteSet(L \cup {u})
          /\ Cardinality(L \cup {u}) = IF u \in L THEN Cardinality(L) ELSE Cardinality(L) + 1
      BY <2>1, FS_AddElement
    <3> QED BY <2>1, <3>1
  <2>4. Cardinality(ToCome') <= Cardinality(L \cup {u})
    BY <2>2, <2>3, FS_Subset
  <2>5. epoch \in Nat
    BY DEF TypeOK
  <2> QED BY <1>2, <2>1, <2>3, <2>4, <2>5
<1> QED BY <1>1, <1>2, <1>3, <1>4, <1>5

(* They keep the invariant. *)
LEMMA QuietKeeps ==
  ASSUME DInv, NEW u \in Users, Quiet(u)
  PROVE  /\ InBound' /\ Tokens' /\ CountTypes' /\ (ftx'.died => ftx'.tid = None)
         /\ \A v \in Users : Placed(v)' /\ Owning(v)'
PROOF
<1> USE DeadmanAssumption
<1>1. /\ TypeOK /\ InBound /\ Tokens /\ (ftx.died => ftx.tid = None)
      /\ \A v \in Users : Placed(v) /\ Owning(v)
  BY DEF DInv
<1>2. CountTypes' /\ (ftx'.died => ftx'.tid = None)
  BY <1>1, TypeParts DEF Quiet, CountTypes
<1>3. ASSUME NEW v \in Users \ {u}
      PROVE  /\ Placed(v)' /\ Owning(v)' /\ (pc'[v] = "bump" => pc[v] = "bump")
             /\ v \in ToCome' => v \in ToCome
  BY <1>1 DEF Quiet, Others, Placed, Owning, ToCome, OpsAt
<1>4. Placed(u)' /\ Owning(u)' /\ (pc'[u] = "bump" => pc[u] = "bump")
  <2>1. Placed(u) /\ Owning(u) /\ Moves(u) /\ is_owner'[u] = is_owner[u] /\ ftx'.tid = ftx.tid
    BY <1>1 DEF Quiet
  <2> QED BY <2>1 DEF Moves, Placed, Owning, OpsAt
<1>5. u \in ToCome' => u \in ToCome \/ MayLock
  <2>1. Placed(u) /\ Moves(u)
    BY <1>1 DEF Quiet
  <2> QED BY <2>1 DEF Moves, Placed, OpsAt, ToCome
<1>6. Tokens'
  BY <1>1, <1>3, <1>4 DEF Tokens, Quiet
<1>7. InBound'
  <2>1. epoch' = epoch /\ epoch \in Nat /\ MaxEpochs \in Nat
    BY <1>1 DEF Quiet, TypeOK
  <2>2. ToCome' \subseteq ToCome \cup {u}
    BY <1>3 DEF ToCome
  <2>3. CASE u \in ToCome' /\ u \notin ToCome
    BY <1>1, <1>5, <2>1, <2>2, <2>3, ToComeCount DEF InBound
  <2>4. CASE u \notin ToCome' \/ u \in ToCome
    <3>1. ToCome' \subseteq ToCome
      BY <2>2, <2>4
    <3>2. Cardinality(ToCome') <= Cardinality(ToCome) /\ Cardinality(ToCome) \in Nat /\ Cardinality(ToCome') \in Nat
      BY <1>1, <3>1, ToComeCount
    <3> QED BY <1>1, <2>1, <3>2 DEF InBound
  <2> QED BY <2>3, <2>4
<1> QED BY <1>2, <1>3, <1>4, <1>6, <1>7

-----------------------------------------------------------------------------
(* Steps that lock, give a token, unlock or end a process. *)

(* The swap: the mutex was free, so nobody else is an owner. *)
LEMMA TakeKeeps ==
  ASSUME DInv, NEW u \in Users, TryCas(u), ftx = cur[u]
  PROVE  /\ InBound' /\ Tokens' /\ CountTypes' /\ (ftx'.died => ftx'.tid = None)
         /\ \A v \in Users : Placed(v)' /\ Owning(v)'
PROOF
<1> USE DeadmanAssumption DEF token, object, call, ghost, Go
<1>1. /\ TypeOK /\ InBound /\ Tokens
      /\ \A v \in Users : Placed(v) /\ Owning(v)
  BY DEF DInv
<1>2. /\ pc \in [Users -> PCs] /\ ftx \in Word /\ cur[u] \in Word /\ tkn \in Nat /\ epoch \in Nat
      /\ token_of \in [Epochs -> Nat] /\ MaxEpochs \in Nat /\ tkn \in 0..MaxEpochs
  BY <1>1 DEF TypeOK
<1>3. /\ pc[u] = "cas" /\ pc' = [pc EXCEPT ![u] = "bump"] /\ epoch' = epoch + 1
      /\ ftx' = [tid |-> u, waiters |-> cur[u].waiters, died |-> FALSE]
      /\ UNCHANGED <<op, cur, is_owner, tkn, token_of>>
  BY DEF TryCas
<1>4. ftx' \in Word /\ ftx'.tid = u /\ ftx'.died = FALSE
  <2>1. cur[u].waiters \in BOOLEAN
    BY <1>2, Words
  <2>2. [tid |-> u, waiters |-> cur[u].waiters, died |-> FALSE] \in Word
    BY <2>1, Words
  <2> QED BY <1>3, <2>2
<1>5. ftx.tid = None /\ pc'[u] = "bump" /\ \A v \in Users \ {u} : pc'[v] = pc[v]
  BY <1>1, <1>2, <1>3 DEF Placed
<1>6. ASSUME NEW v \in Users PROVE Placed(v)' /\ Owning(v)'
  <2>1. Placed(v) /\ Owning(v)
    BY <1>1
  <2>2. CASE v = u
    BY <1>3, <1>4, <1>5, <2>1, <2>2 DEF Placed, Owning, OpsAt
  <2>3. CASE v # u
    BY <1>3, <1>4, <1>5, <2>1, <2>3 DEF Placed, Owning
  <2> QED BY <2>2, <2>3
<1>7. Tokens'
  <2>1. ASSUME NEW e \in Epochs
        PROVE  /\ token_of'[e] <= tkn'
               /\ token_of'[e] # 0 => e <= epoch' /\ (e = epoch' => token_of'[e] = tkn')
    <3>1. e \in Nat /\ token_of[e] <= tkn /\ (token_of[e] # 0 => e <= epoch)
      BY <1>1, <1>2 DEF Tokens, Epochs
    <3> QED BY <1>2, <1>3, <3>1
  <2>2. tkn' <= epoch' /\ tkn' < epoch'
    BY <1>1, <1>2, <1>3 DEF Tokens
  <2> QED BY <2>1, <2>2 DEF Tokens
<1>8. InBound' /\ epoch' \in 0..MaxEpochs
  <2>1. u \in ToCome /\ u \notin ToCome' /\ ToCome' \subseteq ToCome
    BY <1>1, <1>3, <1>5 DEF ToCome, Placed, OpsAt
  <2>2. /\ Cardinality(ToCome') + 1 <= Cardinality(ToCome)
        /\ Cardinality(ToCome) \in Nat /\ Cardinality(ToCome') \in Nat
    BY <1>1, <2>1, ToComeCount
  <2>3. epoch + Cardinality(ToCome) <= MaxEpochs
    BY <1>1 DEF InBound
  <2>4. epoch' + Cardinality(ToCome') <= MaxEpochs
    BY <1>2, <1>3, <2>2, <2>3
  <2> QED BY <1>2, <1>3, <2>2, <2>4 DEF InBound
<1>9. CountTypes'
  BY <1>2, <1>3, <1>4, <1>8 DEF CountTypes, Epochs
<1> QED BY <1>4, <1>6, <1>7, <1>8, <1>9

(* _tkn++: only the user that the word names is there. *)
LEMMA BumpKeeps ==
  ASSUME DInv, NEW u \in Users, BumpToken(u)
  PROVE  /\ InBound' /\ Tokens' /\ CountTypes' /\ (ftx'.died => ftx'.tid = None)
         /\ \A v \in Users : Placed(v)' /\ Owning(v)'
PROOF
<1> USE DeadmanAssumption DEF token, object, call, ghost, Go
<1>1. /\ TypeOK /\ InBound /\ Tokens /\ (ftx.died => ftx.tid = None)
      /\ \A v \in Users : Placed(v) /\ Owning(v)
  BY DEF DInv
<1>2. /\ pc \in [Users -> PCs] /\ ftx \in Word /\ tkn \in Nat /\ epoch \in 0..MaxEpochs
      /\ is_owner \in [Users -> BOOLEAN] /\ token_of \in [Epochs -> Nat] /\ MaxEpochs \in Nat
  BY <1>1 DEF TypeOK
<1>3. /\ pc[u] = "bump" /\ pc' = [pc EXCEPT ![u] = "bcast"] /\ tkn' = tkn + 1
      /\ is_owner' = [is_owner EXCEPT ![u] = TRUE]
      /\ token_of' = [token_of EXCEPT ![epoch] = tkn + 1]
      /\ UNCHANGED <<ftx, op, cur, epoch>>
  BY DEF BumpToken
<1>4. tkn < epoch /\ epoch \in Epochs /\ ftx.tid = u
  BY <1>1, <1>2, <1>3 DEF Tokens, Epochs, Owning
<1>5. /\ pc'[u] = "bcast" /\ is_owner'[u] = TRUE
      /\ \A v \in Users \ {u} : pc'[v] = pc[v] /\ is_owner'[v] = is_owner[v] /\ pc[v] # "bump"
      /\ token_of'[epoch] = tkn + 1 /\ \A e \in Epochs \ {epoch} : token_of'[e] = token_of[e]
      /\ token_of' \in [Epochs -> Nat]
  BY <1>1, <1>2, <1>3, <1>4 DEF Owning
<1>6. ASSUME NEW v \in Users PROVE Placed(v)' /\ Owning(v)'
  <2>1. Placed(v) /\ Owning(v)
    BY <1>1
  <2>2. CASE v = u
    BY <1>3, <1>4, <1>5, <2>1, <2>2 DEF Placed, Owning, OpsAt
  <2>3. CASE v # u
    BY <1>3, <1>5, <2>1, <2>3 DEF Placed, Owning
  <2> QED BY <2>2, <2>3
<1>7. Tokens'
  <2>1. ASSUME NEW e \in Epochs
        PROVE  /\ token_of'[e] <= tkn'
               /\ token_of'[e] # 0 => e <= epoch' /\ (e = epoch' => token_of'[e] = tkn')
    <3>1. e \in Nat /\ token_of[e] \in Nat /\ token_of[e] <= tkn /\ (token_of[e] # 0 => e <= epoch)
      BY <1>1, <1>2 DEF Tokens, Epochs
    <3> QED BY <1>2, <1>3, <1>5, <3>1
  <2>2. tkn' <= epoch' /\ \A v \in Users : pc'[v] # "bump"
    BY <1>2, <1>3, <1>4, <1>5
  <2> QED BY <2>1, <2>2 DEF Tokens
<1>8. InBound'
  <2>1. ToCome' = ToCome
    BY <1>3, <1>5 DEF ToCome
  <2> QED BY <1>1, <1>3, <2>1 DEF InBound
<1>9. CountTypes'
  BY <1>2, <1>3, <1>4, <1>5 DEF CountTypes
<1> QED BY <1>1, <1>3, <1>6, <1>7, <1>8, <1>9

(* Unlocking: the word, then the wake-up and _is_owner. *)
LEMMA UnlockKeeps ==
  ASSUME DInv, NEW u \in Users, a0_deadman_mtx_unlock(u) \/ UnlockWake(u)
  PROVE  /\ InBound' /\ Tokens' /\ CountTypes' /\ (ftx'.died => ftx'.tid = None)
         /\ \A v \in Users : Placed(v)' /\ Owning(v)'
PROOF
<1> USE DeadmanAssumption DEF token, object, call, ghost, Go
<1>1. /\ TypeOK /\ InBound /\ Tokens /\ (ftx.died => ftx.tid = None)
      /\ \A v \in Users : Placed(v) /\ Owning(v)
  BY DEF DInv
<1>2. /\ pc \in [Users -> PCs] /\ ftx \in Word /\ is_owner \in [Users -> BOOLEAN]
  BY <1>1 DEF TypeOK
<1>3. /\ UNCHANGED <<op, cur, tkn, epoch, token_of>>
  BY DEF a0_deadman_mtx_unlock, UnlockWake
<1>4. /\ ftx' \in Word /\ (ftx'.died => ftx'.tid = None)
      /\ \A v \in Users : Placed(v)' /\ Owning(v)' /\ (pc'[v] = "bump" => pc[v] = "bump")
      /\ ToCome' \subseteq ToCome
  <2>1. CASE a0_deadman_mtx_unlock(u)
    <3>1. /\ pc[u] = "idle" /\ is_owner[u] /\ pc' = [pc EXCEPT ![u] = "unlock"]
          /\ ftx' = [tid |-> None, waiters |-> ftx.waiters, died |-> FALSE] /\ is_owner' = is_owner
      BY <2>1 DEF a0_deadman_mtx_unlock
    <3>2. ftx' \in Word /\ ftx'.tid = None /\ ftx'.died = FALSE
      <4>1. [tid |-> None, waiters |-> ftx.waiters, died |-> FALSE] \in Word
        BY <1>2, Words
      <4> QED BY <3>1, <4>1
    <3>3. ftx.tid = u /\ pc'[u] = "unlock" /\ \A v \in Users \ {u} : pc'[v] = pc[v]
      BY <1>1, <1>2, <3>1 DEF Owning
    <3>4. ASSUME NEW v \in Users PROVE Placed(v)' /\ Owning(v)' /\ (v \in ToCome' => v \in ToCome)
      <4>1. Placed(v) /\ Owning(v)
        BY <1>1
      <4>2. CASE v = u
        BY <1>3, <3>1, <3>2, <3>3, <4>1, <4>2 DEF Placed, Owning, OpsAt, ToCome
      <4>3. CASE v # u
        BY <1>3, <3>1, <3>2, <3>3, <4>1, <4>3 DEF Placed, Owning, ToCome
      <4> QED BY <4>2, <4>3
    <3> QED BY <3>2, <3>3, <3>4 DEF ToCome
  <2>2. CASE UnlockWake(u)
    <3>1. /\ pc[u] = "unlock" /\ pc' = [Broadcast(pc) EXCEPT ![u] = "idle"]
          /\ is_owner' = [is_owner EXCEPT ![u] = FALSE] /\ ftx' = ftx
      BY <2>2 DEF UnlockWake
    <3>2. /\ Broadcast(pc) \in [Users -> PCs]
          /\ \A v \in Users : Broadcast(pc)[v] = pc[v] \/ (pc[v] = "sleep" /\ Broadcast(pc)[v] = "load")
      BY <1>2, HelperTypes
    <3>3. /\ pc'[u] = "idle" /\ is_owner'[u] = FALSE
          /\ \A v \in Users \ {u} : /\ pc'[v] = pc[v] \/ (pc[v] = "sleep" /\ pc'[v] = "load")
                                    /\ is_owner'[v] = is_owner[v]
      BY <1>2, <3>1, <3>2
    <3>4. ASSUME NEW v \in Users PROVE Placed(v)' /\ Owning(v)' /\ (v \in ToCome' => v \in ToCome)
      <4>1. Placed(v) /\ Owning(v)
        BY <1>1
      <4>2. CASE v = u
        BY <1>3, <3>1, <3>3, <4>1, <4>2 DEF Placed, Owning, OpsAt, ToCome
      <4>3. CASE v # u
        BY <1>3, <3>1, <3>3, <4>1, <4>3 DEF Placed, Owning, OpsAt, ToCome
      <4> QED BY <4>2, <4>3
    <3> QED BY <1>1, <1>2, <3>1, <3>3, <3>4 DEF ToCome
  <2> QED BY <2>1, <2>2
<1>5. Tokens'
  BY <1>1, <1>3, <1>4 DEF Tokens
<1>6. InBound'
  <2>1. Cardinality(ToCome') <= Cardinality(ToCome) /\ Cardinality(ToCome) \in Nat /\ Cardinality(ToCome') \in Nat
    BY <1>1, <1>4, ToComeCount
  <2>2. epoch \in Nat /\ epoch' = epoch /\ epoch + Cardinality(ToCome) <= MaxEpochs
    BY <1>1, <1>3 DEF InBound, TypeOK
  <2> QED BY <2>1, <2>2 DEF InBound
<1>7. CountTypes'
  BY <1>1, <1>3, <1>4, TypeParts DEF CountTypes
<1> QED BY <1>4, <1>5, <1>6, <1>7

(* A death: the word is cleared if it names the dead process. *)
LEMMA DieKeeps ==
  ASSUME DInv, NEW u \in Users, Die(u)
  PROVE  /\ InBound' /\ Tokens' /\ CountTypes' /\ (ftx'.died => ftx'.tid = None)
         /\ \A v \in Users : Placed(v)' /\ Owning(v)'
PROOF
<1> USE DeadmanAssumption DEF token, object, call, ghost
<1>1. /\ TypeOK /\ InBound /\ Tokens /\ (ftx.died => ftx.tid = None)
      /\ \A v \in Users : Placed(v) /\ Owning(v)
  BY DEF DInv
<1>2. /\ pc \in [Users -> PCs] /\ ftx \in Word /\ is_owner \in [Users -> BOOLEAN]
      /\ op \in [Users -> Ops] /\ cur \in [Users -> Word]
  BY <1>1 DEF TypeOK
<1>3. /\ UNCHANGED <<tkn, epoch, token_of>> /\ is_owner' = [is_owner EXCEPT ![u] = FALSE]
      /\ op' = [op EXCEPT ![u] = "none"] /\ cur' = [cur EXCEPT ![u] = Free]
  BY DEF Die
<1>4. /\ pc'[u] = "dead"
      /\ \A v \in Users \ {u} : pc'[v] = pc[v] \/ (pc[v] = "sleep" /\ pc'[v] = "load")
  <2>1. \/ pc' = [pc EXCEPT ![u] = "dead"]
        \/ \E v \in Users \ {u} : pc[v] = "sleep" /\ pc' = [[pc EXCEPT ![u] = "dead"] EXCEPT ![v] = "load"]
    BY DEF Die
  <2> QED BY <1>2, <2>1
<1>5. /\ ftx' \in Word
      /\ ftx.tid = u => ftx'.tid = None
      /\ ftx.tid # u => ftx' = ftx
  <2>1. PICK w \in Word : w = [tid |-> None, waiters |-> ftx.waiters, died |-> TRUE] /\ w.tid = None
    <3>1. ftx.waiters \in BOOLEAN
      BY <1>2, Words
    <3>2. [tid |-> None, waiters |-> ftx.waiters, died |-> TRUE] \in Word
      BY <3>1, Words
    <3> QED BY <3>2
  <2>2. IF ftx.tid = u THEN ftx' = w ELSE ftx' = ftx
    BY <2>1 DEF Die
  <2> QED BY <1>2, <2>1, <2>2
<1>6. /\ is_owner'[u] = FALSE /\ op'[u] = "none"
      /\ \A v \in Users \ {u} : is_owner'[v] = is_owner[v] /\ op'[v] = op[v] /\ cur'[v] = cur[v]
  BY <1>2, <1>3
<1>7. ASSUME NEW v \in Users PROVE Placed(v)' /\ Owning(v)' /\ (v \in ToCome' => v \in ToCome)
  <2>1. Placed(v) /\ Owning(v)
    BY <1>1
  <2>2. CASE v = u
    BY <1>4, <1>5, <1>6, <2>2 DEF Placed, Owning, OpsAt, ToCome
  <2>3. CASE v # u
    BY <1>4, <1>5, <1>6, <2>1, <2>3 DEF Placed, Owning, OpsAt, ToCome
  <2> QED BY <2>2, <2>3
<1>8. Tokens'
  BY <1>1, <1>3, <1>4 DEF Tokens
<1>9. InBound'
  <2>1. ToCome' \subseteq ToCome
    BY <1>7 DEF ToCome
  <2>2. Cardinality(ToCome') <= Cardinality(ToCome) /\ Cardinality(ToCome) \in Nat /\ Cardinality(ToCome') \in Nat
    BY <1>1, <2>1, ToComeCount
  <2>3. epoch \in Nat /\ epoch' = epoch /\ epoch + Cardinality(ToCome) <= MaxEpochs
    BY <1>1, <1>3 DEF InBound, TypeOK
  <2> QED BY <2>2, <2>3 DEF InBound
<1>10. CountTypes'
  BY <1>1, <1>3, <1>5, TypeParts DEF CountTypes
<1>11. ftx'.died => ftx'.tid = None
  BY <1>1, <1>5
<1> QED BY <1>7, <1>8, <1>9, <1>10, <1>11

-----------------------------------------------------------------------------
(* The invariant. *)

(* Nobody has locked. *)
LEMMA InitDInv == Init => DInv
PROOF
<1> SUFFICES ASSUME Init PROVE DInv
  OBVIOUS
<1> USE DeadmanAssumption
<1>1. "idle" \in PCs /\ "none" \in Ops /\ "no" \in Flags /\ Free \in Word /\ Free.tid = None /\ Free.died = FALSE
  BY Words DEF PCs, Ops, Flags
<1>2. TypeOK
  BY <1>1 DEF Init, TypeOK
<1>3. \A u \in Users : Placed(u) /\ Owning(u)
  BY <1>1 DEF Init, Placed, Owning, OpsAt
<1>4. Tokens
  BY DEF Init, Tokens
<1>5. InBound
  <2>1. ToCome = {}
    BY DEF Init, ToCome
  <2> QED BY <2>1, FS_EmptySet DEF Init, InBound
<1> QED BY <1>1, <1>2, <1>3, <1>4, <1>5 DEF DInv, Init

(* Every step keeps it. *)
LEMMA NextDInv == DInv /\ [Next]_vars => DInv'
PROOF
<1> SUFFICES ASSUME DInv, [Next]_vars PROVE DInv'
  OBVIOUS
<1>1. /\ TypeOK /\ WorkTypes /\ CountTypes /\ InBound /\ Tokens /\ (ftx.died => ftx.tid = None)
      /\ \A u \in Users : Placed(u) /\ Owning(u)
  BY TypeParts DEF DInv
<1>2. CASE UNCHANGED vars
  <2>1. UNCHANGED <<ftx, tkn, shutdown, inop, is_owner, pc, op, old, cur, tok, closer, epoch, token_of, seen, deaths>>
    BY <1>2 DEF vars, token, object, call, ghost
  <2> QED BY <1>1, <2>1 DEF DInv, TypeOK, InBound, ToCome, Tokens, Placed, Owning
<1>3. ASSUME NEW u \in Users,
             \/ Entering(u) \/ Running(u) \/ Timeout(u) \/ a0_deadman_mtx_unlock(u)
             \/ a0_deadman_mtx_shutdown(u) \/ ShutdownSpin(u) \/ Flush(u)
             \/ Die(u) \/ a0_deadman_mtx_init(u)
      PROVE  DInv'
  <2>1. WorkTypes'
    BY <1>1, <1>3, StepTypes
  <2>2. /\ InBound' /\ Tokens' /\ CountTypes' /\ (ftx'.died => ftx'.tid = None)
        /\ \A v \in Users : Placed(v)' /\ Owning(v)'
    <3>1. CASE \/ Entering(u) \/ LoadLock(u) \/ LoadLocked(u) \/ ReadToken(u) \/ LoadUnlocked(u)
               \/ CompareToken(u) \/ TryLoad(u) \/ (TryCas(u) /\ ftx # cur[u]) \/ LockDone(u)
               \/ Mark(u) \/ a0_ftx_wait(u) \/ Timeout(u)
               \/ a0_deadman_mtx_shutdown(u) \/ ShutdownSpin(u) \/ Flush(u) \/ a0_deadman_mtx_init(u)
      BY <1>1, <3>1, QuietStep, QuietKeeps
    <3>2. CASE TryCas(u) /\ ftx = cur[u]
      BY <3>2, TakeKeeps
    <3>3. CASE BumpToken(u)
      BY <3>3, BumpKeeps
    <3>4. CASE a0_deadman_mtx_unlock(u) \/ UnlockWake(u)
      BY <3>4, UnlockKeeps
    <3>5. CASE Die(u)
      BY <3>5, DieKeeps
    <3> QED BY <1>3, <3>1, <3>2, <3>3, <3>4, <3>5 DEF Running
  <2> QED BY <2>1, <2>2, TypeParts DEF DInv
<1> QED BY <1>2, <1>3 DEF Next

(* The word, the objects and the tokens agree, whoever dies when, and the     *)
(* counters stay within their bounds.                                         *)
THEOREM DeadmanInvariant == Spec => []DInv
PROOF
<1>1. Init => DInv
  BY InitDInv
<1>2. DInv /\ [Next]_vars => DInv'
  BY NextDInv
<1> QED BY <1>1, <1>2, PTL DEF Spec

(* The word names a user exactly from the swap that locks to the store that  *)
(* unlocks, so no two users of a deadman mutex own it.                       *)
THEOREM OwnersExact == Spec => []OwnerExact
PROOF
<1>1. DInv => OwnerExact
  <2> SUFFICES ASSUME DInv PROVE OwnerExact
    OBVIOUS
  <2>1. \A u \in Users : Owning(u)
    BY DEF DInv
  <2>2. ftx.tid # None => ftx.tid \in Users
    BY Words DEF DInv, TypeOK
  <2> QED BY <2>1, <2>2 DEF OwnerExact, DInv, Owning
<1> QED BY <1>1, DeadmanInvariant, PTL

(* _tkn++ is a plain read and write; since only the owner executes it, two   *)
(* lockings never share a token, and a later one has a larger one.           *)
THEOREM TokensGrow == Spec => []TokensDistinct
PROOF
<1>1. TokensDistinct /\ DInv /\ [Next]_vars => TokensDistinct'
  <2> SUFFICES ASSUME TokensDistinct, DInv, [Next]_vars PROVE TokensDistinct'
    OBVIOUS
  <2>1. token_of' = token_of \/ \E u \in Users : BumpToken(u)
    BY DEF Next, vars, token, object, call, ghost, Entering, a0_deadman_mtx_timedlock, a0_deadman_mtx_trylock,
            a0_deadman_mtx_timedwait_locked, a0_deadman_mtx_timedwait_unlocked, Running, LoadLock, LoadLocked,
            ReadToken, LoadUnlocked, CompareToken, TryLoad, TryCas, LockDone, Mark, a0_ftx_wait, UnlockWake,
            Timeout, a0_deadman_mtx_unlock, a0_deadman_mtx_shutdown, ShutdownSpin, Flush, Die, a0_deadman_mtx_init
  <2>2. CASE token_of' = token_of
    BY <2>2 DEF TokensDistinct
  <2>3. ASSUME NEW u \in Users, BumpToken(u) PROVE TokensDistinct'
    <3>1. /\ token_of' = [token_of EXCEPT ![epoch] = tkn + 1] /\ token_of \in [Epochs -> Nat]
          /\ tkn \in Nat /\ epoch \in Nat
      BY <2>3 DEF BumpToken, DInv, TypeOK
    <3>2. \A e \in Epochs : token_of[e] <= tkn /\ (token_of[e] # 0 => e <= epoch) /\ e \in Nat /\ token_of[e] \in Nat
      BY <3>1 DEF DInv, Tokens, Epochs
    <3>3. ASSUME NEW d \in Epochs, NEW e \in Epochs, d < e, token_of'[d] # 0, token_of'[e] # 0
          PROVE  token_of'[d] < token_of'[e]
      <4>1. CASE e = epoch
        BY <3>1, <3>2, <3>3, <4>1
      <4>2. CASE e # epoch
        <5>1. token_of'[e] = token_of[e] /\ e <= epoch
          BY <3>1, <3>2, <3>3, <4>2
        <5>2. d # epoch
          BY <3>1, <3>2, <3>3, <5>1
        <5> QED BY <3>1, <3>3, <5>1, <5>2 DEF TokensDistinct
      <4> QED BY <4>1, <4>2
    <3> QED BY <3>3 DEF TokensDistinct
  <2> QED BY <2>1, <2>2, <2>3
<1>2. Init => TokensDistinct
  BY DEF Init, TokensDistinct
<1> QED BY <1>1, <1>2, DeadmanInvariant, PTL DEF Spec

(* a0_deadman_mtx_timedwait_unlocked reports success only when the locking    *)
(* that its token was given to is over, although it reads the word and the    *)
(* token one after the other.                                                 *)
THEOREM ReleasesAreOver == Spec => ReleasedIsOver
PROOF
<1> DEFINE Over == \A u \in Users, e \in Epochs :
                     /\ op[u] = "unlocked" /\ op'[u] = "none" /\ pc'[u] # "dead"
                     /\ pc[u] # "sleep" /\ shutdown[u] # "yes"
                     /\ token_of[e] # 0 /\ token_of[e] = tok[u]
                     => epoch > e \/ ~Locked(ftx)
<1>1. DInv /\ [Next]_vars => [Over]_vars
  <2> SUFFICES ASSUME DInv, Next, NEW u \in Users, NEW e \in Epochs,
                      op[u] = "unlocked", op'[u] = "none", pc'[u] # "dead", pc[u] # "sleep",
                      shutdown[u] # "yes", token_of[e] # 0, token_of[e] = tok[u]
               PROVE  epoch > e \/ ~Locked(ftx)
    OBVIOUS
  <2>1. op \in [Users -> Ops] /\ op[u] \in OpsAt(pc[u]) /\ pc \in [Users -> PCs]
    BY DEF DInv, TypeOK, Placed
  <2>2. pc[u] \in {"load", "cmp", "mark", "wait"}
    BY <2>1 DEF OpsAt, PCs
  <2>3. PICK v \in Users : \/ Entering(v) \/ Running(v) \/ Timeout(v) \/ a0_deadman_mtx_unlock(v)
                           \/ a0_deadman_mtx_shutdown(v) \/ ShutdownSpin(v) \/ Flush(v)
                           \/ Die(v) \/ a0_deadman_mtx_init(v)
    BY DEF Next
  <2>4. (LoadUnlocked(u) /\ ~Locked(ftx)) \/ (CompareToken(u) /\ tok[u] # tkn)
    <3> USE DEF token, object, call, ghost, Go, Return
    <3>1. v = u
      <4>1. op' = op \/ \E o : op' = [op EXCEPT ![v] = o]
        BY <2>3 DEF Entering, a0_deadman_mtx_timedlock, a0_deadman_mtx_trylock,
            a0_deadman_mtx_timedwait_locked, a0_deadman_mtx_timedwait_unlocked, Running, LoadLock, LoadLocked,
            ReadToken, LoadUnlocked, CompareToken, TryLoad, TryCas, Busy, BumpToken, LockDone, Mark, a0_ftx_wait,
            UnlockWake, Timeout, a0_deadman_mtx_unlock, a0_deadman_mtx_shutdown, ShutdownSpin, Flush, Die,
            a0_deadman_mtx_init
      <4> QED BY <2>1, <4>1
    <3>2. ~Entering(u) /\ ~Timeout(u) /\ ~a0_deadman_mtx_unlock(u) /\ ~a0_deadman_mtx_init(u)
      BY <2>2 DEF Entering, a0_deadman_mtx_timedlock, a0_deadman_mtx_trylock, Timeout, a0_deadman_mtx_unlock,
            a0_deadman_mtx_timedwait_locked, a0_deadman_mtx_timedwait_unlocked, a0_deadman_mtx_init
    <3>3. ~a0_deadman_mtx_shutdown(u) /\ ~ShutdownSpin(u) /\ ~Flush(u)
      BY DEF a0_deadman_mtx_shutdown, ShutdownSpin, Flush
    <3>4. ~Die(u)
      <4>1. ASSUME Die(u) PROVE pc'[u] = "dead"
        <5>1. \/ pc' = [pc EXCEPT ![u] = "dead"]
              \/ \E x \in Users \ {u} : pc' = [[pc EXCEPT ![u] = "dead"] EXCEPT ![x] = "load"]
          BY <4>1 DEF Die
        <5> QED BY <2>1, <5>1
      <4> QED BY <4>1
    <3>5. /\ ~LoadLock(u) /\ ~LoadLocked(u) /\ ~ReadToken(u) /\ ~TryLoad(u) /\ ~TryCas(u) /\ ~BumpToken(u)
          /\ ~LockDone(u) /\ ~Mark(u) /\ ~a0_ftx_wait(u) /\ ~UnlockWake(u)
      BY <2>2 DEF LoadLock, LoadLocked, ReadToken, TryLoad, TryCas, BumpToken, LockDone, Mark, a0_ftx_wait, UnlockWake
    <3>6. LoadUnlocked(u) => ~Locked(ftx)
      BY DEF LoadUnlocked
    <3>7. CompareToken(u) => tok[u] # tkn
      BY DEF CompareToken
    <3> QED BY <2>3, <3>1, <3>2, <3>3, <3>4, <3>5, <3>6, <3>7 DEF Running
  <2>5. e <= epoch /\ (e = epoch => token_of[e] = tkn) /\ e \in Nat /\ epoch \in Nat
    BY DEF DInv, Tokens, TypeOK, Epochs
  <2> QED BY <2>4, <2>5
<1> QED BY <1>1, DeadmanInvariant, PTL DEF Spec, ReleasedIsOver
=============================================================================
