---------------------------- MODULE MCRobustMtx ----------------------------
(* Small instances of RobustMtx for TLC. *)
EXTENDS RobustMtx, TLC

CONSTANTS a, b, c, mtx, dead

\* One thread uses both mutexes, the others only mtx.
OneListOfTwo == (mtx :> {a, b, c}) @@ (dead :> {a})
OneDeadman == (dead :> {a, b})
ThreadSymmetry == Permutations({b, c})

\* The links that an unlocked mutex keeps in its memory are never read before
\* a0_robust_op_add overwrites them: states that differ only there are one.
Stale(x) == ftx[x].tid = None /\ \A t \in Threads : pending[t] # x
LiveView ==
  <<ftx, cnd, pending, queue, sleepers, pc, op, arg, first, before, val, held, cut, deaths,
    [n \in Nodes |-> IF n \in Mutexes /\ Stale(n) THEN None ELSE next[n]],
    [n \in Nodes |-> IF n \in Mutexes /\ Stale(n) THEN None ELSE prev[n]]>>
=============================================================================
