--------------------------- MODULE MCDeadmanMtx ---------------------------
(* Small instances of DeadmanMtx for TLC. *)
EXTENDS DeadmanMtx, TLC

CONSTANTS a, b, c

\* a and b lock; they are interchangeable.
LockerSymmetry == Permutations({a, b})
=============================================================================
