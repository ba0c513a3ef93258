---------------------------- MODULE MCDiscovery ----------------------------
(* A small instance of Discovery for TLC: two processes open the one file *)
(* /r/a/f, with different sizes; the pattern is /r/*/f.                   *)
EXTENDS Discovery

CONSTANTS p1, p2, top, r, a, f

MCPathTo == [x \in Files |-> <<r, a>>]
MCParentOf == [d \in Dirs \ {Top} |-> IF d = r THEN Top ELSE r]
MCSizeOf == [p \in Procs |-> IF p = p1 THEN 1 ELSE 2]
MCPrefix == <<Top, r>>
=============================================================================
