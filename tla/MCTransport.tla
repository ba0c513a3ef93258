---------------------------- MODULE MCTransport ----------------------------
(***************************************************************************)
(* Small instances of Transport for TLC.  A process is named by its first  *)
(* thread; the closer k1 belongs to the process of the reader r1.          *)
(***************************************************************************)
EXTENDS TransportInv, TLC

CONSTANTS w1, r1, k1

MCConnOf == [t \in Threads |-> IF t = k1 THEN r1 ELSE t]
=============================================================================
