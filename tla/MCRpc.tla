------------------------------- MODULE MCRpc -------------------------------
(* Small instances of Rpc for TLC: both requests belong to one client. *)
EXTENDS Rpc

CONSTANTS i1, i2, c1

MCClientOf == [i \in Ids |-> c1]
=============================================================================
