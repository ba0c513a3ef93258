------------------------------ MODULE MCWriter ------------------------------
(* Small instances of Writer for TLC: two threads with one writer object. *)
EXTENDS Writer

CONSTANTS t1, t2, w, k1, k2

MCWriterOf == [t \in Threads |-> w]

Request(kind, arg) == [kind |-> kind, arg |-> arg, level |-> 0, headers |-> <<>>]

\* The logged packet brings a level header of its own.
MCRequests ==
  {Request("write", [k \in {k1} |-> 1]),
   Request("write", Bad),
   [kind |-> "log", arg |-> Bad, level |-> 2, headers |-> <<Header("a0_log_level", "CRIT")>>],
   Request("write_if_empty", [k \in {k2} |-> 1]),
   Request("mergepatch", [k \in {k2} |-> 2]),
   Request("mergepatch", [k \in {k1} |-> Null])}

ASSUME PlainAssumption == PlainRequests
=============================================================================
