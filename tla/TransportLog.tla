---------------------------- MODULE TransportLog ----------------------------
(***************************************************************************)
(* What the transport promises its users (include/a0/transport.h): a log   *)
(* of payloads numbered 1, 2, 3 ... of which a contiguous suffix is kept.  *)
(* A commit appends one payload, an eviction drops the oldest, a clear     *)
(* drops all of them.  The number of a payload is never used again, a kept *)
(* payload never changes, and the death of a process is not visible.       *)
(***************************************************************************)
EXTENDS Integers, FiniteSets

CONSTANT Data

VARIABLES
  frames,   \* the payloads that are kept, by sequence number
  last      \* the last sequence number committed

logvars == <<frames, last>>

Init == frames = [s \in {} |-> s] /\ last = 0

Append(d) ==
  /\ last' = last + 1
  /\ frames' = [s \in DOMAIN frames \cup {last + 1} |-> IF s = last + 1 THEN d ELSE frames[s]]

DropOldest ==
  \E s \in DOMAIN frames :
    /\ \A r \in DOMAIN frames : s <= r
    /\ frames' = [r \in DOMAIN frames \ {s} |-> frames[r]]
    /\ UNCHANGED last

Clear ==
  /\ frames' = [s \in {} |-> s]
  /\ UNCHANGED last

Next == (\E d \in Data : Append(d)) \/ DropOldest \/ Clear

Spec == Init /\ [][Next]_logvars
=============================================================================
