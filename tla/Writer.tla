------------------------------- MODULE Writer -------------------------------
(***************************************************************************)
(* writer.c and middleware.c, and the interfaces that write through them:  *)
(* a0_publisher_pub, a0_logger_log, and the writes of cfg.c.               *)
(*                                                                         *)
(* A writer is a chain of middleware that ends in the write action.  A     *)
(* packet passes the chain twice: once without the transport's mutex,      *)
(* calling `process`, and, when the write action has taken the mutex, from *)
(* the head again calling `process_locked`.  A step is one middleware.     *)
(* The transport is the log of TransportLog; `log` keeps what was evicted, *)
(* as history.  Packets fit the arena (see README).                        *)
(***************************************************************************)
EXTENDS Integers, Sequences, FiniteSets, FiniteSetsExt

CONSTANTS
  Threads,    \* threads that write
  WriterOf,   \* the writer object that a thread uses, possibly shared
  Requests,   \* what may be written: records [kind, arg, level, headers]
  Bad,        \* a payload that is not JSON
  Null,       \* the JSON null
  MaxWrites,  \* bound: writes begun
  MaxTime     \* bound: ticks of the monotonic clock

ASSUME ConstantsAssumption ==
  /\ MaxWrites \in Nat /\ MaxTime \in Nat
  /\ \A r \in Requests : r.kind \in {"write", "log", "write_if_empty", "mergepatch"}

StandardKeys == {"a0_time_mono", "a0_time_wall", "a0_writer_id", "a0_writer_seq", "a0_transport_seq"}

\* The callers leave the standard headers to the library and log at the levels of log.h.
PlainRequests ==
  \A r \in Requests :
    /\ r.level \in 0..5
    /\ r.headers \in Seq(Range(r.headers))
    /\ \A i \in 1..Len(r.headers) : r.headers[i].key \notin StandardKeys

VARIABLES
  log,      \* the frames ever committed, with the request behind each
  owner,    \* the thread that holds the transport's mutex
  now,      \* the monotonic clock
  wseq,     \* the counter of a0_add_writer_seq_header, per writer
  writes,   \* writes begun
  req,      \* per thread: the request in progress
  pkt,      \* per thread: the packet as it has become so far
  at,       \* per thread: position in the chain, 0 when idle
  tlk,      \* per thread: the chain runs locked
  written   \* per thread: the answer of the last write_if_empty

vars == <<log, owner, now, wseq, writes, req, pkt, at, tlk, written>>

-----------------------------------------------------------------------------
(* Log levels.                                                             *)

LevelNames == <<"CRIT", "ERR", "WARN", "INFO", "DBG">>
UNKNOWN == 5

a0_log_level_name(level) == IF level \in 0..4 THEN LevelNames[level + 1] ELSE "UNKNOWN"

a0_log_level_from_name(name) ==
  IF \E l \in 0..4 : LevelNames[l + 1] = name
    THEN CHOOSE l \in 0..4 : LevelNames[l + 1] = name
    ELSE UNKNOWN

\* The values of a header, in the order a header iterator meets them.
Values(p, key) == LET at_(i) == p.headers[i].key = key
                  IN [i \in {j \in 1..Len(p.headers) : at_(j)} |-> p.headers[i].val]

FirstValue(p, key) == Values(p, key)[Min(DOMAIN Values(p, key))]

\* Whether a listener of the given level hears a packet.
a0_log_listener_callback(p, level) ==
  /\ DOMAIN Values(p, "a0_log_level") # {}
  /\ a0_log_level_from_name(FirstValue(p, "a0_log_level")) <= level

-----------------------------------------------------------------------------
(* Chains.                                                                 *)

\* Composed middleware run one after the other, in both passes.
a0_middleware_compose(first, second) == first \o second

a0_add_standard_headers ==
  LET tmp0 == a0_middleware_compose(<<"time_mono">>, <<"time_wall">>)
      tmp1 == a0_middleware_compose(tmp0, <<"writer_id">>)
      tmp2 == a0_middleware_compose(tmp1, <<"writer_seq">>)
  IN a0_middleware_compose(tmp2, <<"transport_seq">>)

\* a0_writer_init makes the write action, a0_writer_push puts middleware before it.
a0_publisher_init == a0_middleware_compose(a0_add_standard_headers, <<"write">>)

\* The wrapped writers of a0_cfg_write_if_empty and a0_cfg_mergepatch.
a0_writer_wrap(middleware, in) == <<middleware>> \o in

Chain(kind) ==
  IF kind \in {"write_if_empty", "mergepatch"}
    THEN a0_writer_wrap(kind, a0_publisher_init) ELSE a0_publisher_init

\* Mutant: the clock is read before the mutex is taken.
HasProcessEarlyClock == {"time_mono", "time_wall", "writer_id", "writer_seq", "write"}

\* Mutant: the original is read before the mutex is taken.
HasProcessEarlyMerge == {"mergepatch", "time_wall", "writer_id", "writer_seq", "write"}

\* Which of the two functions a middleware has.
HasProcess == {"time_wall", "writer_id", "writer_seq", "write"}
HasProcessLocked == {"time_mono", "transport_seq", "write_if_empty", "mergepatch", "write"}

\* Where a pass goes on from position i: middleware without a function for it are skipped.
a0_writer_write_impl(chain, i, locked) ==
  Min({j \in i..Len(chain) : chain[j] \in (IF locked THEN HasProcessLocked ELSE HasProcess)})

Here(t) == Chain(req[t].kind)[at[t]]
Onward(t) == at' = [at EXCEPT ![t] = a0_writer_write_impl(Chain(req[t].kind), at[t] + 1, tlk[t])]

Init ==
  /\ log = <<>> /\ owner = {} /\ now = 0 /\ writes = 0
  /\ wseq = [w \in {WriterOf[t] : t \in Threads} |-> 0]
  /\ req \in [Threads -> {CHOOSE r \in Requests : TRUE}]
  /\ pkt = [t \in Threads |-> [headers |-> <<>>, payload |-> Bad]]
  /\ at = [t \in Threads |-> 0]
  /\ tlk = [t \in Threads |-> FALSE]
  /\ written = [t \in Threads |-> FALSE]

Header(key, val) == [key |-> key, val |-> val]

\* a0_logger_log puts the level in front of the caller's headers.
a0_logger_log(r) == <<Header("a0_log_level", a0_log_level_name(r.level))>> \o r.headers

a0_writer_write(t) ==
  /\ at[t] = 0 /\ writes < MaxWrites
  /\ writes' = writes + 1
  /\ \E r \in Requests :
       /\ req' = [req EXCEPT ![t] = r]
       /\ pkt' = [pkt EXCEPT ![t] =
                    [headers |-> IF r.kind = "log" THEN a0_logger_log(r) ELSE r.headers, payload |-> r.arg]]
       /\ at' = [at EXCEPT ![t] = a0_writer_write_impl(Chain(r.kind), 1, FALSE)]
  /\ written' = [written EXCEPT ![t] = FALSE]
  /\ UNCHANGED <<log, owner, now, wseq, tlk>>

(* The header middleware: each prepends a block of one header.             *)
AddHeader(t, key, val) ==
  /\ pkt' = [pkt EXCEPT ![t].headers = <<Header(key, val)>> \o @]
  /\ Onward(t)
  /\ UNCHANGED <<log, owner, now, writes, req, tlk, written>>

a0_add_time_mono_header(t) ==
  at[t] # 0 /\ Here(t) = "time_mono" /\ AddHeader(t, "a0_time_mono", now) /\ UNCHANGED wseq

\* The wall clock may be set at any time: its value says nothing.
a0_add_time_wall_header(t) ==
  at[t] # 0 /\ Here(t) = "time_wall" /\ AddHeader(t, "a0_time_wall", 0) /\ UNCHANGED wseq

a0_add_writer_id_header(t) ==
  at[t] # 0 /\ Here(t) = "writer_id" /\ AddHeader(t, "a0_writer_id", WriterOf[t]) /\ UNCHANGED wseq

a0_add_writer_seq_header(t) ==
  /\ at[t] # 0 /\ Here(t) = "writer_seq"
  /\ AddHeader(t, "a0_writer_seq", wseq[WriterOf[t]])
  /\ wseq' = [wseq EXCEPT ![WriterOf[t]] = @ + 1]

\* The number of the last frame: the new one is not allocated yet.
a0_add_transport_seq_header(t) ==
  at[t] # 0 /\ Here(t) = "transport_seq" /\ AddHeader(t, "a0_transport_seq", Len(log)) /\ UNCHANGED wseq

\* Mutant: the mutex is kept.
LeaveLocked(t) ==
  /\ at' = [at EXCEPT ![t] = 0]
  /\ tlk' = [tlk EXCEPT ![t] = FALSE]
  /\ UNCHANGED <<log, owner, now, wseq, writes, req, pkt>>

\* Ends the write without a frame: the mutex is released.
Leave(t) ==
  /\ owner' = owner \ {t}
  /\ at' = [at EXCEPT ![t] = 0]
  /\ tlk' = [tlk EXCEPT ![t] = FALSE]
  /\ UNCHANGED <<log, now, wseq, writes, req, pkt>>

a0_write_if_empty(t) ==
  /\ at[t] # 0 /\ Here(t) = "write_if_empty"
  /\ written' = [written EXCEPT ![t] = log = <<>>]
  /\ \/ log # <<>> /\ Leave(t)
     \/ log = <<>> /\ Onward(t) /\ UNCHANGED <<log, owner, now, wseq, writes, req, pkt, tlk>>

\* The merge of RFC 7386 on flat objects, as yyjson_merge_patch does it.
yyjson_merge_patch(original, patch) ==
  LET kept == {k \in DOMAIN original \cup DOMAIN patch : k \in DOMAIN patch => patch[k] # Null}
  IN [k \in kept |-> IF k \in DOMAIN patch THEN patch[k] ELSE original[k]]

a0_json_mergepatch(t) ==
  /\ at[t] # 0 /\ Here(t) = "mergepatch"
  /\ UNCHANGED written
  /\ LET original == log[Len(log)].pkt.payload
         patch == pkt[t].payload
     IN \/ /\ log = <<>>
           /\ Onward(t)
           /\ UNCHANGED <<log, owner, now, wseq, writes, req, pkt, tlk>>
        \/ /\ log # <<>>
           /\ original = Bad \/ patch = Bad
           /\ Leave(t)
        \/ /\ log # <<>>
           /\ original # Bad /\ patch # Bad
           /\ pkt' = [pkt EXCEPT ![t].payload = yyjson_merge_patch(original, patch)]
           /\ Onward(t)
           /\ UNCHANGED <<log, owner, now, wseq, writes, req, tlk>>

\* The write action takes the mutex and starts the locked pass at the head.
a0_write_action_process(t) ==
  /\ at[t] # 0 /\ Here(t) = "write" /\ ~tlk[t]
  /\ owner = {}
  /\ owner' = {t}
  /\ tlk' = [tlk EXCEPT ![t] = TRUE]
  /\ at' = [at EXCEPT ![t] = a0_writer_write_impl(Chain(req[t].kind), 1, TRUE)]
  /\ UNCHANGED <<log, now, wseq, writes, req, pkt, written>>

\* Serialise, commit, unlock.
a0_write_action_process_locked(t) ==
  /\ at[t] # 0 /\ Here(t) = "write" /\ tlk[t]
  /\ log' = Append(log, [pkt |-> pkt[t], req |-> req[t], by |-> t])
  /\ owner' = owner \ {t}
  /\ at' = [at EXCEPT ![t] = 0]
  /\ tlk' = [tlk EXCEPT ![t] = FALSE]
  /\ UNCHANGED <<now, wseq, writes, req, pkt, written>>

Tick ==
  /\ now < MaxTime
  /\ now' = now + 1
  /\ UNCHANGED <<log, owner, wseq, writes, req, pkt, at, tlk, written>>

Step(t) ==
  \/ a0_add_time_mono_header(t) \/ a0_add_time_wall_header(t) \/ a0_add_writer_id_header(t)
  \/ a0_add_writer_seq_header(t) \/ a0_add_transport_seq_header(t)
  \/ a0_write_if_empty(t) \/ a0_json_mergepatch(t)
  \/ a0_write_action_process(t) \/ a0_write_action_process_locked(t)

Next == Tick \/ \E t \in Threads : a0_writer_write(t) \/ Step(t)

Done == writes = MaxWrites /\ now = MaxTime /\ (\A t \in Threads : at[t] = 0) /\ UNCHANGED vars

(* A thread inside a write goes on; the mutex has a queue, so a thread     *)
(* that keeps asking for it gets it.                                       *)
Spec == Init /\ [][Next \/ Done]_vars /\ \A t \in Threads : SF_vars(Step(t))

-----------------------------------------------------------------------------
(* Properties.                                                             *)

(* cfg.c promises atomic updates: a merge patch is applied to the very     *)
(* frame it follows, so that no concurrent update is lost; whatever else   *)
(* is written is written as it was given; a write_if_empty is the first    *)
(* frame or none, and its caller is told which.                            *)
UpdatesAreSerial ==
  /\ \A n \in 1..Len(log) :
       log[n].pkt.payload =
         IF log[n].req.kind = "mergepatch" /\ n > 1
           THEN yyjson_merge_patch(log[n - 1].pkt.payload, log[n].req.arg)
           ELSE log[n].req.arg
  /\ \A n \in 2..Len(log) : log[n].req.kind # "write_if_empty"
  /\ \A t \in Threads :
       at[t] = 0 /\ written[t] => log # <<>> /\ log[1].by = t /\ log[1].req = req[t]

(* Two passes over the chain leave each standard header exactly once.  The *)
(* writer's id and number name one frame, the transport's number is that   *)
(* of the frame before, the monotonic time never goes back along the log,  *)
(* whoever writes, and the listener of a level hears what was logged at    *)
(* that level or a graver one.                                             *)
HeadersTell ==
  \A n \in 1..Len(log) :
    LET p == log[n].pkt
        Id(q) == <<FirstValue(q, "a0_writer_id"), FirstValue(q, "a0_writer_seq")>>
    IN /\ \A key \in StandardKeys : Cardinality(DOMAIN Values(p, key)) = 1
       /\ FirstValue(p, "a0_transport_seq") = n - 1
       /\ \A k \in 1..n - 1 : Id(log[k].pkt) # Id(p)
       /\ n > 1 => FirstValue(log[n - 1].pkt, "a0_time_mono") <= FirstValue(p, "a0_time_mono")
       /\ log[n].req.kind = "log" =>
            \A level \in 0..4 : a0_log_listener_callback(p, level) <=> log[n].req.level <= level

(* Every write returns, on each of its paths with the mutex released, or   *)
(* else the next write would not.                                          *)
WriteReturns == \A t \in Threads : at[t] # 0 ~> at[t] = 0
=============================================================================
