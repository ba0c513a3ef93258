------------------------------- MODULE Reader -------------------------------
(***************************************************************************)
(* reader.c over the log that the transport keeps, with the interfaces     *)
(* that are built from it: pubsub.c, the listener of log.c, the reads and  *)
(* the watcher of cfg.c.                                                   *)
(*                                                                         *)
(* The transport is what TransportLog says: the frames low..high.  One     *)
(* reader is followed from the opening of its file to the closing of it;   *)
(* readers meet only in the transport, so one of them, of any kind, among  *)
(* writers that append, evict and clear is every case.  A step of the      *)
(* reader is one critical section of the transport's mutex.  A wait on the *)
(* transport is the step that comes after it, guarded by the predicate:    *)
(* Transport shows that no wake-up is lost.                                *)
(***************************************************************************)
EXTENDS Integers, Sequences, FiniteSets

CONSTANTS
  MaxSeq,     \* bound: frames written
  MaxClears   \* bound: clears

ASSUME BoundsAssumption == MaxSeq \in Nat /\ MaxClears \in Nat

VARIABLES
  low, high,         \* the transport keeps the frames low..high
  clears,            \* number of clears so far
  api,               \* the interface in use, with its options
  user,              \* where the thread that owns the reader is
  thread,            \* where the reader's own thread is
  mapped,            \* the file is mapped
  seq,               \* _seq of the reader's connection
  first_read_done,   \* of a synchronous reader
  started_empty,     \* of a threaded reader
  start_event,       \* _thread_start_event
  shutdown,          \* _shutdown of the connection
  got,               \* auxiliary: the frames handed to the user, in order
  begun,             \* auxiliary: the transport when the reader was placed
  promised           \* auxiliary: can_read said yes, nothing was read or emptied since

log == <<low, high, clears>>
conn == <<seq, first_read_done, started_empty, start_event, shutdown>>
aux == <<got, begun, promised>>
vars == <<log, api, user, thread, mapped, conn, aux>>

-----------------------------------------------------------------------------
(* The interfaces.                                                         *)

Inits == {"OLDEST", "MOST_RECENT", "AWAIT_NEW"}
Iters == {"NEXT", "NEWEST"}
Options == [init : Inits, iter : Iters]

Api(name, threaded, copies, opts) ==
  {[name |-> name, threaded |-> threaded, copies |-> copies, init |-> o.init, iter |-> o.iter] : o \in opts}

a0_subscriber_sync_zc == Api("subscriber_sync_zc", FALSE, FALSE, Options)
a0_subscriber_sync    == Api("subscriber_sync", FALSE, TRUE, Options)
a0_subscriber_zc      == Api("subscriber_zc", TRUE, FALSE, Options)
a0_subscriber         == Api("subscriber", TRUE, TRUE, Options)
a0_log_listener       == Api("log_listener", TRUE, TRUE, Options)
a0_cfg_read           == Api("cfg_read", FALSE, TRUE, {[init |-> "MOST_RECENT", iter |-> "NEXT"]})
a0_cfg_watcher        == Api("cfg_watcher", TRUE, TRUE, {[init |-> "MOST_RECENT", iter |-> "NEWEST"]})

Apis == a0_subscriber_sync_zc \cup a0_subscriber_sync \cup a0_subscriber_zc \cup a0_subscriber
          \cup a0_log_listener \cup a0_cfg_read \cup a0_cfg_watcher

-----------------------------------------------------------------------------
(* The transport as a reader sees it while it holds the mutex.             *)

Empty == high = 0 \/ low > high
IterValid == low <= seq /\ seq <= high

\* Mutant: the last frame does not count.
HasNextLate == ~Empty /\ seq + 1 < high

HasNext == ~Empty /\ seq < high
JumpHead == IF Empty THEN seq ELSE low
JumpTail == IF Empty THEN seq ELSE high
StepNext == IF ~HasNext THEN seq ELSE IF seq < low THEN low ELSE seq + 1

\* What follows a decision to move: the next frame, or the newest.
Step == IF api.iter = "NEXT" THEN StepNext ELSE JumpTail

Init ==
  /\ low = 0 /\ high = 0 /\ clears = 0
  /\ api \in Apis
  /\ user = "none" /\ thread = "none" /\ mapped = FALSE
  /\ seq = 0 /\ first_read_done = FALSE /\ started_empty = FALSE
  /\ start_event = FALSE /\ shutdown = FALSE
  /\ got = <<>> /\ begun = [low |-> 0, high |-> 0] /\ promised = FALSE

(* The writers: a commit appends a frame; an allocation evicts the oldest  *)
(* ones, each with a commit of its own; a clear drops them all and keeps   *)
(* seq_high.                                                               *)
Appended == high' = high + 1 /\ low' = IF low = 0 THEN 1 ELSE low
Evicted  == ~Empty /\ low' = low + 1 /\ UNCHANGED high
Cleared  == low' = high + 1 /\ UNCHANGED high

Write ==
  /\ high < MaxSeq
  /\ Appended
  /\ UNCHANGED <<clears, api, user, thread, mapped, conn, aux>>

\* The commit that follows makes up for the last frame, unless its writer dies before it.
Evict ==
  /\ Evicted
  /\ promised' = (promised /\ low < high)
  /\ UNCHANGED <<clears, api, user, thread, mapped, conn, got, begun>>

Clear ==
  /\ clears < MaxClears
  /\ Cleared
  /\ clears' = clears + 1 /\ promised' = FALSE
  /\ UNCHANGED <<api, user, thread, mapped, conn, got, begun>>

-----------------------------------------------------------------------------
(* Opening and closing: the file is mapped before the reader is made, and  *)
(* unmapped after the reader is closed.                                    *)

OpenTopic ==
  /\ user = "none"
  /\ user' = "opened" /\ mapped' = TRUE
  /\ UNCHANGED <<log, api, thread, conn, aux>>

CloseTopic ==
  /\ user = "reader_closed"
  /\ user' = "closed" /\ mapped' = FALSE
  /\ UNCHANGED <<log, api, thread, conn, aux>>

\* Mutant: a reader that awaits new frames starts before the last one.
PlacedEarly == IF api.init = "MOST_RECENT" THEN JumpTail ELSE JumpHead

Placed == IF api.init = "OLDEST" THEN JumpHead ELSE JumpTail

-----------------------------------------------------------------------------
(* The synchronous reader.                                                 *)

a0_reader_sync_zc_init ==
  /\ user = "opened" /\ ~api.threaded
  /\ seq' = Placed
  /\ begun' = [low |-> low, high |-> high]
  /\ user' = "ready"
  /\ UNCHANGED <<log, api, thread, mapped, first_read_done, started_empty, start_event, shutdown, got, promised>>

\* Mutant: only the frames are asked, not the position.
CanReadAny == ~Empty

CanRead == IF first_read_done \/ api.init = "AWAIT_NEW" THEN HasNext ELSE ~Empty

a0_reader_sync_zc_can_read ==
  /\ user = "ready" /\ ~api.threaded
  /\ promised' = CanRead
  /\ UNCHANGED <<log, api, user, thread, mapped, conn, got, begun>>

\* Mutant: the first read is not recorded.
DeliverAgain(s) ==
  /\ seq' = s
  /\ got' = Append(got, s)
  /\ promised' = FALSE
  /\ UNCHANGED <<log, api, thread, mapped, first_read_done, started_empty, start_event, shutdown, begun>>

\* read_helper after a successful alignment at s: the callback gets the frame.
Deliver(s) ==
  /\ seq' = s
  /\ first_read_done' = TRUE
  /\ got' = Append(got, s)
  /\ promised' = FALSE
  /\ UNCHANGED <<log, api, thread, mapped, started_empty, start_event, shutdown, begun>>

Fail ==
  /\ user' = "ready"
  /\ UNCHANGED <<log, api, thread, mapped, conn, aux>>

\* Mutant: the validity of the position is not asked.
ShouldStepBlind == first_read_done \/ api.init = "AWAIT_NEW"

\* An older reader moves on, a fresh one stays where it was placed if that frame is still there.
ShouldStep == first_read_done \/ api.init = "AWAIT_NEW" \/ ~IterValid

Again == Empty \/ ((first_read_done \/ api.init = "AWAIT_NEW") /\ ~HasNext)

a0_reader_sync_zc_read ==
  /\ user = "ready" /\ ~api.threaded
  /\ \/ Again /\ promised' = FALSE /\ UNCHANGED <<log, api, user, thread, mapped, conn, got, begun>>
     \/ /\ ~Again
        /\ Deliver(IF ShouldStep THEN Step ELSE seq)
        /\ UNCHANGED user

(* A blocking read waits for a frame, then, if it has to move, for one     *)
(* beyond its position.  The mutex is free during both waits.              *)
a0_reader_sync_zc_read_blocking ==
  /\ user = "ready" /\ ~api.threaded
  /\ user' = "nonempty"
  /\ UNCHANGED <<log, api, thread, mapped, conn, aux>>

AwaitNonempty ==
  /\ user = "nonempty" /\ ~Empty
  /\ \/ ~ShouldStep /\ Deliver(seq) /\ user' = "ready"
     \/ ShouldStep /\ HasNext /\ Deliver(Step) /\ user' = "ready"
     \/ /\ ShouldStep /\ ~HasNext
        /\ user' = "has_next"
        /\ UNCHANGED <<log, api, thread, mapped, conn, aux>>

AwaitHasNext ==
  /\ user = "has_next" /\ HasNext
  /\ Deliver(Step) /\ user' = "ready"

\* The deadline of a read with a timeout passes during either wait.
a0_reader_sync_zc_read_blocking_timeout ==
  /\ user \in {"nonempty", "has_next"}
  /\ Fail

a0_reader_sync_zc_close ==
  /\ user = "ready" /\ ~api.threaded
  /\ user' = "reader_closed" /\ promised' = FALSE
  /\ UNCHANGED <<log, api, thread, mapped, conn, got, begun>>

-----------------------------------------------------------------------------
(* The threaded reader.                                                    *)

a0_reader_zc_init ==
  /\ user = "opened" /\ api.threaded
  /\ started_empty' = Empty
  /\ seq' = IF Empty THEN seq ELSE Placed
  /\ begun' = [low |-> low, high |-> high]
  /\ user' = "ready" /\ thread' = "created"
  /\ UNCHANGED <<log, api, mapped, first_read_done, start_event, shutdown, got, promised>>

a0_reader_zc_thread_main ==
  /\ thread = "created"
  /\ thread' = "first" /\ start_event' = TRUE
  /\ UNCHANGED <<log, api, user, mapped, seq, first_read_done, started_empty, shutdown, aux>>

(* The callback of a zero-copy reader runs under the mutex.  That of a     *)
(* copying one gets a copy made under the mutex and runs without it.       *)
a0_reader_zc_thread_handle_pkt(s) ==
  /\ seq' = s
  /\ got' = Append(got, s)
  /\ thread' = IF api.copies THEN "callback" ELSE "next"
  /\ UNCHANGED <<log, api, user, mapped, first_read_done, started_empty, start_event, shutdown, begun, promised>>

Reset == started_empty \/ ~IterValid

a0_reader_zc_thread_handle_first_pkt ==
  /\ thread = "first" /\ ~shutdown /\ ~Empty
  /\ LET s == IF Reset THEN JumpHead ELSE seq IN
     \/ (Reset \/ api.init # "AWAIT_NEW") /\ a0_reader_zc_thread_handle_pkt(s)
     \/ /\ ~Reset /\ api.init = "AWAIT_NEW"
        /\ thread' = "next"
        /\ UNCHANGED <<log, api, user, mapped, conn, aux>>

a0_reader_zc_thread_handle_next_pkt ==
  /\ thread = "next" /\ ~shutdown /\ HasNext
  /\ a0_reader_zc_thread_handle_pkt(Step)

\* The wrapper's callback returns and the mutex is taken again.
a0_reader_onpacket_wrapper ==
  /\ thread = "callback"
  /\ thread' = "next"
  /\ UNCHANGED <<log, api, user, mapped, conn, aux>>

\* A wait that finds the connection shut down ends the thread.
ThreadExit ==
  /\ thread \in {"first", "next"} /\ shutdown
  /\ thread' = "done"
  /\ UNCHANGED <<log, api, user, mapped, conn, aux>>

(* Close waits for the thread to have started, shuts the connection down   *)
(* and joins the thread.                                                   *)
a0_reader_zc_close ==
  /\ user = "ready" /\ api.threaded /\ start_event
  /\ shutdown' = TRUE /\ user' = "joining"
  /\ UNCHANGED <<log, api, thread, mapped, seq, first_read_done, started_empty, start_event, aux>>

\* Mutant: close does not wait for the thread to end.
JoinNot ==
  /\ user = "joining"
  /\ user' = "reader_closed"
  /\ UNCHANGED <<log, api, thread, mapped, conn, aux>>

Join ==
  /\ user = "joining" /\ thread = "done"
  /\ user' = "reader_closed"
  /\ UNCHANGED <<log, api, thread, mapped, conn, aux>>

Stopped ==
  /\ user = "closed"
  /\ UNCHANGED vars

ThreadNext ==
  \/ a0_reader_zc_thread_main \/ a0_reader_zc_thread_handle_first_pkt
  \/ a0_reader_zc_thread_handle_next_pkt \/ a0_reader_onpacket_wrapper \/ ThreadExit

SyncNext ==
  \/ a0_reader_sync_zc_init \/ a0_reader_sync_zc_can_read \/ a0_reader_sync_zc_read
  \/ a0_reader_sync_zc_read_blocking \/ AwaitNonempty \/ AwaitHasNext
  \/ a0_reader_sync_zc_read_blocking_timeout \/ a0_reader_sync_zc_close

Next ==
  \/ Write \/ Evict \/ Clear \/ OpenTopic \/ CloseTopic \/ SyncNext
  \/ a0_reader_zc_init \/ ThreadNext \/ a0_reader_zc_close \/ Join \/ Stopped

(* A thread that can run runs: the reader's own, one inside a blocking     *)
(* read, one that closes.  Nobody has to write, read or close.             *)
Fairness ==
  /\ WF_vars(ThreadNext)
  /\ WF_vars(AwaitNonempty \/ AwaitHasNext)
  /\ WF_vars(Join)

Spec == Init /\ [][Next]_vars /\ Fairness

(* What this module takes the transport for: a log whose payloads are told *)
(* apart by their numbers.                                                 *)
Kept == IF Empty THEN {} ELSE low..high
Log == INSTANCE TransportLog WITH Data <- Nat, frames <- [s \in Kept |-> s], last <- high
LogSpec == Log!Spec

-----------------------------------------------------------------------------
(* Properties.                                                             *)

(* No frame is handed out twice or after a later one, whatever is evicted  *)
(* or cleared between the placing of the reader and its reads.             *)
InOrder == \A i \in 1..Len(got) - 1 : got[i] < got[i + 1]

(* A frame handed out is one that the transport keeps at that moment, so   *)
(* a0_transport_frame, whose error reader.c ignores, never fails.  And     *)
(* "ITER_NEXT: when you don't want to miss a thing" (reader.h): a frame is *)
(* passed over only when it is gone.                                       *)
NothingSkipped ==
  [][got' # got =>
       /\ got'[Len(got')] \in low..high
       /\ api.iter = "NEXT" /\ got # <<>>
            => \A s \in (got[Len(got)] + 1)..(got'[Len(got')] - 1) : s < low]_vars

\* The frame the init policy names, of the log that the reader was placed over.
Wanted ==
  CASE api.init = "OLDEST"      -> begun.low
    [] api.init = "MOST_RECENT" -> begun.high
    [] api.init = "AWAIT_NEW"   -> begun.high + 1

\* It, or the oldest of the later frames that are kept.
Nearest == IF Wanted < low THEN low ELSE Wanted

\* With ITER_NEWEST these go for the newest frame at once.
StartsNewest ==
  api.iter = "NEWEST" /\ (api.init = "AWAIT_NEW" \/ (~api.threaded /\ (begun.low > begun.high \/ Wanted < low)))

(* The first frame is the one the init policy names (reader.h), or, if it  *)
(* is gone or was not there yet, the oldest one kept after it, whatever is *)
(* written, evicted and cleared in between.  With ITER_NEWEST it may be    *)
(* the newest instead, for a reader that awaits new frames, and for a      *)
(* synchronous one whose frame is gone or was not there, although older    *)
(* ones are kept.                                                          *)
StartsAsAsked ==
  [][got' # got /\ got = <<>> =>
       \/ got'[1] = Nearest
       \/ StartsNewest /\ got'[1] = high]_vars

(* "INIT_OLDEST: Start with the oldest message still in available in the   *)
(* transport" (reader.h:26).  A synchronous reader with ITER_NEWEST whose  *)
(* position was evicted before its first read jumps to the newest one.     *)
OldestAvailable ==
  [][got' # got /\ got = <<>> /\ api.init = "OLDEST" => got'[1] = Nearest]_vars

(* The file stays mapped until nothing can touch the transport any more:   *)
(* neither the reader's thread, nor a callback, nor a blocked read.        *)
MappedWhileUsed ==
  user \in {"opened", "ready", "nonempty", "has_next", "joining", "reader_closed"}
    \/ thread \in {"created", "first", "next", "callback"} => mapped

(* A yes from can_read is kept by the next read: reader.h loops over       *)
(* can_read and read.  Only a clear in between takes the frame away, or a  *)
(* writer that dies after it evicted every frame to make room for its own. *)
PromiseKept == promised /\ user = "ready" => ~Again

(* A threaded reader that moves frame by frame hands out every frame that  *)
(* is neither evicted, nor cleared, nor overtaken by the close.            *)
NewFrameArrives ==
  \A s \in 1..MaxSeq :
    (thread = "next" /\ high = s /\ low <= s /\ seq < s)
      ~> ((got # <<>> /\ got[Len(got)] >= s) \/ low > s \/ shutdown)
=============================================================================
