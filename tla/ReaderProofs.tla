---------------------------- MODULE ReaderProofs ----------------------------
(***************************************************************************)
(* Whatever writers append, evict and clear, and whichever of the readers  *)
(* of reader.c is used: no frame is handed out twice or out of order, none *)
(* that the transport does not keep, and none is passed over while it is   *)
(* kept.  For every number of frames and of clears.                        *)
(***************************************************************************)
EXTENDS Reader, TLAPS

\* The policy of the first read has been used up once something was handed out.
Started == IF api.threaded THEN thread \in {"next", "callback", "done"} ELSE first_read_done

(* The inductive invariant: the reader's position is the last frame handed *)
(* out, and the control state says that there was one.                     *)
ReaderInv ==
  /\ low \in Nat /\ high \in Nat /\ seq \in Nat /\ seq <= high
  /\ got \in Seq(Nat)
  /\ InOrder
  /\ got # <<>> => got[Len(got)] = seq /\ Started
  /\ user \in {"none", "opened"} => got = <<>> /\ thread = "none"
  /\ thread # "none" => api.threaded
  /\ user \in {"nonempty", "has_next"} => ~api.threaded

\* A step that hands out s next.
HandsOut(s) == seq' = s /\ got' = Append(got, s)

\* What a frame handed out next must satisfy.
Proper(s) ==
  /\ s \in Nat /\ s \in low..high
  /\ got # <<>> =>
       seq < s /\ (api.iter = "NEXT" => \A r \in (seq + 1)..(s - 1) : r < low)

(* The next frame, or the newest, is proper whenever has_next says yes:    *)
(* a0_transport_step_next and a0_transport_jump_tail.                      *)
LEMMA StepProper ==
  ASSUME ReaderInv, HasNext
  PROVE  Proper(Step)
BY DEF ReaderInv, Proper, HasNext, Empty, Step, StepNext, JumpTail

(* A position that is kept is proper as long as nothing was handed out.    *)
LEMMA FirstProper ==
  ASSUME ReaderInv, got = <<>>, ~Empty, NEW s, (s = seq /\ IterValid) \/ s = low
  PROVE  Proper(s)
BY DEF ReaderInv, Proper, Empty, IterValid

(* Handing out a proper frame keeps the order.                             *)
LEMMA HandOutOrder ==
  ASSUME ReaderInv, NEW s, Proper(s), HandsOut(s)
  PROVE  /\ got' \in Seq(Nat) /\ seq' \in Nat
         /\ InOrder'
         /\ got' # <<>> /\ got'[Len(got')] = seq'
<1>1. /\ got \in Seq(Nat) /\ s \in Nat
      /\ got' = Append(got, s)
  BY DEF ReaderInv, Proper, HandsOut
<1>2. /\ got' \in Seq(Nat) /\ Len(got') = Len(got) + 1
      /\ got'[Len(got')] = s
      /\ \A i \in 1..Len(got) : got'[i] = got[i]
  BY <1>1
<1>3. \A i \in 1..Len(got') - 1 : got'[i] < got'[i + 1]
  <2> SUFFICES ASSUME NEW i \in 1..Len(got) PROVE got'[i] < got'[i + 1]
    BY <1>2, <1>1
  <2>1. CASE i = Len(got)
    <3>1. got # <<>>
      BY <2>1, <1>1
    <3> QED
      BY <3>1, <2>1, <1>1, <1>2 DEF ReaderInv, Proper
  <2>2. CASE i # Len(got)
    BY <2>2, <1>1, <1>2 DEF ReaderInv, InOrder
  <2> QED
    BY <2>1, <2>2
<1> QED
  BY <1>1, <1>2, <1>3 DEF InOrder, HandsOut

LEMMA InitHolds == Init => ReaderInv
BY DEF Init, ReaderInv, InOrder, Started

(* A reader that has not started, has frames and is not where one of them  *)
(* is has a next frame.                                                    *)
LEMMA LostHasNext ==
  ASSUME ReaderInv, ~Empty, ~IterValid
  PROVE  HasNext
BY DEF ReaderInv, Empty, IterValid, HasNext

(* A read that stays where it is stays at a frame of the transport, and is *)
(* the first one.                                                          *)
LEMMA StayProper ==
  ASSUME ReaderInv, ~api.threaded, ~Empty, ~ShouldStep
  PROVE  Proper(seq)
<1>1. got = <<>> /\ IterValid
  BY DEF ReaderInv, Started, ShouldStep
<1> QED
  BY <1>1, FirstProper

(* The synchronous reads hand out nothing or one proper frame.             *)
LEMMA SyncHandsOut ==
  ASSUME ReaderInv, a0_reader_sync_zc_read \/ AwaitNonempty \/ AwaitHasNext
  PROVE  got' = got \/ \E s : Proper(s) /\ HandsOut(s) /\ Started' /\ UNCHANGED <<api, low, high>>
<1> DEFINE Out(s) == Proper(s) /\ HandsOut(s) /\ Started' /\ UNCHANGED <<api, low, high>>
<1>0. ASSUME NEW s, Proper(s), ~api.threaded, Deliver(s)
      PROVE  Out(s)
  BY <1>0 DEF Deliver, HandsOut, Started, log
<1>1. CASE a0_reader_sync_zc_read
  <2>1. CASE UNCHANGED got
    BY <2>1
  <2>2. CASE ~Again /\ Deliver(IF ShouldStep THEN Step ELSE seq)
    <3>0. ~api.threaded /\ ~Empty
      BY <1>1, <2>2 DEF a0_reader_sync_zc_read, Again
    <3>1. CASE ShouldStep
      <4>1. HasNext
        BY <2>2, <3>0, <3>1, LostHasNext DEF ShouldStep, Again
      <4>2. Deliver(Step)
        BY <2>2, <3>1
      <4>3. Out(Step)
        BY <4>1, <4>2, <3>0, <1>0, StepProper
      <4> QED
        BY <4>3
    <3>2. CASE ~ShouldStep
      <4>1. Deliver(seq)
        BY <2>2, <3>2
      <4>2. Out(seq)
        BY <4>1, <3>0, <3>2, <1>0, StayProper
      <4> QED
        BY <4>2
    <3> QED
      BY <3>1, <3>2
  <2> QED
    BY <1>1, <2>1, <2>2 DEF a0_reader_sync_zc_read
<1>2. CASE AwaitNonempty
  <2>0. ~api.threaded /\ ~Empty
    BY <1>2 DEF AwaitNonempty, ReaderInv
  <2>1. CASE ~ShouldStep /\ Deliver(seq)
    <3>1. Out(seq)
      BY <2>0, <2>1, <1>0, StayProper
    <3> QED
      BY <3>1
  <2>2. CASE HasNext /\ Deliver(Step)
    <3>1. Out(Step)
      BY <2>0, <2>2, <1>0, StepProper
    <3> QED
      BY <3>1
  <2>3. CASE UNCHANGED aux
    BY <2>3 DEF aux
  <2> QED
    BY <1>2, <2>1, <2>2, <2>3 DEF AwaitNonempty
<1>3. CASE AwaitHasNext
  <2>1. ~api.threaded /\ HasNext /\ Deliver(Step)
    BY <1>3 DEF AwaitHasNext, ReaderInv
  <2>2. Out(Step)
    BY <2>1, <1>0, StepProper
  <2> QED
    BY <2>2
<1> QED
  BY <1>1, <1>2, <1>3

(* So does the thread of a threaded reader.                                *)
LEMMA ThreadHandsOut ==
  ASSUME ReaderInv,
         a0_reader_zc_thread_handle_first_pkt \/ a0_reader_zc_thread_handle_next_pkt
  PROVE  got' = got \/ \E s : Proper(s) /\ HandsOut(s) /\ Started' /\ UNCHANGED <<api, low, high>>
<1> DEFINE Out(s) == Proper(s) /\ HandsOut(s) /\ Started' /\ UNCHANGED <<api, low, high>>
<1>0. ASSUME NEW s, Proper(s), api.threaded, a0_reader_zc_thread_handle_pkt(s)
      PROVE  Out(s)
  BY <1>0 DEF a0_reader_zc_thread_handle_pkt, HandsOut, Started, log
<1>1. CASE a0_reader_zc_thread_handle_first_pkt
  <2> DEFINE s == IF Reset THEN JumpHead ELSE seq
  <2>0. api.threaded /\ ~Empty /\ thread = "first"
    BY <1>1 DEF a0_reader_zc_thread_handle_first_pkt, ReaderInv
  <2>1. got = <<>>
    BY <2>0 DEF ReaderInv, Started
  <2>2. CASE a0_reader_zc_thread_handle_pkt(s)
    <3>1. (s = seq /\ IterValid) \/ s = low
      BY <2>0 DEF Reset, JumpHead
    <3>2. Proper(s)
      BY <2>0, <2>1, <3>1, FirstProper
    <3>3. Out(s)
      BY <2>0, <2>2, <3>2, <1>0
    <3> QED
      BY <3>3
  <2>3. CASE UNCHANGED aux
    BY <2>3 DEF aux
  <2> QED
    BY <1>1, <2>2, <2>3 DEF a0_reader_zc_thread_handle_first_pkt
<1>2. CASE a0_reader_zc_thread_handle_next_pkt
  <2>1. api.threaded /\ HasNext /\ a0_reader_zc_thread_handle_pkt(Step)
    BY <1>2 DEF a0_reader_zc_thread_handle_next_pkt, ReaderInv
  <2>2. Out(Step)
    BY <2>1, <1>0, StepProper
  <2> QED
    BY <2>2
<1> QED
  BY <1>1, <1>2

(* Any other step hands out nothing.                                       *)
LEMMA OthersHandNothing ==
  ASSUME [Next]_vars,
         ~a0_reader_sync_zc_read, ~AwaitNonempty, ~AwaitHasNext,
         ~a0_reader_zc_thread_handle_first_pkt, ~a0_reader_zc_thread_handle_next_pkt
  PROVE  got' = got
BY DEF Next, vars, aux, Write, Evict, Clear, OpenTopic, CloseTopic, SyncNext, ThreadNext, Stopped,
       a0_reader_sync_zc_init, a0_reader_sync_zc_can_read, a0_reader_sync_zc_read_blocking,
       a0_reader_sync_zc_read_blocking_timeout, Fail, a0_reader_sync_zc_close,
       a0_reader_zc_init, a0_reader_zc_thread_main, a0_reader_onpacket_wrapper, ThreadExit,
       a0_reader_zc_close, Join

\* Every step hands out nothing or one proper frame.
LEMMA StepHandsOut ==
  ASSUME ReaderInv, [Next]_vars
  PROVE  got' = got \/ \E s : Proper(s) /\ HandsOut(s) /\ Started' /\ UNCHANGED <<api, low, high>>
BY SyncHandsOut, ThreadHandsOut, OthersHandNothing

(* The invariant is kept by a step that hands out a frame.                 *)
LEMMA HandOutInv ==
  ASSUME ReaderInv, [Next]_vars,
         NEW s, Proper(s), HandsOut(s), Started', UNCHANGED <<api, low, high>>,
         got' # got
  PROVE  ReaderInv'
<1>1. /\ got' \in Seq(Nat) /\ seq' \in Nat /\ InOrder'
      /\ got' # <<>> /\ got'[Len(got')] = seq'
  BY HandOutOrder
<1>2. seq' <= high'
  BY DEF HandsOut, Proper, ReaderInv
<1>3. \/ a0_reader_sync_zc_read \/ AwaitNonempty \/ AwaitHasNext
      \/ a0_reader_zc_thread_handle_first_pkt \/ a0_reader_zc_thread_handle_next_pkt
  BY OthersHandNothing
<1>4. /\ user' \in {"none", "opened"} => user \in {"none", "opened"} /\ thread' = thread
      /\ thread' # "none" => thread # "none"
      /\ user' \in {"nonempty", "has_next"} => user \in {"nonempty", "has_next"}
  BY <1>3 DEF a0_reader_sync_zc_read, AwaitNonempty, AwaitHasNext, Deliver, ReaderInv,
       a0_reader_zc_thread_handle_first_pkt, a0_reader_zc_thread_handle_next_pkt,
       a0_reader_zc_thread_handle_pkt
<1>5. user' \notin {"none", "opened"}
  BY <1>3 DEF a0_reader_sync_zc_read, AwaitNonempty, AwaitHasNext, Deliver, ReaderInv,
       a0_reader_zc_thread_handle_first_pkt, a0_reader_zc_thread_handle_next_pkt,
       a0_reader_zc_thread_handle_pkt
<1> QED
  BY <1>1, <1>2, <1>4, <1>5 DEF ReaderInv

(* And by one that does not: what moves is the transport, or the control   *)
(* of a reader that has handed out nothing.                                *)
LEMMA QuietInv ==
  ASSUME ReaderInv, [Next]_vars, got' = got
  PROVE  ReaderInv'
<1>1. InOrder'
  BY DEF ReaderInv, InOrder
<1>2. CASE Write \/ Evict \/ Clear
  BY <1>1, <1>2 DEF Write, Evict, Clear, Appended, Evicted, Cleared, ReaderInv, Started, conn, aux
<1>3. CASE a0_reader_sync_zc_init \/ a0_reader_zc_init
  BY <1>1, <1>3 DEF a0_reader_sync_zc_init, a0_reader_zc_init, ReaderInv, Started, log, aux,
       Placed, JumpHead, JumpTail, Empty
<1>4. CASE OpenTopic \/ CloseTopic \/ Stopped \/ Join \/ a0_reader_zc_close
             \/ a0_reader_sync_zc_can_read \/ a0_reader_sync_zc_read_blocking
             \/ a0_reader_sync_zc_read_blocking_timeout \/ a0_reader_sync_zc_close
             \/ UNCHANGED vars
  BY <1>1, <1>4 DEF OpenTopic, CloseTopic, Stopped, Join, a0_reader_zc_close, vars,
       a0_reader_sync_zc_can_read, a0_reader_sync_zc_read_blocking, Fail,
       a0_reader_sync_zc_read_blocking_timeout, a0_reader_sync_zc_close,
       ReaderInv, Started, log, conn, aux
<1>5. CASE a0_reader_zc_thread_main \/ a0_reader_onpacket_wrapper \/ ThreadExit
  BY <1>1, <1>5 DEF a0_reader_zc_thread_main, a0_reader_onpacket_wrapper, ThreadExit,
       ReaderInv, Started, log, conn, aux
<1>6. CASE \/ a0_reader_sync_zc_read \/ AwaitNonempty \/ AwaitHasNext
           \/ a0_reader_zc_thread_handle_first_pkt \/ a0_reader_zc_thread_handle_next_pkt
  <2>1. ASSUME NEW s PROVE got' # Append(got, s)
    BY DEF ReaderInv
  <2> QED
    BY <1>1, <1>6, <2>1 DEF a0_reader_sync_zc_read, AwaitNonempty, AwaitHasNext, Deliver,
       a0_reader_zc_thread_handle_first_pkt, a0_reader_zc_thread_handle_next_pkt,
       a0_reader_zc_thread_handle_pkt, ReaderInv, Started, log, conn, aux
<1> QED
  BY <1>2, <1>3, <1>4, <1>5, <1>6 DEF Next, SyncNext, ThreadNext

LEMMA StepKeepsInv ==
  ASSUME ReaderInv, [Next]_vars
  PROVE  ReaderInv'
BY StepHandsOut, HandOutInv, QuietInv

-----------------------------------------------------------------------------
(* No frame is handed out twice or after a later one (reader.c), for every *)
(* number of frames and clears.                                            *)
THEOREM FramesInOrder == Spec => []InOrder
<1>1. ReaderInv => InOrder
  BY DEF ReaderInv
<1> QED
  BY <1>1, InitHolds, StepKeepsInv, PTL DEF Spec

(* A frame handed out is kept by the transport at that moment, and with    *)
(* ITER_NEXT no kept frame is passed over (a0_transport_step_next).        *)
THEOREM FramesNotSkipped == Spec => NothingSkipped
<1>1. ASSUME ReaderInv, [Next]_vars
      PROVE  got' # got =>
               /\ got'[Len(got')] \in low..high
               /\ api.iter = "NEXT" /\ got # <<>>
                    => \A s \in (got[Len(got)] + 1)..(got'[Len(got')] - 1) : s < low
  <2> SUFFICES ASSUME got' # got
               PROVE  /\ got'[Len(got')] \in low..high
                      /\ api.iter = "NEXT" /\ got # <<>>
                           => \A s \in (got[Len(got)] + 1)..(got'[Len(got')] - 1) : s < low
    OBVIOUS
  <2>1. PICK s : Proper(s) /\ HandsOut(s)
    BY <1>1, StepHandsOut
  <2>2. got'[Len(got')] = s
    BY <2>1, <1>1, HandOutOrder DEF HandsOut
  <2>3. got # <<>> => got[Len(got)] = seq
    BY <1>1 DEF ReaderInv
  <2> QED
    BY <2>1, <2>2, <2>3 DEF Proper
<1> QED
  BY <1>1, InitHolds, StepKeepsInv, PTL DEF Spec, NothingSkipped
-----------------------------------------------------------------------------
(* The control of the reader: what is mapped, who runs, what is promised.  *)

(* A reader's thread lives inside the life of the reader, which lies       *)
(* inside that of the mapping.  A promise is made by a synchronous reader  *)
(* only, and stands until something is read or cleared.                    *)
LifeInv ==
  /\ user \in {"opened", "ready", "nonempty", "has_next", "joining", "reader_closed"} => mapped
  /\ thread \in {"created", "first", "next", "callback"} => user \in {"ready", "joining"}
  /\ promised => user \in {"ready", "nonempty", "has_next"} /\ ~api.threaded /\ ~Again

LEMMA InitLife == Init => LifeInv
BY DEF Init, LifeInv

(* A commit takes nothing away from a reader: there is a frame, and one    *)
(* beyond the position if there was one.                                   *)
LEMMA WriteKeepsPromise ==
  ASSUME ReaderInv, Write, ~Again
  PROVE  ~Again'
BY DEF ReaderInv, Write, Appended, Again, Empty, HasNext, conn

(* Nor does an eviction that leaves a frame.                               *)
LEMMA EvictKeepsPromise ==
  ASSUME ReaderInv, Evict, low < high, ~Again
  PROVE  ~Again'
BY DEF ReaderInv, Evict, Evicted, Again, Empty, HasNext, conn

\* Anything that a reader hands out redeems the promise.
LEMMA LifeStep ==
  ASSUME ReaderInv, LifeInv, [Next]_vars
  PROVE  LifeInv'
<1>1. CASE Write
  <2>1. /\ user' = user /\ thread' = thread /\ mapped' = mapped
        /\ promised' = promised /\ api' = api
    BY <1>1 DEF Write, aux
  <2> QED
    BY <1>1, <2>1, WriteKeepsPromise DEF LifeInv
<1>e. CASE Evict
  <2>1. /\ user' = user /\ thread' = thread /\ mapped' = mapped
        /\ promised' = (promised /\ low < high) /\ api' = api
    BY <1>e DEF Evict
  <2> QED
    BY <1>e, <2>1, EvictKeepsPromise DEF LifeInv
<1>2. CASE Clear
  BY <1>2 DEF Clear, LifeInv
<1>3. CASE a0_reader_sync_zc_init \/ a0_reader_zc_init
  BY <1>3 DEF a0_reader_sync_zc_init, a0_reader_zc_init, LifeInv, ReaderInv
<1>4. CASE a0_reader_sync_zc_can_read
  <2>1. CanRead => ~Again
    BY DEF CanRead, Again, HasNext
  <2>2. Again' = Again
    BY <1>4 DEF a0_reader_sync_zc_can_read, Again, Empty, HasNext, log, conn
  <2> QED
    BY <1>4, <2>1, <2>2 DEF a0_reader_sync_zc_can_read, LifeInv
<1>5. CASE a0_reader_sync_zc_read
  <2>1. promised' = FALSE /\ UNCHANGED <<user, thread, mapped>>
    BY <1>5 DEF a0_reader_sync_zc_read, Deliver
  <2> QED
    BY <2>1 DEF LifeInv
<1>6. CASE AwaitNonempty \/ AwaitHasNext
  <2>1. CASE promised' = FALSE /\ user' = "ready" /\ UNCHANGED <<thread, mapped>>
    BY <1>6, <2>1 DEF AwaitNonempty, AwaitHasNext, LifeInv
  <2>2. CASE AwaitNonempty /\ user' = "has_next" /\ UNCHANGED <<log, api, thread, mapped, conn, aux>>
    <3>1. Again' = Again
      BY <2>2 DEF Again, Empty, HasNext, log, conn
    <3> QED
      BY <2>2, <3>1 DEF AwaitNonempty, LifeInv, aux
  <2> QED
    BY <1>6, <2>1, <2>2 DEF AwaitNonempty, AwaitHasNext, Deliver
<1>7. CASE a0_reader_sync_zc_read_blocking \/ a0_reader_sync_zc_read_blocking_timeout
  <2>1. Again' = Again
    BY <1>7 DEF a0_reader_sync_zc_read_blocking, a0_reader_sync_zc_read_blocking_timeout, Fail,
         Again, Empty, HasNext, log, conn
  <2> QED
    BY <1>7, <2>1 DEF a0_reader_sync_zc_read_blocking, a0_reader_sync_zc_read_blocking_timeout,
         Fail, LifeInv, ReaderInv, aux
<1>8. CASE a0_reader_sync_zc_close
  BY <1>8 DEF a0_reader_sync_zc_close, LifeInv, ReaderInv
<1>9. CASE ThreadNext
  <2>1. api.threaded /\ ~promised /\ promised' = promised /\ user' = user /\ mapped' = mapped
    BY <1>9 DEF ThreadNext, a0_reader_zc_thread_main, a0_reader_zc_thread_handle_first_pkt,
         a0_reader_zc_thread_handle_next_pkt, a0_reader_zc_thread_handle_pkt,
         a0_reader_onpacket_wrapper, ThreadExit, ReaderInv, LifeInv, aux
  <2>2. thread \in {"created", "first", "next", "callback"}
    BY <1>9 DEF ThreadNext, a0_reader_zc_thread_main, a0_reader_zc_thread_handle_first_pkt,
         a0_reader_zc_thread_handle_next_pkt, a0_reader_onpacket_wrapper, ThreadExit
  <2> QED
    BY <2>1, <2>2 DEF LifeInv
<1>10. CASE OpenTopic \/ CloseTopic \/ a0_reader_zc_close \/ Join
  BY <1>10 DEF OpenTopic, CloseTopic, a0_reader_zc_close, Join, LifeInv, ReaderInv, aux
<1>11. CASE Stopped \/ UNCHANGED vars
  <2>1. Again' = Again
    BY <1>11 DEF Stopped, vars, Again, Empty, HasNext, log, conn
  <2> QED
    BY <1>11, <2>1 DEF Stopped, vars, LifeInv, aux
<1> QED
  BY <1>1, <1>e, <1>2, <1>3, <1>4, <1>5, <1>6, <1>7, <1>8, <1>9, <1>10, <1>11 DEF Next, SyncNext

(* The file is mapped as long as the reader, its thread, a callback or a   *)
(* blocked read can touch it (a0_reader_zc_close joins before              *)
(* a0_subscriber_zc_close unmaps).                                         *)
THEOREM MappingOutlivesUse == Spec => []MappedWhileUsed
<1>1. LifeInv => MappedWhileUsed
  BY DEF LifeInv, MappedWhileUsed
<1> QED
  BY <1>1, InitHolds, StepKeepsInv, InitLife, LifeStep, PTL DEF Spec

(* A read after a yes of can_read finds a frame, whatever was written and  *)
(* evicted in between, and however many blocking reads have timed out.     *)
THEOREM PromisesAreKept == Spec => []PromiseKept
<1>1. LifeInv => PromiseKept
  BY DEF LifeInv, PromiseKept
<1> QED
  BY <1>1, InitHolds, StepKeepsInv, InitLife, LifeStep, PTL DEF Spec

-----------------------------------------------------------------------------
(* Where a reader starts.                                                  *)

\* The transport was empty when the reader was placed.
BegunEmpty == begun.high = 0 \/ begun.low > begun.high

\* Where the init policy has put the reader.
StartSeq == IF BegunEmpty THEN 0 ELSE IF api.init = "OLDEST" THEN begun.low ELSE begun.high

(* Until the first frame is handed out the reader is where it was placed,  *)
(* and what remembers that it is fresh agrees with the transport of that   *)
(* time, which has only moved up since.  A fresh reader that lost its      *)
(* place never waits for a next frame: one that is not behind is there.    *)
StartInv ==
  /\ api.init \in Inits /\ api.iter \in Iters
  /\ high > 0 => low > 0
  /\ low <= high + 1
  /\ begun \in [low : Nat, high : Nat] /\ begun.low <= low /\ begun.high <= high
  /\ user \in {"none", "opened"} => seq = 0
  /\ first_read_done => got # <<>>
  /\ user \notin {"none", "opened"} =>
       /\ got = <<>> => seq = StartSeq
       /\ api.threaded => (started_empty <=> BegunEmpty)
  /\ user = "has_next" => first_read_done \/ api.init = "AWAIT_NEW"
  /\ thread # "none" => user \notin {"none", "opened"}
  /\ thread = "callback" => got # <<>>
  /\ thread = "next" /\ got = <<>> => api.init = "AWAIT_NEW" /\ ~BegunEmpty

\* Every interface starts and goes on in one of the ways of reader.h.
LEMMA ApiOptions == \A a \in Apis : a.init \in Inits /\ a.iter \in Iters
<1>1. ASSUME NEW a, NEW n, NEW t, NEW c, a \in Api(n, t, c, Options)
      PROVE  a.init \in Inits /\ a.iter \in Iters
  BY <1>1 DEF Api, Options
<1>2. ASSUME NEW a, a \in a0_cfg_read \cup a0_cfg_watcher
      PROVE  a.init \in Inits /\ a.iter \in Iters
  BY <1>2 DEF a0_cfg_read, a0_cfg_watcher, Api, Inits, Iters
<1> QED
  BY <1>1, <1>2 DEF Apis, a0_subscriber_sync_zc, a0_subscriber_sync, a0_subscriber_zc,
       a0_subscriber, a0_log_listener

LEMMA InitStart == Init => StartInv
BY ApiOptions DEF Init, StartInv, Empty

(* The transport moves up and keeps its frames numbered from one.          *)
LEMMA LogStart ==
  ASSUME ReaderInv, StartInv, Write \/ Evict \/ Clear
  PROVE  StartInv'
<1>1. /\ low' \in Nat /\ high' \in Nat /\ low <= low' /\ high <= high'
      /\ high' > 0 => low' > 0
      /\ low' <= high' + 1
  <2>1. CASE Write
    BY <2>1 DEF ReaderInv, StartInv, Write, Appended
  <2>e. CASE Evict
    BY <2>e DEF ReaderInv, StartInv, Evict, Evicted, Empty
  <2>2. CASE Clear
    <3>1. low <= high + 1
      BY DEF StartInv
    <3> QED
      BY <2>2, <3>1 DEF ReaderInv, StartInv, Clear, Cleared
  <2> QED
    BY <2>1, <2>e, <2>2
<1>2. UNCHANGED <<begun, user, thread, seq, first_read_done, started_empty, got, api>>
  BY DEF Write, Evict, Clear, conn, aux
<1>3. StartSeq' = StartSeq /\ BegunEmpty' = BegunEmpty
  BY <1>2 DEF StartSeq, BegunEmpty
<1>4. begun' \in [low : Nat, high : Nat] /\ begun'.low <= low' /\ begun'.high <= high'
  BY <1>1, <1>2 DEF StartInv, ReaderInv
<1> QED
  BY <1>1, <1>2, <1>3, <1>4 DEF StartInv

(* Placing: a0_reader_sync_zc_init and a0_reader_zc_init.                  *)
LEMMA PlaceStart ==
  ASSUME ReaderInv, StartInv, a0_reader_sync_zc_init \/ a0_reader_zc_init
  PROVE  StartInv'
<1>1. /\ begun' = [low |-> low, high |-> high] /\ UNCHANGED <<low, high, api, got, first_read_done>>
      /\ user = "opened" /\ user' = "ready" /\ got = <<>> /\ seq = 0 /\ thread = "none"
      /\ thread' \in {"none", "created"}
      /\ api.threaded => (started_empty' <=> Empty)
  BY DEF a0_reader_sync_zc_init, a0_reader_zc_init, ReaderInv, StartInv, log
<1>2. BegunEmpty' = Empty
  BY <1>1 DEF BegunEmpty, Empty
<1>3. seq' = IF Empty THEN 0 ELSE IF api.init = "OLDEST" THEN low ELSE high
  BY <1>1 DEF a0_reader_sync_zc_init, a0_reader_zc_init, Placed, JumpHead, JumpTail
<1>4. seq' = StartSeq'
  BY <1>1, <1>2, <1>3 DEF StartSeq
<1>5. /\ begun' \in [low : Nat, high : Nat] /\ begun'.low <= low' /\ begun'.high <= high'
      /\ high' > 0 => low' > 0
      /\ low' <= high' + 1
      /\ first_read_done' => got' # <<>>
  BY <1>1 DEF ReaderInv, StartInv
<1> QED
  BY <1>1, <1>2, <1>4, <1>5 DEF StartInv

(* A step that leaves the transport, the placing and the position alone.   *)
LEMMA RestStart ==
  ASSUME ReaderInv, StartInv, [Next]_vars,
         ~(Write \/ Evict \/ Clear), ~(a0_reader_sync_zc_init \/ a0_reader_zc_init)
  PROVE  StartInv'
<1>1. UNCHANGED <<low, high, begun, api, started_empty>>
  BY DEF Next, vars, log, conn, aux, OpenTopic, CloseTopic, SyncNext, ThreadNext, Stopped,
       a0_reader_sync_zc_can_read, a0_reader_sync_zc_read, Deliver, AwaitNonempty, AwaitHasNext,
       a0_reader_sync_zc_read_blocking, a0_reader_sync_zc_read_blocking_timeout, Fail,
       a0_reader_sync_zc_close, a0_reader_zc_thread_main, a0_reader_zc_thread_handle_first_pkt,
       a0_reader_zc_thread_handle_next_pkt, a0_reader_zc_thread_handle_pkt,
       a0_reader_onpacket_wrapper, ThreadExit, a0_reader_zc_close, Join
<1>2. StartSeq' = StartSeq /\ BegunEmpty' = BegunEmpty
  BY <1>1 DEF StartSeq, BegunEmpty
<1>3. CASE got' # got
  <2>1. got' # <<>>
    BY <1>3, StepHandsOut, HandOutOrder
  <2>2. \/ a0_reader_sync_zc_read \/ AwaitNonempty \/ AwaitHasNext
        \/ a0_reader_zc_thread_handle_first_pkt \/ a0_reader_zc_thread_handle_next_pkt
    BY <1>3, OthersHandNothing
  <2>3. user \notin {"none", "opened"} /\ user' \notin {"none", "opened"}
    BY <2>2 DEF a0_reader_sync_zc_read, AwaitNonempty, AwaitHasNext, Deliver, StartInv,
       a0_reader_zc_thread_handle_first_pkt, a0_reader_zc_thread_handle_next_pkt,
       a0_reader_zc_thread_handle_pkt
  <2>4. user' = "has_next" => user = "has_next" /\ first_read_done' = first_read_done
    BY <1>3, <2>2 DEF a0_reader_sync_zc_read, AwaitNonempty, AwaitHasNext, Deliver, ReaderInv,
       a0_reader_zc_thread_handle_first_pkt, a0_reader_zc_thread_handle_next_pkt,
       a0_reader_zc_thread_handle_pkt, aux
  <2> QED
    BY <1>1, <1>2, <2>1, <2>3, <2>4 DEF StartInv
<1>4. CASE got' = got
  <2>0. ASSUME NEW s PROVE got' # Append(got, s)
    BY <1>4 DEF ReaderInv
  <2>1. /\ UNCHANGED <<seq, first_read_done>>
        /\ user' \in {"none", "opened"} <=> user \in {"none", "opened"}
        /\ thread' # "none" => thread # "none"
        /\ thread' = "callback" => thread = "callback"
        /\ thread' = "next" => \/ thread \in {"next", "callback"}
                               \/ thread = "first" /\ ~Reset /\ api.init = "AWAIT_NEW"
        /\ user' = "has_next" => user = "has_next" \/ (~Empty /\ ShouldStep /\ ~HasNext)
    BY <1>4, <2>0 DEF Next, vars, log, conn, aux, OpenTopic, CloseTopic, SyncNext, ThreadNext, Stopped,
       a0_reader_sync_zc_can_read, a0_reader_sync_zc_read, Deliver, AwaitNonempty, AwaitHasNext,
       a0_reader_sync_zc_read_blocking, a0_reader_sync_zc_read_blocking_timeout, Fail,
       a0_reader_sync_zc_close, a0_reader_zc_thread_main, a0_reader_zc_thread_handle_first_pkt,
       a0_reader_zc_thread_handle_next_pkt, a0_reader_zc_thread_handle_pkt,
       a0_reader_onpacket_wrapper, ThreadExit, a0_reader_zc_close, Join
  <2>2. thread = "first" /\ ~Reset => ~BegunEmpty
    BY DEF StartInv, ReaderInv, Reset
  <2>3. ~Empty /\ ShouldStep /\ ~HasNext => first_read_done \/ api.init = "AWAIT_NEW"
    BY LostHasNext DEF ShouldStep
  <2> QED
    BY <1>1, <1>2, <1>4, <2>1, <2>2, <2>3 DEF StartInv
<1> QED
  BY <1>3, <1>4

LEMMA StartStep ==
  ASSUME ReaderInv, StartInv, [Next]_vars
  PROVE  StartInv'
BY LogStart, PlaceStart, RestStart

-----------------------------------------------------------------------------
(* The first frame.                                                        *)

\* What StartsAsAsked says of the first frame.
AsAsked(f) == f = Nearest \/ (StartsNewest /\ f = high)

(* A frame that the init policy names and that is gone, or was never there, *)
(* leaves the oldest one kept; and the position is below it.               *)
LEMMA NearestIsLow ==
  ASSUME ReaderInv, StartInv, user \notin {"none", "opened"}, got = <<>>, ~Empty,
         ~IterValid \/ BegunEmpty
  PROVE  /\ Nearest = low /\ seq < low
         /\ api.init # "AWAIT_NEW" => begun.low > begun.high \/ Wanted < low
<1>1. /\ api.init \in Inits /\ low \in Nat /\ high \in Nat /\ low > 0 /\ low <= high
      /\ begun.low \in Nat /\ begun.high \in Nat /\ begun.low <= low /\ begun.high <= high
      /\ seq = StartSeq
  BY DEF ReaderInv, StartInv, Empty
<1>2. CASE BegunEmpty
  BY <1>1, <1>2 DEF StartSeq, BegunEmpty, Nearest, Wanted, Inits
<1>3. CASE ~BegunEmpty /\ ~IterValid
  <2>1. seq = (IF api.init = "OLDEST" THEN begun.low ELSE begun.high) /\ seq < low
    BY <1>1, <1>3 DEF StartSeq, BegunEmpty, IterValid
  <2> QED
    BY <1>1, <2>1 DEF Nearest, Wanted, Inits
<1> QED
  BY <1>2, <1>3

\* A reader that stays reads what it was placed at.
LEMMA PlacedIsAsAsked ==
  ASSUME ReaderInv, StartInv, user \notin {"none", "opened"}, got = <<>>, ~Empty,
         IterValid, api.init # "AWAIT_NEW"
  PROVE  AsAsked(seq)
<1>1. /\ api.init \in Inits /\ low \in Nat /\ high \in Nat /\ low > 0
      /\ begun.low \in Nat /\ begun.high \in Nat /\ seq = StartSeq
  BY DEF ReaderInv, StartInv, Empty
<1>2. ~BegunEmpty /\ low <= seq
  BY <1>1 DEF StartSeq, IterValid
<1>3. seq \in Nat /\ seq = Wanted
  BY <1>1, <1>2 DEF StartSeq, Wanted, Inits
<1> QED
  BY <1>1, <1>2, <1>3 DEF AsAsked, Nearest

\* One whose position is gone moves on, by one frame or to the newest.
LEMMA MovedIsAsAsked ==
  ASSUME ReaderInv, StartInv, user \notin {"none", "opened"}, got = <<>>, HasNext,
         ~IterValid, api.init # "AWAIT_NEW", ~api.threaded
  PROVE  AsAsked(Step)
<1>1. ~Empty
  BY DEF HasNext
<1>2. /\ Nearest = low /\ seq < low
      /\ begun.low > begun.high \/ Wanted < low
  BY <1>1, NearestIsLow
<1>3. CASE api.iter = "NEXT"
  BY <1>2, <1>3 DEF Step, StepNext, AsAsked
<1>4. CASE api.iter = "NEWEST"
  BY <1>1, <1>2, <1>4 DEF Step, JumpTail, AsAsked, StartsNewest
<1> QED
  BY <1>3, <1>4 DEF StartInv, Iters

\* A reader that awaits new frames takes one beyond its place.
LEMMA NewIsAsAsked ==
  ASSUME ReaderInv, StartInv, user \notin {"none", "opened"}, got = <<>>, HasNext,
         api.init = "AWAIT_NEW"
  PROVE  AsAsked(Step)
<1>1. ~Empty /\ seq < high
  BY DEF HasNext
<1>2. /\ low \in Nat /\ high \in Nat /\ low > 0 /\ begun.low \in Nat /\ begun.high \in Nat
      /\ seq = StartSeq
  BY <1>1 DEF ReaderInv, StartInv, Empty
<1>3. CASE api.iter = "NEWEST"
  BY <1>1, <1>3 DEF Step, JumpTail, AsAsked, StartsNewest
<1>4. CASE api.iter = "NEXT" /\ seq < low
  <2>1. ~IterValid
    BY <1>2, <1>4 DEF IterValid, StartSeq
  <2> QED
    BY <1>1, <1>4, <2>1, NearestIsLow DEF Step, StepNext, AsAsked
<1>5. CASE api.iter = "NEXT" /\ ~(seq < low)
  <2>1. seq = begun.high /\ low <= seq
    BY <1>2, <1>5 DEF StartSeq
  <2>2. Wanted = seq + 1
    BY <2>1 DEF Wanted
  <2> QED
    BY <1>2, <1>5, <2>1, <2>2 DEF Step, StepNext, AsAsked, Nearest
<1> QED
  BY <1>3, <1>4, <1>5 DEF StartInv, Iters

(* The synchronous reads.                                                  *)
LEMMA SyncStarts ==
  ASSUME ReaderInv, StartInv, got = <<>>, NEW s, got' = Append(got, s),
         a0_reader_sync_zc_read \/ AwaitNonempty \/ AwaitHasNext
  PROVE  AsAsked(s)
<1>1. ~api.threaded /\ user \notin {"none", "opened"} /\ ~Empty /\ ~first_read_done
  BY DEF ReaderInv, StartInv, a0_reader_sync_zc_read, AwaitNonempty, AwaitHasNext, Again, HasNext
<1>2. got' # got
  BY DEF ReaderInv
<1>3. ASSUME NEW r, Deliver(r) PROVE r = s
  BY <1>3 DEF Deliver, ReaderInv
<1>4. \/ ~ShouldStep /\ Deliver(seq)
      \/ ShouldStep /\ HasNext /\ Deliver(Step)
  <2>1. CASE a0_reader_sync_zc_read
    <3>1. ~Again /\ Deliver(IF ShouldStep THEN Step ELSE seq)
      BY <1>2, <2>1 DEF a0_reader_sync_zc_read
    <3>2. CASE ShouldStep
      <4>1. HasNext
        BY <1>1, <3>1, <3>2, LostHasNext DEF ShouldStep, Again
      <4> QED
        BY <3>1, <3>2, <4>1
    <3>3. CASE ~ShouldStep
      BY <3>1, <3>3
    <3> QED
      BY <3>2, <3>3
  <2>2. CASE AwaitNonempty
    BY <1>2, <2>2 DEF AwaitNonempty, aux
  <2>3. CASE AwaitHasNext
    BY <2>3 DEF AwaitHasNext, StartInv, ShouldStep
  <2> QED
    BY <2>1, <2>2, <2>3
<1>5. CASE ~ShouldStep /\ Deliver(seq)
  <2>1. IterValid /\ api.init # "AWAIT_NEW"
    BY <1>5 DEF ShouldStep
  <2> QED
    BY <1>1, <1>3, <1>5, <2>1, PlacedIsAsAsked
<1>6. CASE ShouldStep /\ HasNext /\ Deliver(Step)
  <2>1. CASE api.init = "AWAIT_NEW"
    BY <1>1, <1>3, <1>6, <2>1, NewIsAsAsked
  <2>2. CASE api.init # "AWAIT_NEW"
    <3>1. ~IterValid
      BY <1>1, <1>6, <2>2 DEF ShouldStep
    <3> QED
      BY <1>1, <1>3, <1>6, <2>2, <3>1, MovedIsAsAsked
  <2> QED
    BY <2>1, <2>2
<1> QED
  BY <1>4, <1>5, <1>6

(* The thread of a threaded reader.                                        *)
LEMMA ThreadStarts ==
  ASSUME ReaderInv, StartInv, got = <<>>, NEW s, got' = Append(got, s),
         a0_reader_zc_thread_handle_first_pkt \/ a0_reader_zc_thread_handle_next_pkt
  PROVE  AsAsked(s)
<1>1. api.threaded /\ user \notin {"none", "opened"} /\ ~Empty
  BY DEF ReaderInv, StartInv, a0_reader_zc_thread_handle_first_pkt,
       a0_reader_zc_thread_handle_next_pkt, HasNext
<1>2. got' # got
  BY DEF ReaderInv
<1>3. ASSUME NEW r, a0_reader_zc_thread_handle_pkt(r) PROVE r = s
  BY <1>3 DEF a0_reader_zc_thread_handle_pkt, ReaderInv
<1>4. CASE a0_reader_zc_thread_handle_first_pkt
  <2> DEFINE f == IF Reset THEN JumpHead ELSE seq
  <2>1. (Reset \/ api.init # "AWAIT_NEW") /\ a0_reader_zc_thread_handle_pkt(f)
    BY <1>2, <1>4 DEF a0_reader_zc_thread_handle_first_pkt, aux
  <2>2. CASE Reset
    <3>1. s = low
      BY <1>1, <1>3, <2>1, <2>2 DEF JumpHead
    <3>2. ~IterValid \/ BegunEmpty
      BY <1>1, <2>2 DEF Reset, StartInv
    <3> QED
      BY <1>1, <3>1, <3>2, NearestIsLow DEF AsAsked
  <2>3. CASE ~Reset
    <3>1. s = seq /\ IterValid /\ api.init # "AWAIT_NEW"
      BY <1>3, <2>1, <2>3 DEF Reset
    <3> QED
      BY <1>1, <3>1, PlacedIsAsAsked
  <2> QED
    BY <2>2, <2>3
<1>5. CASE a0_reader_zc_thread_handle_next_pkt
  <2>1. HasNext /\ s = Step /\ thread = "next"
    BY <1>3, <1>5 DEF a0_reader_zc_thread_handle_next_pkt
  <2>2. api.init = "AWAIT_NEW"
    BY <2>1 DEF StartInv
  <2> QED
    BY <1>1, <2>1, <2>2, NewIsAsAsked
<1> QED
  BY <1>4, <1>5

(* The first frame is the one that the init policy names, or the oldest    *)
(* one kept after it; a reader with ITER_NEWEST that awaits new frames, or *)
(* a synchronous one whose frame is gone, may take the newest instead      *)
(* (a0_reader_sync_zc_init, a0_reader_zc_init, and the first reads),       *)
(* whatever is written, evicted or cleared before the first read.          *)
THEOREM FirstFrameAsAsked == Spec => StartsAsAsked
<1>1. ASSUME ReaderInv, StartInv, [Next]_vars
      PROVE  got' # got /\ got = <<>> =>
               \/ got'[1] = Nearest
               \/ StartsNewest /\ got'[1] = high
  <2> SUFFICES ASSUME got' # got, got = <<>> PROVE AsAsked(got'[1])
    BY DEF AsAsked
  <2>1. PICK s : Proper(s) /\ HandsOut(s)
    BY <1>1, StepHandsOut
  <2>2. got' = Append(got, s) /\ got'[1] = s
    BY <2>1 DEF HandsOut
  <2>3. \/ a0_reader_sync_zc_read \/ AwaitNonempty \/ AwaitHasNext
        \/ a0_reader_zc_thread_handle_first_pkt \/ a0_reader_zc_thread_handle_next_pkt
    BY <1>1, OthersHandNothing
  <2> QED
    BY <1>1, <2>2, <2>3, SyncStarts, ThreadStarts
<1> QED
  BY <1>1, InitHolds, StepKeepsInv, InitStart, StartStep, PTL DEF Spec, StartsAsAsked
-----------------------------------------------------------------------------
(* The transport that the reader is proved over is the log that Transport  *)
(* is proved to implement.                                                 *)

(* How the frames that are kept lie.                                       *)
LogShape == low \in Nat /\ high \in Nat /\ low <= high + 1 /\ (low = 0 => high = 0)

LEMMA KeptIs ==
  ASSUME LogShape
  PROVE  \A s : s \in Kept <=> s \in Nat /\ low <= s /\ s <= high /\ s > 0
BY DEF LogShape, Kept, Empty

LEMMA LogShapeInit == Init => LogShape
BY DEF Init, LogShape

(* Only the writers' steps move the log.                                   *)
LEMMA LogMoves ==
  ASSUME [Next]_vars
  PROVE  Write \/ Evict \/ Clear \/ UNCHANGED <<low, high>>
BY DEF Next, vars, log, OpenTopic, CloseTopic, SyncNext, ThreadNext, Stopped,
       a0_reader_sync_zc_init, a0_reader_sync_zc_can_read, a0_reader_sync_zc_read, Deliver,
       AwaitNonempty, AwaitHasNext, a0_reader_sync_zc_read_blocking,
       a0_reader_sync_zc_read_blocking_timeout, Fail, a0_reader_sync_zc_close, a0_reader_zc_init,
       a0_reader_zc_thread_main, a0_reader_zc_thread_handle_first_pkt,
       a0_reader_zc_thread_handle_next_pkt, a0_reader_zc_thread_handle_pkt,
       a0_reader_onpacket_wrapper, ThreadExit, a0_reader_zc_close, Join

LEMMA LogShapeStep ==
  ASSUME LogShape, [Next]_vars
  PROVE  LogShape'
<1>1. Appended => LogShape'
  BY DEF LogShape, Appended
<1>2. Evicted => LogShape'
  BY DEF LogShape, Evicted, Empty
<1>3. Cleared => LogShape'
  BY DEF LogShape, Cleared
<1>4. UNCHANGED <<low, high>> => LogShape'
  BY DEF LogShape
<1> QED
  BY <1>1, <1>2, <1>3, <1>4, LogMoves DEF Write, Evict, Clear

(* What each of the writers' steps does to the frames that are kept.       *)
LEMMA KeptStep ==
  ASSUME LogShape, LogShape'
  PROVE  /\ Appended => high' = high + 1 /\ Kept' = Kept \cup {high + 1}
         /\ Evicted  => high' = high /\ low \in Kept /\ Kept' = Kept \ {low}
         /\ Cleared  => high' = high /\ Kept' = {}
         /\ UNCHANGED <<low, high>> => Kept' = Kept
<1>1. \A s : s \in Kept <=> s \in Nat /\ low <= s /\ s <= high /\ s > 0
  BY KeptIs
<1>2. \A s : s \in Kept' <=> s \in Nat /\ low' <= s /\ s <= high' /\ s > 0
  BY DEF LogShape, Kept, Empty
<1>3. ASSUME Appended PROVE high' = high + 1 /\ Kept' = Kept \cup {high + 1}
  BY <1>1, <1>2, <1>3 DEF Appended, LogShape
<1>4. ASSUME Evicted PROVE high' = high /\ low \in Kept /\ Kept' = Kept \ {low}
  BY <1>1, <1>2, <1>4 DEF Evicted, Empty, LogShape
<1>5. ASSUME Cleared PROVE high' = high /\ Kept' = {}
  BY <1>1, <1>2, <1>5 DEF Cleared, LogShape
<1>6. UNCHANGED <<low, high>> => Kept' = Kept
  BY DEF Kept, Empty
<1> QED
  BY <1>3, <1>4, <1>5, <1>6

(* The writers of this module do only what the log allows.                 *)
LEMMA LogStep ==
  ASSUME LogShape, LogShape', [Next]_vars
  PROVE  [Log!Next]_(Log!logvars)
<1> DEFINE F == [s \in Kept |-> s]
<1>0. F' = [s \in Kept' |-> s] /\ DOMAIN F = Kept /\ \A s \in Kept : F[s] = s
  OBVIOUS
<1> HIDE DEF F
<1>1. ASSUME Appended PROVE Log!Next
  <2>1. high' = high + 1 /\ Kept' = Kept \cup {high + 1} /\ high + 1 \in Nat
    BY <1>1, KeptStep DEF LogShape
  <2>2. F' = [s \in Kept \cup {high + 1} |-> IF s = high + 1 THEN high + 1 ELSE F[s]]
    BY <1>0, <2>1
  <2>3. PICK d \in Nat : d = high + 1
    BY <2>1
  <2>4. Log!Append(d)
    BY <1>0, <2>1, <2>2, <2>3 DEF Log!Append, F
  <2> QED
    BY <2>4 DEF Log!Next
<1>2. ASSUME Evicted PROVE Log!Next
  <2>1. high' = high /\ low \in Kept /\ Kept' = Kept \ {low}
    BY <1>2, KeptStep
  <2>2. \A r \in Kept : low <= r
    BY KeptIs
  <2>3. F' = [r \in Kept \ {low} |-> F[r]]
    BY <1>0, <2>1
  <2>4. Log!DropOldest
    BY <1>0, <2>1, <2>2, <2>3 DEF Log!DropOldest, F
  <2> QED
    BY <2>4 DEF Log!Next
<1>3. ASSUME Cleared PROVE Log!Next
  <2>1. high' = high /\ F' = [s \in {} |-> s]
    BY <1>0, <1>3, KeptStep
  <2> QED
    BY <2>1 DEF Log!Next, Log!Clear, F
<1>4. ASSUME UNCHANGED <<low, high>> PROVE UNCHANGED Log!logvars
  BY <1>4, KeptStep DEF Log!logvars
<1> QED
  BY <1>1, <1>2, <1>3, <1>4, LogMoves DEF Write, Evict, Clear

(* The transport that the readers of reader.c are proved over is the log   *)
(* that transport.c is proved to implement: an append of the next number,  *)
(* a drop of the oldest or a clear is all that happens to it.              *)
THEOREM ReadsTheLog == Spec => LogSpec
<1>1. Init => Log!Init
  <2> SUFFICES ASSUME Init PROVE Log!Init
    OBVIOUS
  <2>1. Kept = {} /\ high = 0
    BY DEF Init, Kept, Empty
  <2> QED
    BY <2>1 DEF Log!Init
<1> QED
  BY <1>1, LogShapeInit, LogShapeStep, LogStep, PTL DEF Spec, LogSpec, Log!Spec

(* And nothing that the log can do is missing: whatever step of the log    *)
(* takes the frames low..high to another such range is an append, an       *)
(* eviction or a clear as this module's writers make them, or leaves the   *)
(* log alone.                                                              *)
THEOREM EveryLogStep ==
  ASSUME LogShape, LogShape', Log!Next
  PROVE  Appended \/ Evicted \/ Cleared \/ UNCHANGED <<Kept, high>>
<1> DEFINE F == [s \in Kept |-> s]
<1>0. F' = [s \in Kept' |-> s] /\ DOMAIN F = Kept /\ DOMAIN F' = Kept'
  OBVIOUS
<1>1. \A s : s \in Kept <=> s \in Nat /\ low <= s /\ s <= high /\ s > 0
  BY KeptIs
<1>2. \A s : s \in Kept' <=> s \in Nat /\ low' <= s /\ s <= high' /\ s > 0
  BY DEF LogShape, Kept, Empty
<1>3. ASSUME NEW d, Log!Append(d) PROVE Appended
  <2>1. high' = high + 1 /\ Kept' = Kept \cup {high + 1}
    BY <1>0, <1>3 DEF Log!Append
  <2>2. low' <= high + 1 /\ low' # 0
    BY <1>2, <2>1 DEF LogShape
  <2>3. low # 0 => low' <= low /\ low <= low'
    BY <1>1, <1>2, <2>1, <2>2 DEF LogShape
  <2>4. low = 0 => low' = 1
    BY <1>1, <1>2, <2>1, <2>2 DEF LogShape
  <2> QED
    BY <2>1, <2>3, <2>4 DEF Appended, LogShape
<1>4. ASSUME Log!DropOldest PROVE Evicted
  <2>1. PICK s \in Kept : (\A r \in Kept : s <= r) /\ Kept' = Kept \ {s} /\ high' = high
    BY <1>0, <1>4 DEF Log!DropOldest
  <2>2. low \in Kept /\ s = low
    BY <1>1, <2>1 DEF LogShape
  <2>3. Kept' = Kept \ {low}
    BY <2>1, <2>2
  <2>4. ~Empty /\ low' # 0
    BY <2>1, <2>2, <1>1 DEF LogShape, Empty
  <2>5. low' >= low + 1
    BY <1>1, <1>2, <2>1, <2>2, <2>3, <2>4 DEF LogShape
  <2>6. low' <= low + 1
    <3>1. CASE low = high
      BY <2>1, <3>1 DEF LogShape
    <3>2. CASE low # high
      <4>1. low + 1 \in Kept /\ low + 1 # low
        BY <1>1, <2>2, <3>2 DEF LogShape
      <4>2. low + 1 \in Kept'
        BY <2>3, <4>1
      <4> QED
        BY <1>2, <4>2
    <3> QED
      BY <3>1, <3>2
  <2> QED
    BY <2>1, <2>4, <2>5, <2>6 DEF Evicted, LogShape
<1>5. ASSUME Log!Clear PROVE Cleared \/ UNCHANGED <<Kept, high>>
  <2>1. Kept' = {} /\ high' = high
    BY <1>0, <1>5 DEF Log!Clear
  <2>2. high' = 0 \/ low' = high' + 1
    BY <1>2, <2>1 DEF LogShape
  <2>3. CASE low' = high + 1
    BY <2>1, <2>3 DEF Cleared
  <2>4. CASE high = 0
    BY <1>1, <2>1, <2>4 DEF LogShape
  <2> QED
    BY <2>1, <2>2, <2>3, <2>4
<1> QED
  BY <1>3, <1>4, <1>5 DEF Log!Next
=============================================================================
