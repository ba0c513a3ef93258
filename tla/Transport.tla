------------------------------ MODULE Transport ------------------------------
(***************************************************************************)
(* The AlephZero transport (src/transport.c): a ring of variable-size      *)
(* frames in shared memory, guarded by one robust mutex and one condition  *)
(* variable, whose bookkeeping is kept in two state pages so that the      *)
(* death of the lock holder at any instruction leaves a usable ring.       *)
(*                                                                         *)
(* A step is what the code does between two points where the death of its  *)
(* process, or another thread, could tell the difference: an update of the *)
(* working page, the flip of committed_page_idx, the copy of the page with *)
(* the broadcast that follows it, the writes to the arena.  The mutex and  *)
(* the condition variable (src/mtx.c) appear as what the transport needs   *)
(* of them: an owner, the FUTEX_OWNER_DIED bit, and a wait set that a      *)
(* broadcast empties.                                                      *)
(***************************************************************************)
EXTENDS Integers, FiniteSets

CONSTANTS
  Threads,      \* the threads of every process that maps the arena
  Conns,        \* the a0_transport_t objects; one per process
  ConnOf,       \* the connection each thread works with
  Writers,      \* threads that allocate, commit, clear and resize (writer.c)
  Readers,      \* threads that wait and iterate                  (reader.c)
  Waiters,      \* the readers that wait (the others poll)
  TimedWaiters, \* the waiters that give a deadline
  Closers,      \* threads that shut their connection down (reader close)
  Sizes,        \* payload sizes passed to a0_transport_alloc
  Data,         \* payloads
  Junk,         \* the content of arena bytes nobody may rely on
  ArenaSizes,   \* values of hdr->arena_size that init and resize may store
  MaxSeq,       \* bound: last sequence number allocated
  MaxCrashes,   \* bound: number of process deaths
  None          \* "no thread"

ALIGN     == 16     \* alignof(max_align_t)
HDR_SIZE  == 40     \* sizeof(a0_transport_frame_hdr_t)
THDR_SIZE == 144    \* sizeof(a0_transport_hdr_t)

a0_max_align(off) == ((off + ALIGN - 1) \div ALIGN) * ALIGN
a0_transport_workspace_off == a0_max_align(THDR_SIZE)

WORKSPACE == a0_transport_workspace_off

ASSUME ConstantsAssumption ==
  /\ ConnOf \in [Threads -> Conns]
  /\ Writers \subseteq Threads /\ Readers \subseteq Threads /\ Closers \subseteq Threads
  /\ TimedWaiters \subseteq Waiters /\ Waiters \subseteq Readers
  /\ Writers \cap (Readers \cup Closers) = {}
  /\ IsFiniteSet(Threads)
  /\ None \notin Threads
  /\ Junk \notin Data
  /\ Sizes \subseteq Nat \ {0}
  /\ ArenaSizes \subseteq {n \in Nat : n > WORKSPACE}
  /\ MaxSeq \in Nat /\ MaxCrashes \in Nat

(* Where a frame may start: an aligned offset of the workspace. *)
Offs == UNION {{o \in WORKSPACE..(n - 1) : o % ALIGN = 0} : n \in ArenaSizes}
Seqs == 1..MaxSeq

VARIABLES
  \* the transport header, in shared memory
  initialized, arena_size, pages, committed_page_idx,
  \* the arena: the frame header found at an offset, with the payload after it
  mem,
  \* hdr->mtx
  owner, owner_died,
  \* the a0_transport_t of each connection
  seq, off, wait_cnt, shutdown,
  \* control state of each thread, arguments of the a0_transport_alloc or wait in progress
  pc, slot, want,
  \* auxiliary: the offset given to a sequence number, the number of deaths
  loc, crashes

shared == <<initialized, arena_size, pages, committed_page_idx, mem, loc>>
lock   == <<owner, owner_died>>
conn   == <<seq, off, wait_cnt, shutdown>>
local  == <<pc, slot, want>>
vars   == <<shared, lock, conn, local, crashes>>

Page  == [seq_low : Nat, seq_high : Nat, off_head : Nat, off_tail : Nat, high_water_mark : Nat]
Frame == [seq : Nat, off : Nat, next_off : Nat, prev_off : Nat, data_size : Nat, data : Data \cup {Junk}]
Preds == {"empty", "nonempty", "has_next"}

ZeroPage  == [seq_low |-> 0, seq_high |-> 0, off_head |-> 0, off_tail |-> 0, high_water_mark |-> 0]
NoSlot    == [off |-> 0, size |-> 0]
ZeroFrame == [seq |-> 0, off |-> 0, next_off |-> 0, prev_off |-> 0, data_size |-> 0, data |-> Junk]

C == pages[committed_page_idx]        \* a0_transport_committed_page
W == pages[1 - committed_page_idx]    \* a0_transport_working_page

(***************************************************************************)
(* Control states.  A thread outside "dead", "init", "idle" and the states *)
(* of a wait owns the mutex.                                               *)
(***************************************************************************)
Asleep == {"sleep", "sd_sleep"}                      \* in a0_cnd_timedwait
Queued == {"woken", "timedout", "sd_woken"}          \* queued on the mutex
Waiting == {"sleep", "woken", "timedout"}            \* inside a0_transport_timedwait
Holding == {"init_fields", "init_done", "cs", "evict", "evict_flip", "evict_copy",
            "link", "fill", "filled", "flip", "copy"}
PCs == {"dead", "idle"} \cup Asleep \cup Queued \cup Holding

TypeOK ==
  /\ initialized \in BOOLEAN
  /\ arena_size \in ArenaSizes \cup {0}
  /\ pages \in [0..1 -> Page]
  /\ committed_page_idx \in 0..1
  /\ mem \in [Offs -> Frame]
  /\ owner \in Threads \cup {None}
  /\ owner_died \in BOOLEAN
  /\ seq \in [Conns -> Nat] /\ off \in [Conns -> Nat]
  /\ wait_cnt \in [Conns -> Nat] /\ shutdown \in [Conns -> BOOLEAN]
  /\ pc \in [Threads -> PCs]
  /\ slot \in [Threads -> [off : Nat, size : Nat]]
  /\ want \in [Threads -> Preds]
  /\ loc \in [Seqs -> Nat]
  /\ crashes \in Nat

(* A file just created by ftruncate: every byte is zero, nobody is connected. *)
Init ==
  /\ initialized = FALSE
  /\ arena_size = 0
  /\ pages = [i \in 0..1 |-> ZeroPage]
  /\ committed_page_idx = 0
  /\ mem = [o \in Offs |-> ZeroFrame]
  /\ owner = None /\ owner_died = FALSE
  /\ seq = [c \in Conns |-> 0] /\ off = [c \in Conns |-> 0]
  /\ wait_cnt = [c \in Conns |-> 0] /\ shutdown = [c \in Conns |-> FALSE]
  /\ pc = [t \in Threads |-> "dead"]
  /\ slot = [t \in Threads |-> NoSlot]
  /\ want = [t \in Threads |-> "has_next"]
  /\ loc = [s \in Seqs |-> 0]
  /\ crashes = 0

Go(t, from, to) == pc[t] = from /\ pc' = [pc EXCEPT ![t] = to]

SetWorking(p)   == pages' = [pages EXCEPT ![1 - committed_page_idx] = p]

(* a0_cnd_broadcast: every sleeper is requeued on the mutex. *)
Broadcast(pcs) == [t \in Threads |-> CASE pcs[t] = "sleep"    -> "woken"
                                       [] pcs[t] = "sd_sleep" -> "sd_woken"
                                       [] OTHER               -> pcs[t]]

-----------------------------------------------------------------------------
(* Connecting, locking, unlocking. *)

Peers(t) == {u \in Threads : ConnOf[u] = ConnOf[t]}

(* Mutants: a waiter that goes on without the mutex; a forgotten copy of the page. *)
AcquireUnchecked(t) == owner' = t /\ UNCHANGED owner_died
KeepWorking         == UNCHANGED pages

(* a0_transport_lock: *)
(* take the mutex, dead owner or not, and drop any incomplete change. *)
Acquire(t)   == owner = None /\ owner' = t /\ UNCHANGED owner_died
ResetWorking == SetWorking(C)

a0_transport_lock(t) ==
  /\ Go(t, "idle", "cs")
  /\ Acquire(t)
  /\ ResetWorking
  /\ UNCHANGED <<initialized, arena_size, committed_page_idx, mem, loc, conn, slot, want, crashes>>

(* a0_mtx_unlock clears FUTEX_OWNER_DIED. *)
Release == owner' = None /\ owner_died' = FALSE

a0_transport_unlock(t) ==
  /\ pc[t] \in {"cs", "filled"}
  /\ pc' = [pc EXCEPT ![t] = "idle"]
  /\ ResetWorking
  /\ Release
  /\ UNCHANGED <<initialized, arena_size, committed_page_idx, mem, loc, conn, slot, want, crashes>>

ZeroConn(c) ==
  /\ seq' = [seq EXCEPT ![c] = 0]
  /\ off' = [off EXCEPT ![c] = 0]
  /\ wait_cnt' = [wait_cnt EXCEPT ![c] = 0]
  /\ shutdown' = [shutdown EXCEPT ![c] = FALSE]

(* a0_transport_init, for a process none of whose threads is running. *)
a0_transport_init(t) ==
  /\ \A u \in Peers(t) : pc[u] = "dead"
  /\ pc' = [pc EXCEPT ![t] = "init_fields"]
  /\ Acquire(t)
  /\ ResetWorking
  /\ ZeroConn(ConnOf[t])
  /\ UNCHANGED <<initialized, arena_size, committed_page_idx, mem, loc, slot, want, crashes>>

InitFields(t) ==
  /\ Go(t, "init_fields", "init_done")
  /\ IF initialized
       THEN UNCHANGED <<arena_size, pages>>
       ELSE /\ arena_size' \in ArenaSizes
            /\ pages' = [i \in 0..1 |-> [pages[i] EXCEPT !.high_water_mark = WORKSPACE]]
  /\ UNCHANGED <<initialized, committed_page_idx, mem, loc, lock, conn, slot, want, crashes>>

InitDone(t) ==
  /\ pc[t] = "init_done"
  /\ initialized' = TRUE
  /\ ResetWorking
  /\ Release
  /\ pc' = [u \in Threads |-> IF u \in Peers(t) THEN "idle" ELSE pc[u]]
  /\ UNCHANGED <<arena_size, committed_page_idx, mem, loc, conn, slot, want, crashes>>

-----------------------------------------------------------------------------
(* Queries.  They read the working page. *)

Empty(p)          == p.seq_high = 0 \/ p.seq_low > p.seq_high
Live(p)           == {s \in Seqs : ~Empty(p) /\ p.seq_low <= s /\ s <= p.seq_high}
iter_valid(p, c)  == p.seq_low <= seq[c] /\ seq[c] <= p.seq_high
has_next(p, c)    == ~Empty(p) /\ seq[c] < p.seq_high
has_prev(p, c)    == ~Empty(p) /\ seq[c] > p.seq_low

a0_predicate_eval(p, c, w) == \/ w = "empty"    /\ Empty(p)
                              \/ w = "nonempty" /\ ~Empty(p)
                              \/ w = "has_next" /\ has_next(p, c)

(* a0_transport_frame_header; memory outside the workspace holds no frame. *)
Hdr(o) == IF o \in Offs THEN mem[o] ELSE ZeroFrame

frame_end(o) == o + HDR_SIZE + Hdr(o).data_size

-----------------------------------------------------------------------------
(* Writing. *)

frame_intersects(start1, size1, start2, size2) ==
  start1 < start2 + size2 /\ start2 < start1 + size1

find_slot(frame_size) ==
  LET next == a0_max_align(frame_end(W.off_tail))
  IN  IF Empty(W) \/ next + frame_size >= arena_size THEN WORKSPACE ELSE next

(* Mutant: a slot at the start of a wrapped ring evicts only what it overlaps. *)
slot_evicts_unwrapped(p, o, frame_size) ==
  ~Empty(p) /\ frame_intersects(o, frame_size, p.off_head, HDR_SIZE + Hdr(p.off_head).data_size)

slot_evicts(p, o, frame_size) ==
  /\ ~Empty(p)
  /\ \/ frame_intersects(o, frame_size, p.off_head, HDR_SIZE + Hdr(p.off_head).data_size)
     \/ p.off_tail < p.off_head /\ o = WORKSPACE

(* Mutants: the last frame is removed like any other; the mark is never lowered. *)
remove_head_unreset(p) ==
  [p EXCEPT !.seq_low = @ + 1, !.off_head = Hdr(p.off_head).next_off]
remove_head_unmarked(p) ==
  IF p.off_head = p.off_tail
    THEN [p EXCEPT !.seq_low = @ + 1, !.off_head = 0, !.off_tail = 0]
    ELSE remove_head_unreset(p)

(* a0_transport_remove_head, up to the commit it ends with. *)
remove_head(p) ==
  IF p.off_head = p.off_tail
    THEN [seq_low |-> p.seq_low + 1, seq_high |-> p.seq_high,
          off_head |-> 0, off_tail |-> 0, high_water_mark |-> WORKSPACE]
    ELSE [seq_low |-> p.seq_low + 1, seq_high |-> p.seq_high,
          off_head |-> Hdr(p.off_head).next_off, off_tail |-> p.off_tail,
          high_water_mark |-> IF p.high_water_mark = frame_end(Hdr(p.off_head).off)
                                THEN frame_end(p.off_tail) ELSE p.high_water_mark]

(* Bytes start .. start + size - 1 of the arena are overwritten: whatever *)
(* header or payload they belonged to is lost.                            *)
Overwrite(m, start, size) ==
  [o \in Offs |->
     IF frame_intersects(o, HDR_SIZE, start, size) THEN ZeroFrame
     ELSE IF frame_intersects(o + HDR_SIZE, m[o].data_size, start, size)
            THEN [m[o] EXCEPT !.data = Junk]
            ELSE m[o]]

(* a0_transport_alloc, up to the eviction loop.  The caller has no other   *)
(* allocation outstanding; a request that does not fit (A0_ERR_FRAME_LARGE)*)
(* changes nothing.                                                        *)
a0_transport_alloc(t) ==
  /\ t \in Writers
  /\ Go(t, "cs", "evict")
  /\ W.seq_high < MaxSeq
  /\ \E size \in Sizes :
       LET o == find_slot(HDR_SIZE + size)
       IN  /\ o + HDR_SIZE + size <= arena_size
           /\ slot' = [slot EXCEPT ![t] = [off |-> o, size |-> size]]
  /\ UNCHANGED <<shared, lock, conn, want, crashes>>

EvictHead(t) ==
  /\ Go(t, "evict", "evict_flip")
  /\ slot_evicts(W, slot[t].off, HDR_SIZE + slot[t].size)
  /\ SetWorking(remove_head(W))
  /\ UNCHANGED <<initialized, arena_size, committed_page_idx, mem, loc, lock, conn, slot, want, crashes>>

(* a0_transport_slot_init: the header is written, the working page claims *)
(* the next sequence number.                                              *)
slot_init(p) ==
  [seq_low |-> IF p.seq_low = 0 THEN p.seq_high + 1 ELSE p.seq_low, seq_high |-> p.seq_high + 1,
   off_head |-> p.off_head, off_tail |-> p.off_tail, high_water_mark |-> p.high_water_mark]
new_frame(p, sl) ==
  [seq |-> p.seq_high + 1, off |-> sl.off, next_off |-> 0, prev_off |-> 0,
   data_size |-> sl.size, data |-> Junk]

SlotInit(t) ==
  /\ Go(t, "evict", "link")
  /\ ~slot_evicts(W, slot[t].off, HDR_SIZE + slot[t].size)
  /\ mem' = [Overwrite(mem, slot[t].off, HDR_SIZE) EXCEPT ![slot[t].off] = new_frame(W, slot[t])]
  /\ SetWorking(slot_init(W))
  /\ loc' = [loc EXCEPT ![W.seq_high + 1] = slot[t].off]
  /\ UNCHANGED <<initialized, arena_size, committed_page_idx, lock, conn, slot, want, crashes>>

(* maybe_set_head, update_tail and update_high_water_mark; the next_off of *)
(* the committed tail is written before the commit.                        *)
linked_page(p, o) ==
  [seq_low |-> p.seq_low, seq_high |-> p.seq_high,
   off_head |-> IF p.off_head = 0 THEN o ELSE p.off_head,
   off_tail |-> o,
   high_water_mark |-> IF p.high_water_mark < frame_end(o) THEN frame_end(o)
                                                           ELSE p.high_water_mark]

linked_mem(p, o) ==
  IF p.off_tail = 0 THEN mem
  ELSE [[mem EXCEPT ![p.off_tail].next_off = o] EXCEPT ![o].prev_off = p.off_tail]

LinkFrame(t) ==
  /\ Go(t, "link", "fill")
  /\ SetWorking(linked_page(W, slot[t].off))
  /\ mem' = linked_mem(W, slot[t].off)
  /\ UNCHANGED <<initialized, arena_size, committed_page_idx, loc, lock, conn, slot, want, crashes>>

(* The caller writes its payload into the frame it was given. *)
FillFrame(t) ==
  /\ Go(t, "fill", "filled")
  /\ \E d \in Data :
       mem' = [Overwrite(mem, slot[t].off + HDR_SIZE, slot[t].size)
                 EXCEPT ![slot[t].off].data = d]
  /\ slot' = [slot EXCEPT ![t] = NoSlot]
  /\ UNCHANGED <<initialized, arena_size, pages, committed_page_idx, loc, lock, conn, want, crashes>>

(* a0_transport_commit: flip the committed page first, then copy it over  *)
(* the other one and wake the waiters.                                    *)
CommitFlip(t, from, to) ==
  /\ Go(t, from, to)
  /\ committed_page_idx' = 1 - committed_page_idx
  /\ UNCHANGED <<initialized, arena_size, pages, mem, loc, lock, conn, slot, want, crashes>>

(* Mutant: a commit that wakes nobody. *)
CommitSilent(t, from, to) ==
  /\ Go(t, from, to)
  /\ ResetWorking
  /\ UNCHANGED <<initialized, arena_size, committed_page_idx, mem, loc, lock, conn, slot, want, crashes>>

CommitCopy(t, from, to) ==
  /\ pc[t] = from
  /\ pc' = Broadcast([pc EXCEPT ![t] = to])
  /\ ResetWorking
  /\ UNCHANGED <<initialized, arena_size, committed_page_idx, mem, loc, lock, conn, slot, want, crashes>>

a0_transport_commit(t) == CommitFlip(t, "filled", "copy") \/ CommitFlip(t, "flip", "copy")
                            \/ CommitCopy(t, "copy", "cs")
EvictCommit(t)         == CommitFlip(t, "evict_flip", "evict_copy")
                            \/ CommitCopy(t, "evict_copy", "evict")

(* Mutant: a clear that starts the numbering again. *)
cleared_restart(p) == [ZeroPage EXCEPT !.high_water_mark = WORKSPACE]

cleared(p) == [seq_low |-> p.seq_high + 1, seq_high |-> p.seq_high,
               off_head |-> 0, off_tail |-> 0, high_water_mark |-> WORKSPACE]

a0_transport_clear(t) ==
  /\ t \in Writers
  /\ Go(t, "cs", "flip")
  /\ SetWorking(cleared(W))
  /\ UNCHANGED <<initialized, arena_size, committed_page_idx, mem, loc, lock, conn, slot, want, crashes>>

a0_transport_resize(t) ==
  /\ t \in Writers
  /\ pc[t] = "cs"
  /\ \E n \in ArenaSizes : n >= W.high_water_mark /\ arena_size' = n
  /\ UNCHANGED <<initialized, pages, committed_page_idx, mem, loc, lock, conn, local, crashes>>

-----------------------------------------------------------------------------
(* Reading: the operations that move the pointer of a connection. *)

MovePointer(t, o, s) ==
  /\ t \in Readers
  /\ pc[t] = "cs"
  /\ off' = [off EXCEPT ![ConnOf[t]] = o]
  /\ seq' = [seq EXCEPT ![ConnOf[t]] = s]
  /\ UNCHANGED <<shared, lock, wait_cnt, shutdown, local, crashes>>

a0_transport_jump_head(t) == ~Empty(W) /\ MovePointer(t, W.off_head, W.seq_low)
a0_transport_jump_tail(t) == ~Empty(W) /\ MovePointer(t, W.off_tail, W.seq_high)

(* To the offset of a frame; the range checks are the code's. *)
jump_in_range(o) == o + HDR_SIZE < arena_size /\ o + HDR_SIZE + Hdr(o).data_size < arena_size

a0_transport_jump(t) ==
  \E s \in Live(C) : jump_in_range(loc[s]) /\ MovePointer(t, loc[s], Hdr(loc[s]).seq)

(* Mutant: the next_off of a frame that may be gone is followed. *)
next_ptr_unchecked(p, c) == Hdr(off[c]).next_off

next_ptr(p, c) == IF seq[c] < p.seq_low THEN p.off_head ELSE Hdr(off[c]).next_off
next_seq(p, c) == IF seq[c] < p.seq_low THEN p.seq_low  ELSE Hdr(next_ptr(p, c)).seq

a0_transport_step_next(t) ==
  /\ has_next(W, ConnOf[t])
  /\ MovePointer(t, next_ptr(W, ConnOf[t]), next_seq(W, ConnOf[t]))

a0_transport_step_prev(t) ==
  /\ has_prev(W, ConnOf[t])
  /\ LET o == Hdr(off[ConnOf[t]]).prev_off IN MovePointer(t, o, Hdr(o).seq)

(* a0_transport_frame returns the frame at the pointer, unless it is gone. *)
frame_present(p, c) == ~(seq[c] < p.seq_low)

-----------------------------------------------------------------------------
(* Notifications. *)

(* a0_transport_timedwait: the calls that do not return at once.          *)
(* a0_cnd_timedwait releases the mutex and joins the wait set in one step *)
(* with respect to a broadcast.                                           *)
a0_transport_timedwait(t) ==
  /\ t \in Waiters
  /\ Go(t, "cs", "sleep")
  /\ ~shutdown[ConnOf[t]]
  /\ \E w \in Preds :
       /\ want' = [want EXCEPT ![t] = w]
       /\ ~a0_predicate_eval(W, ConnOf[t], w)
  /\ wait_cnt' = [wait_cnt EXCEPT ![ConnOf[t]] = @ + 1]
  /\ Release
  /\ UNCHANGED <<shared, seq, off, shutdown, slot, crashes>>

Timeout(t) ==
  /\ t \in TimedWaiters
  /\ Go(t, "sleep", "timedout")
  /\ UNCHANGED <<shared, lock, conn, slot, want, crashes>>

(* A requeued waiter gets the mutex.  It does not reset the working page. *)
WaitReturns(t) == \/ pc[t] = "timedout"
                  \/ pc[t] = "woken" /\ \/ a0_predicate_eval(W, ConnOf[t], want[t])
                                        \/ shutdown[ConnOf[t]]
                                        \/ t \in TimedWaiters

(* Mutant: no broadcast on the way out. *)
WaitDoneSilent(t) ==
  /\ WaitReturns(t)
  /\ Acquire(t)
  /\ pc' = [pc EXCEPT ![t] = "cs"]
  /\ wait_cnt' = [wait_cnt EXCEPT ![ConnOf[t]] = @ - 1]
  /\ want' = [want EXCEPT ![t] = "has_next"]
  /\ UNCHANGED <<shared, seq, off, shutdown, slot, crashes>>

WaitDone(t) ==
  /\ WaitReturns(t)
  /\ Acquire(t)
  /\ pc' = Broadcast([pc EXCEPT ![t] = "cs"])
  /\ wait_cnt' = [wait_cnt EXCEPT ![ConnOf[t]] = @ - 1]
  /\ want' = [want EXCEPT ![t] = "has_next"]
  /\ UNCHANGED <<shared, seq, off, shutdown, slot, crashes>>

WaitAgain(t) ==
  /\ Go(t, "woken", "sleep")
  /\ owner = None
  /\ ~a0_predicate_eval(W, ConnOf[t], want[t]) /\ ~shutdown[ConnOf[t]]
  /\ Release
  /\ UNCHANGED <<shared, conn, slot, want, crashes>>

(* a0_transport_shutdown: wake everybody, then wait for the waiters of *)
(* this connection to leave.                                           *)
a0_transport_shutdown(t) ==
  /\ t \in Closers
  /\ pc[t] = "cs"
  /\ shutdown' = [shutdown EXCEPT ![ConnOf[t]] = TRUE]
  /\ IF wait_cnt[ConnOf[t]] = 0
       THEN pc' = Broadcast(pc) /\ UNCHANGED lock
       ELSE pc' = [Broadcast(pc) EXCEPT ![t] = "sd_sleep"] /\ Release
  /\ UNCHANGED <<shared, seq, off, wait_cnt, slot, want, crashes>>

(* Mutant: the shutdown waits once instead of until the count is zero. *)
ShutdownWakeOnce(t) ==
  /\ Go(t, "sd_woken", "cs")
  /\ Acquire(t)
  /\ UNCHANGED <<shared, conn, slot, want, crashes>>

ShutdownWake(t) ==
  /\ pc[t] = "sd_woken"
  /\ owner = None
  /\ IF wait_cnt[ConnOf[t]] = 0
       THEN pc' = [pc EXCEPT ![t] = "cs"] /\ Acquire(t)
       ELSE pc' = [pc EXCEPT ![t] = "sd_sleep"] /\ Release
  /\ UNCHANGED <<shared, conn, slot, want, crashes>>

-----------------------------------------------------------------------------
(* The death of a process, at any point.  Its memory is gone; the kernel  *)
(* walks the robust list and frees the mutex, leaving FUTEX_OWNER_DIED.   *)
Crash(c) ==
  /\ crashes < MaxCrashes
  /\ \E t \in Threads : ConnOf[t] = c /\ pc[t] # "dead"
  /\ pc' = [t \in Threads |-> IF ConnOf[t] = c THEN "dead" ELSE pc[t]]
  /\ IF owner # None /\ ConnOf[owner] = c
       THEN owner' = None /\ owner_died' = TRUE
       ELSE UNCHANGED lock
  /\ crashes' = crashes + 1
  /\ ZeroConn(c)
  /\ slot' = [t \in Threads |-> IF ConnOf[t] = c THEN NoSlot ELSE slot[t]]
  /\ want' = [t \in Threads |-> IF ConnOf[t] = c THEN "has_next" ELSE want[t]]
  /\ UNCHANGED shared

-----------------------------------------------------------------------------
Connecting(t) == a0_transport_init(t) \/ InitFields(t) \/ InitDone(t)
Writing(t) == \/ a0_transport_alloc(t) \/ EvictHead(t) \/ EvictCommit(t) \/ SlotInit(t)
              \/ LinkFrame(t) \/ FillFrame(t) \/ a0_transport_commit(t)
              \/ a0_transport_clear(t) \/ a0_transport_resize(t)
Reading(t) == \/ a0_transport_jump_head(t) \/ a0_transport_jump_tail(t) \/ a0_transport_jump(t)
              \/ a0_transport_step_next(t) \/ a0_transport_step_prev(t)
Notifying(t) == \/ a0_transport_timedwait(t) \/ Timeout(t) \/ WaitDone(t) \/ WaitAgain(t)
                \/ a0_transport_shutdown(t) \/ ShutdownWake(t)

Next == \/ \E t \in Threads : \/ a0_transport_lock(t) \/ a0_transport_unlock(t)
                              \/ Connecting(t) \/ Writing(t) \/ Reading(t) \/ Notifying(t)
        \/ \E c \in Conns : Crash(c)

Spec == Init /\ [][Next]_vars

(* A thread that runs inside the library keeps running; one that may leave *)
(* its critical section eventually does; the kernel hands the mutex to     *)
(* every queued thread in turn.                                            *)
Running(t) == \/ InitFields(t) \/ InitDone(t) \/ EvictHead(t) \/ EvictCommit(t) \/ SlotInit(t)
              \/ LinkFrame(t) \/ FillFrame(t) \/ a0_transport_commit(t) \/ a0_transport_unlock(t)

Fairness == /\ \A t \in Threads : WF_vars(Running(t)) /\ SF_vars(a0_transport_unlock(t))
            /\ \A t \in Waiters : SF_vars(WaitDone(t)) /\ SF_vars(WaitAgain(t))
            /\ \A t \in Closers : SF_vars(ShutdownWake(t))

FairSpec == Spec /\ Fairness

-----------------------------------------------------------------------------
(***************************************************************************)
(* Properties                                                              *)
(***************************************************************************)

(* The mutex is held by exactly the thread that is inside the transport: a *)
(* wake-up, a timeout, a retried lock or the death of an owner never lets  *)
(* a second thread in (a0_transport_lock, a0_cnd_timedwait).               *)
OwnerIsInside == \A t \in Threads : pc[t] \in Holding <=> owner = t

(* At every instruction of every operation, so also after a death there,  *)
(* the committed page describes a complete list: head and tail are where  *)
(* the page says, sequence numbers are consecutive, and next_off/prev_off *)
(* lead from each frame to its neighbours.                                *)
Linked(p) ==
  /\ ~Empty(p) => loc[p.seq_low] = p.off_head /\ loc[p.seq_high] = p.off_tail
  /\ Empty(p) => p.off_head = 0 /\ p.off_tail = 0
  /\ \A s \in Live(p) :
       /\ loc[s] \in Offs
       /\ Hdr(loc[s]).seq = s /\ Hdr(loc[s]).off = loc[s]
       /\ s < p.seq_high => /\ Hdr(loc[s]).next_off = loc[s + 1]
                            /\ Hdr(loc[s + 1]).prev_off = loc[s]
CommittedLinked == Linked(C)

(* No two committed frames share a byte, and no allocation, committed or   *)
(* not, has written into one (find_slot, slot_evicts, evict).              *)
Disjoint(p) ==
  \A s, r \in Live(p) : s < r =>
    ~frame_intersects(loc[s], HDR_SIZE + Hdr(loc[s]).data_size,
                      loc[r], HDR_SIZE + Hdr(loc[r]).data_size)
CommittedIntact == /\ Disjoint(C)
                   /\ \A s \in Live(C) : Hdr(loc[s]).data # Junk

(* high_water_mark is the end of the highest live frame, not merely a     *)
(* bound on it, whatever was evicted, and lies inside the arena: this is  *)
(* what makes a0_transport_resize safe and a0_transport_used_space exact. *)
HighWaterMarkExact ==
  initialized =>
    /\ C.high_water_mark <= arena_size
    /\ IF Empty(C) THEN C.high_water_mark = WORKSPACE
                   ELSE /\ \A s \in Live(C) : frame_end(loc[s]) <= C.high_water_mark
                        /\ \E s \in Live(C) : frame_end(loc[s]) = C.high_water_mark

(* A pointer that was set never runs ahead of what was committed, and while *)
(* a0_transport_iter_valid accepts it, it is at the live frame of its       *)
(* sequence number and a0_transport_frame returns that frame, however many  *)
(* evictions, clears and deaths happened since it was set.  The exception   *)
(* is the code's: a waiter that wakes up after a death may move by the      *)
(* working page that the dead process left (NothingUncommittedIsRead), so   *)
(* after a death only the connections nobody waits on are spoken of.        *)
Polls(c)  == \A t \in Waiters : ConnOf[t] # c
Steady(c) == crashes = 0 \/ Polls(c)
PointerSound ==
  \A c \in Conns :
    Steady(c) /\ seq[c] > 0 =>
      /\ seq[c] <= C.seq_high
      /\ frame_present(C, c) <=> iter_valid(C, c)
      /\ iter_valid(C, c) => /\ seq[c] \in Live(C) /\ off[c] = loc[seq[c]]
                             /\ Hdr(off[c]).seq = seq[c]

(* Once a0_transport_shutdown has returned, no thread is left inside a     *)
(* a0_transport_timedwait of that connection, and none enters one again.   *)
ShutdownDrains ==
  \A c \in Conns :
    shutdown[c] /\ (\A t \in Threads : ConnOf[t] = c => pc[t] \notin {"sd_sleep", "sd_woken"})
      => \A t \in Threads : ConnOf[t] = c => pc[t] \notin Waiting

(* No waiter sleeps for ever on a predicate that is satisfied: every commit, *)
(* eviction and clear that makes one true reaches it.                        *)
NoStuckWaiter ==
  \A t \in Readers : []<>~(pc[t] \in Waiting /\ a0_predicate_eval(C, ConnOf[t], want[t]))

(* a0_transport_shutdown returns, or its process dies. *)
ShutdownReturns ==
  \A t \in Closers : pc[t] \in {"sd_sleep", "sd_woken"} ~> pc[t] \in {"cs", "dead"}

(* Claim of transport.h: an allocated frame is not tracked until it is      *)
(* committed, whoever dies when: no pointer ever gets past the committed    *)
(* tail.                                                                    *)
NothingUncommittedIsRead == \A c \in Conns : seq[c] <= C.seq_high

(* What the committed state means to a user: the sequence of payloads that *)
(* TransportLog specifies.                                                 *)
Log == INSTANCE TransportLog WITH
         frames <- [s \in Live(C) |-> Hdr(loc[s]).data],
         last   <- C.seq_high
LogSpec == Log!Spec
=============================================================================
