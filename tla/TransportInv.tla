---------------------------- MODULE TransportInv ----------------------------
(***************************************************************************)
(* The inductive invariant of Transport.  The safety invariants speak of   *)
(* the committed page only; what makes them inductive is what the working  *)
(* page holds at each step of the thread that owns the mutex, where the    *)
(* slot of an allocation lies relative to the ring, and the cyclic order   *)
(* in which the frames lie in the arena.                                   *)
(***************************************************************************)
EXTENDS Transport

End(m, o) == o + HDR_SIZE + m[o].data_size

(* The sequence numbers of a page. *)
Shape(p) ==
  /\ p.seq_high <= MaxSeq
  /\ p.seq_low <= p.seq_high + 1
  /\ p.seq_low = 0 => p.seq_high = 0
  /\ Empty(p) => p.off_head = 0 /\ p.off_tail = 0 /\ p.high_water_mark \in {0, WORKSPACE}

Anchored(p, l) == ~Empty(p) => l[p.seq_low] = p.off_head /\ l[p.seq_high] = p.off_tail

Placed(p, m, l) ==
  \A s \in Live(p) : /\ l[s] \in Offs
                     /\ m[l[s]].seq = s
                     /\ m[l[s]].off = l[s]
                     /\ End(m, l[s]) <= p.high_water_mark

Chained(p, m, l) ==
  \A s \in Live(p) : s < p.seq_high => /\ m[l[s]].next_off = l[s + 1]
                                       /\ m[l[s + 1]].prev_off = l[s]

Apart(p, m, l) ==
  \A s, r \in Live(p) : s < r => End(m, l[s]) <= l[r] \/ End(m, l[r]) <= l[s]

(* Going up the arena and around its end, the frames appear in the order *)
(* of their sequence numbers.                                            *)
Cyclic(p, l) ==
  \A q, s, r \in Live(p) :
    q < s /\ s < r => \/ l[q] < l[s] /\ l[s] < l[r]
                      \/ l[s] < l[r] /\ l[r] < l[q]
                      \/ l[r] < l[q] /\ l[q] < l[s]

(* The high water mark is attained. *)
Topped(p, m, l) == ~Empty(p) => \E s \in Live(p) : End(m, l[s]) = p.high_water_mark

Good(p, m, l) == /\ Shape(p) /\ Anchored(p, l) /\ Placed(p, m, l) /\ Chained(p, m, l)
                 /\ Apart(p, m, l) /\ Cyclic(p, l) /\ Topped(p, m, l)

Filled(p, m, l) == \A s \in Live(p) : m[l[s]].data \in Data

-----------------------------------------------------------------------------
(* The slot of an allocation in progress. *)
SlotFits(sl) ==
  /\ sl.off \in Offs
  /\ sl.size \in Sizes
  /\ sl.off + HDR_SIZE + sl.size <= arena_size

SlotBehindTail(sl) ==
  Empty(C) \/ sl.off = WORKSPACE \/ sl.off = a0_max_align(End(mem, C.off_tail))

(* The frame being added lies clear of every committed one, and continues *)
(* their cyclic order.                                                    *)
SlotFree(sl) ==
  LET end == sl.off + HDR_SIZE + sl.size
  IN  /\ \A s \in Live(C) : End(mem, loc[s]) <= sl.off \/ end <= loc[s]
      /\ \A q, s \in Live(C) :
           q < s => \/ loc[q] < loc[s] /\ loc[s] < sl.off
                    \/ loc[s] < sl.off /\ sl.off < loc[q]
                    \/ sl.off < loc[q] /\ loc[q] < loc[s]

(* What the owner of the mutex has done to the working page. *)
AtEvict(t) ==
  pc[t] \in {"evict", "evict_flip", "evict_copy"} =>
    /\ SlotFits(slot[t])
    /\ SlotBehindTail(slot[t])
    /\ C.seq_high < MaxSeq
    /\ pc[t] = "evict" => W = C
    /\ pc[t] = "evict_flip" => ~Empty(C) /\ W = remove_head(C)

AtLink(t) ==
  pc[t] = "link" =>
    /\ SlotFits(slot[t])
    /\ SlotFree(slot[t])
    /\ C.seq_high < MaxSeq
    /\ W = slot_init(C)
    /\ mem[slot[t].off] = new_frame(C, slot[t])
    /\ loc[C.seq_high + 1] = slot[t].off

AtFill(t) ==
  /\ pc[t] \in {"fill", "filled"} =>
       /\ Good(W, mem, loc)
       /\ W.seq_high = C.seq_high + 1
       /\ W.high_water_mark <= arena_size
       /\ W.high_water_mark >= WORKSPACE
       /\ W.seq_high \notin Live(C) /\ Live(W) = Live(C) \cup {W.seq_high}
  /\ pc[t] = "fill" =>
       /\ SlotFits(slot[t])
       /\ slot[t].off = loc[W.seq_high]
       /\ mem[slot[t].off].data_size = slot[t].size
       /\ \A s \in Live(W) : s < W.seq_high => mem[loc[s]].data \in Data
  /\ pc[t] = "filled" => Filled(W, mem, loc)

AtRest(t) ==
  /\ pc[t] = "cs" /\ t \in Writers => W = C
  /\ pc[t] = "flip" => W = cleared(C)

(* Only writers change the working page. *)
WriterPCs == {"evict", "evict_flip", "evict_copy", "link", "fill", "filled", "flip", "copy"}
Roles ==
  \A t \in Threads : /\ pc[t] \in WriterPCs => t \in Writers
                     /\ pc[t] \in Waiting => t \in Readers
                     /\ pc[t] \in {"sd_sleep", "sd_woken"} => t \in Closers

Birth ==
  /\ initialized => arena_size \in ArenaSizes /\ C.high_water_mark >= WORKSPACE
  /\ ~initialized =>
       /\ \A i \in 0..1 : pages[i].seq_high = 0 /\ pages[i].seq_low = 0
                          /\ pages[i].off_head = 0 /\ pages[i].off_tail = 0
       /\ \A t \in Threads : pc[t] \in {"dead", "init_fields", "init_done"}
  /\ \A t \in Threads : pc[t] = "init_done" => /\ arena_size \in ArenaSizes
                                                /\ C.high_water_mark >= WORKSPACE

Storage ==
  /\ Good(C, mem, loc)
  /\ Filled(C, mem, loc)
  /\ C.high_water_mark <= arena_size
  /\ Birth
  /\ Roles
  /\ \A t \in Threads : AtEvict(t) /\ AtLink(t) /\ AtFill(t) /\ AtRest(t)

(* _wait_cnt counts the threads inside a0_transport_timedwait of the connection. *)
WaitersOn(c) == {t \in Threads : ConnOf[t] = c /\ pc[t] \in Waiting}
WaitCounted  == \A c \in Conns : wait_cnt[c] = Cardinality(WaitersOn(c))

(* A process that is connecting has no other thread yet. *)
InitAlone ==
  \A t, u \in Threads :
    pc[t] \in {"init_fields", "init_done"} /\ ConnOf[u] = ConnOf[t] /\ u # t => pc[u] = "dead"

(* The working page is the committed one wherever the pointer of a steady  *)
(* connection may be moved.  A thread that wakes up does not see to that   *)
(* by itself: it needs that no death has left the mutex free with an       *)
(* unfinished working page.  The threads of a connection nobody waits on   *)
(* never sleep, so they come in through a0_transport_lock, which resets it.*)
CleanInside == \A t \in Threads : pc[t] = "cs" /\ Steady(ConnOf[t]) => W = C
CleanFree   == crashes = 0 /\ owner = None => W = C
PollsAwake  == \A t \in Threads : Polls(ConnOf[t]) => pc[t] \notin Asleep \cup Queued
Clean == CleanInside /\ CleanFree /\ PollsAwake

(* A pointer that was set is not ahead of the tail, and is at its frame while *)
(* that is alive.                                                             *)
OnFrame(c) == seq[c] > 0 => /\ seq[c] <= C.seq_high
                            /\ seq[c] \in Live(C) => off[c] = loc[seq[c]]
SteadyOnFrame == \A c \in Conns : Steady(c) => OnFrame(c)

(* The invariant. *)
IInv == TypeOK /\ OwnerIsInside /\ Storage /\ InitAlone /\ WaitCounted /\ ShutdownDrains
=============================================================================
