--------------------------- MODULE TransportProofs ---------------------------
(***************************************************************************)
(* Proofs that the invariants of Transport hold for every number of        *)
(* threads, connections, frame sizes, arena sizes, sequence numbers and    *)
(* process deaths, that the transport implements the log of TransportLog,  *)
(* and that the pointers of its connections stay on the frames they were   *)
(* given.                                                                  *)
(***************************************************************************)
EXTENDS TransportInv, FiniteSetTheorems, TLAPS

-----------------------------------------------------------------------------
(* Arithmetic of offsets. *)

(* a0_max_align rounds up to the next multiple of the alignment. *)
LEMMA MaxAlign ==
  ASSUME NEW x \in Nat
  PROVE  /\ a0_max_align(x) \in Nat
         /\ a0_max_align(x) % ALIGN = 0
         /\ x <= a0_max_align(x)
         /\ \A y \in Nat : y % ALIGN = 0 /\ x <= y => a0_max_align(x) <= y
  BY DEF a0_max_align, ALIGN

(* The workspace starts right after the transport header. *)
LEMMA Workspace == WORKSPACE = 144
  BY DEF WORKSPACE, a0_transport_workspace_off, a0_max_align, ALIGN, THDR_SIZE

(* What it means to be a frame offset. *)
LEMMA OffsetFacts ==
  /\ \A o \in Offs : o \in Nat /\ o >= WORKSPACE /\ o % ALIGN = 0
  /\ \A o \in Nat, n \in ArenaSizes :
       o >= WORKSPACE /\ o % ALIGN = 0 /\ o < n => o \in Offs
  BY Workspace, ConstantsAssumption DEF Offs

(* Sequence numbers alive in a page. *)
LEMMA LiveFacts ==
  ASSUME NEW p \in Page, Shape(p)
  PROVE  /\ Empty(p) <=> Live(p) = {}
         /\ ~Empty(p) => p.seq_low \in Live(p) /\ p.seq_high \in Live(p)
         /\ \A s \in Live(p) : s \in Nat /\ s \in Seqs
         /\ \A s : s \in Live(p) <=> ~Empty(p) /\ s \in Nat /\ p.seq_low <= s /\ s <= p.seq_high
  BY ConstantsAssumption DEF Page, Shape, Empty, Live, Seqs

-----------------------------------------------------------------------------
(* The two pages. *)

(* Both pages have the type of a page. *)
LEMMA Pages ==
  ASSUME TypeOK
  PROVE  C \in Page /\ W \in Page
  BY DEF TypeOK, C, W

(* A store to the working page leaves the committed one alone. *)
LEMMA SettingWorking ==
  ASSUME TypeOK, NEW p \in Page, SetWorking(p), UNCHANGED committed_page_idx
  PROVE  C' = C /\ W' = p /\ pages' \in [0..1 -> Page]
  BY DEF TypeOK, C, W, SetWorking

(* The flip of a0_transport_commit exchanges the two pages. *)
LEMMA Flipping ==
  ASSUME TypeOK, UNCHANGED pages, committed_page_idx' = 1 - committed_page_idx
  PROVE  C' = W /\ W' = C /\ committed_page_idx' \in 0..1
  BY DEF TypeOK, C, W

-----------------------------------------------------------------------------
(* Evicting the head of a good page leaves a good page. *)
LEMMA RemoveHeadGood ==
  ASSUME TypeOK, NEW p \in Page, Good(p, mem, loc), ~Empty(p)
  PROVE  /\ remove_head(p) \in Page
         /\ Good(remove_head(p), mem, loc)
         /\ Live(remove_head(p)) \subseteq Live(p)
         /\ remove_head(p).seq_high = p.seq_high
         /\ remove_head(p).high_water_mark <= p.high_water_mark
         /\ remove_head(p).high_water_mark >= WORKSPACE
         /\ ~Empty(remove_head(p)) => remove_head(p).off_tail = p.off_tail
PROOF
<1> DEFINE q == remove_head(p)
<1>1. mem \in [Offs -> Frame] /\ loc \in [Seqs -> Nat]
  BY DEF TypeOK
<1>2. /\ p.seq_low \in Nat /\ p.seq_high \in Nat /\ p.off_head \in Nat
      /\ p.off_tail \in Nat /\ p.high_water_mark \in Nat
  BY DEF Page
<1>3. /\ p.seq_low \in Live(p) /\ p.seq_high \in Live(p) /\ p.seq_low \in 1..p.seq_high
      /\ \A s : s \in Live(p) <=> s \in Nat /\ p.seq_low <= s /\ s <= p.seq_high
  BY LiveFacts, <1>2, ConstantsAssumption DEF Good, Shape, Empty
<1>4. /\ loc[p.seq_low] = p.off_head /\ loc[p.seq_high] = p.off_tail
      /\ p.off_head \in Offs /\ p.off_tail \in Offs
  BY <1>3 DEF Good, Anchored, Placed
<1>5. \A s \in Live(p) : /\ loc[s] \in Offs /\ loc[s] \in Nat /\ loc[s] >= WORKSPACE
                         /\ mem[loc[s]] \in Frame /\ mem[loc[s]].data_size \in Nat
                         /\ End(mem, loc[s]) \in Nat /\ loc[s] + HDR_SIZE <= End(mem, loc[s])
                         /\ End(mem, loc[s]) <= p.high_water_mark
  BY <1>1, OffsetFacts DEF Good, Placed, Frame, End, HDR_SIZE
<1>6. frame_end(p.off_tail) = End(mem, p.off_tail) /\ Hdr(p.off_head) = mem[p.off_head]
      /\ mem[p.off_head].off = p.off_head /\ frame_end(p.off_head) = End(mem, p.off_head)
  BY <1>3, <1>4 DEF frame_end, End, Hdr, Good, Placed
<1>7. (p.off_head = p.off_tail) <=> (p.seq_low = p.seq_high)
  BY <1>3, <1>4, <1>5 DEF Good, Apart, HDR_SIZE
<1>8. CASE p.seq_low = p.seq_high
  <2>1. q = [seq_low |-> p.seq_low + 1, seq_high |-> p.seq_high,
             off_head |-> 0, off_tail |-> 0, high_water_mark |-> WORKSPACE]
    BY <1>7, <1>8 DEF remove_head
  <2>2. q \in Page /\ q.seq_low = p.seq_low + 1 /\ q.seq_high = p.seq_high
        /\ q.off_head = 0 /\ q.off_tail = 0 /\ q.high_water_mark = WORKSPACE
    <3> HIDE DEF q
    <3> QED BY <2>1, Workspace DEF Page
  <2>3. Empty(q) /\ Live(q) = {}
    BY <2>2, <1>2, <1>8 DEF Empty, Live
  <2>4. Good(q, mem, loc)
    BY <2>2, <2>3, <1>2, <1>3, <1>8 DEF Good, Shape, Anchored, Placed, Chained, Apart, Cyclic, Topped
  <2>5. WORKSPACE <= p.high_water_mark
    BY <1>3, <1>5, Workspace, <1>2 DEF HDR_SIZE
  <2> QED BY <2>2, <2>3, <2>4, <2>5, Workspace
<1>9. CASE p.seq_low < p.seq_high
  <2> DEFINE mark == IF p.high_water_mark = End(mem, p.off_head)
                       THEN End(mem, p.off_tail) ELSE p.high_water_mark
  <2>1. q = [seq_low |-> p.seq_low + 1, seq_high |-> p.seq_high,
             off_head |-> mem[p.off_head].next_off, off_tail |-> p.off_tail,
             high_water_mark |-> mark]
    BY <1>6, <1>7, <1>9, <1>2 DEF remove_head
  <2>2. mem[p.off_head].next_off = loc[p.seq_low + 1] /\ p.seq_low + 1 \in Live(p)
    BY <1>3, <1>4, <1>9, <1>2 DEF Good, Chained
  <2>3. mark \in Nat /\ WORKSPACE <= mark /\ mark <= p.high_water_mark
    BY <1>2, <1>3, <1>4, <1>5, Workspace DEF HDR_SIZE
  <2>4. q \in Page /\ q.seq_low = p.seq_low + 1 /\ q.seq_high = p.seq_high
        /\ q.off_head = loc[p.seq_low + 1] /\ q.off_tail = p.off_tail /\ q.high_water_mark = mark
    <3> HIDE DEF mark, q
    <3>1. p.off_head \in Offs /\ mem[p.off_head].next_off \in Nat
      BY <1>1, <1>4 DEF Frame
    <3> QED BY <2>1, <2>2, <2>3, <3>1 DEF Page
  <2>5. ~Empty(q) /\ \A s : s \in Live(q) <=> s \in Nat /\ p.seq_low < s /\ s <= p.seq_high
    <3>1. ~Empty(q)
      BY <2>4, <1>2, <1>3, <1>9 DEF Empty
    <3>2. p.seq_high <= MaxSeq
      BY DEF Good, Shape
    <3> QED BY <2>4, <3>1, <3>2, <1>2, <1>3, ConstantsAssumption DEF Live, Seqs
  <2>6. Live(q) \subseteq Live(p)
    BY <2>5, <1>3, <1>2
  <2>7. Shape(q) /\ Anchored(q, loc)
    BY <2>4, <2>5, <1>2, <1>4, <1>9 DEF Shape, Anchored, Good
  <2>8. Chained(q, mem, loc) /\ Apart(q, mem, loc) /\ Cyclic(q, loc)
    <3>1. Chained(q, mem, loc)
      BY <2>4, <2>6 DEF Good, Chained
    <3>2. Apart(q, mem, loc)
      BY <2>6 DEF Good, Apart
    <3>3. Cyclic(q, loc)
      BY <2>6 DEF Good, Cyclic
    <3> QED BY <3>1, <3>2, <3>3
  <2>9. CASE p.high_water_mark # End(mem, p.off_head)
    <3>1. Placed(q, mem, loc)
      BY <2>4, <2>6, <2>9 DEF Good, Placed
    <3>2. PICK s \in Live(p) : End(mem, loc[s]) = p.high_water_mark
      BY DEF Good, Topped
    <3>3. s \in Live(q)
      BY <3>2, <2>9, <1>3, <1>4, <2>5, <1>2
    <3>4. Topped(q, mem, loc)
      BY <3>2, <3>3, <2>4, <2>9 DEF Topped
    <3> QED BY <2>3, <2>4, <2>5, <2>6, <2>7, <2>8, <3>1, <3>4 DEF Good
  <2>10. CASE p.high_water_mark = End(mem, p.off_head)
    \* Every other frame lies below the head, so the list ascends to the tail.
    <3>1. \A s \in Live(q) : loc[s] < p.off_head
      BY <2>5, <2>10, <1>2, <1>3, <1>4, <1>5 DEF Good, Apart, HDR_SIZE
    <3>2. \A s \in Live(q) : s # p.seq_high => loc[s] < p.off_tail
      BY <3>1, <2>5, <1>2, <1>3, <1>4, <1>5 DEF Good, Cyclic
    <3>3. \A s \in Live(q) : End(mem, loc[s]) <= End(mem, p.off_tail)
      BY <3>2, <2>5, <2>6, <1>2, <1>3, <1>4, <1>5 DEF Good, Apart, HDR_SIZE
    <3>4. Placed(q, mem, loc)
      BY <3>3, <2>4, <2>6, <2>10 DEF Good, Placed
    <3>5. Topped(q, mem, loc)
      BY <1>4, <2>4, <2>5, <2>10, <1>2, <1>3, <1>9 DEF Topped
    <3> QED BY <2>3, <2>4, <2>5, <2>6, <2>7, <2>8, <3>4, <3>5 DEF Good
  <2> QED BY <2>9, <2>10
<1> QED BY <1>3, <1>8, <1>9, <1>2

-----------------------------------------------------------------------------
(* A page stays good when the headers of its frames keep what the list      *)
(* depends on; the next_off of its tail is not part of that.                *)
LEMMA GoodStable ==
  ASSUME NEW p \in Page, NEW m, NEW m2, NEW l, NEW l2,
         Good(p, m, l),
         \A s \in Live(p) : /\ l2[s] = l[s]
                            /\ m2[l[s]].seq = m[l[s]].seq
                            /\ m2[l[s]].off = m[l[s]].off
                            /\ m2[l[s]].data_size = m[l[s]].data_size
                            /\ m2[l[s]].prev_off = m[l[s]].prev_off
                            /\ s < p.seq_high => m2[l[s]].next_off = m[l[s]].next_off
  PROVE  Good(p, m2, l2)
PROOF
<1>1. \A s \in Live(p) : End(m2, l2[s]) = End(m, l[s])
  BY DEF End
<1>2. Shape(p)
  BY DEF Good
<1>3. Anchored(p, l2)
  BY LiveFacts, <1>2 DEF Good, Anchored
<1>4. Placed(p, m2, l2)
  BY <1>1 DEF Good, Placed
<1>5. Chained(p, m2, l2)
  <2>1. \A s \in Live(p) : s < p.seq_high => s + 1 \in Live(p)
    BY LiveFacts, <1>2 DEF Page
  <2> QED BY <2>1 DEF Good, Chained
<1>6. Apart(p, m2, l2)
  BY <1>1 DEF Good, Apart
<1>7. Cyclic(p, l2)
  BY DEF Good, Cyclic
<1>8. Topped(p, m2, l2)
  BY <1>1 DEF Good, Topped
<1> QED BY <1>2, <1>3, <1>4, <1>5, <1>6, <1>7, <1>8 DEF Good

(* Positions of the frames of a good page. *)
LEMMA Positions ==
  ASSUME TypeOK, NEW p \in Page, Good(p, mem, loc)
  PROVE  /\ mem \in [Offs -> Frame] /\ loc \in [Seqs -> Nat]
         /\ \A s \in Live(p) : /\ s \in Nat
                               /\ loc[s] \in Offs /\ loc[s] \in Nat /\ loc[s] >= WORKSPACE
                               /\ loc[s] % ALIGN = 0
                               /\ mem[loc[s]].data_size \in Nat
                               /\ End(mem, loc[s]) \in Nat /\ loc[s] + HDR_SIZE <= End(mem, loc[s])
                               /\ End(mem, loc[s]) <= p.high_water_mark
         /\ p.seq_low \in Nat /\ p.seq_high \in Nat /\ p.high_water_mark \in Nat
         /\ ~Empty(p) => /\ p.seq_low \in Live(p) /\ p.seq_high \in Live(p)
                         /\ p.off_head = loc[p.seq_low] /\ p.off_tail = loc[p.seq_high]
                         /\ p.seq_low >= 1 /\ p.seq_low <= p.seq_high
         /\ \A s : s \in Live(p) <=> ~Empty(p) /\ s \in Nat /\ p.seq_low <= s /\ s <= p.seq_high
PROOF
<1>1. mem \in [Offs -> Frame] /\ loc \in [Seqs -> Nat]
  BY DEF TypeOK
<1>2. Shape(p)
  BY DEF Good
<1>3. p.seq_low \in Nat /\ p.seq_high \in Nat /\ p.high_water_mark \in Nat
  BY DEF Page
<1>4. \A s \in Live(p) : loc[s] \in Offs /\ mem[loc[s]].data_size \in Nat
                         /\ End(mem, loc[s]) <= p.high_water_mark
  BY <1>1 DEF Good, Placed, Frame
<1>5. \A s \in Live(p) : loc[s] \in Nat /\ loc[s] >= WORKSPACE /\ loc[s] % ALIGN = 0
  BY <1>4, OffsetFacts
<1>6. \A s \in Live(p) : End(mem, loc[s]) \in Nat /\ loc[s] + HDR_SIZE <= End(mem, loc[s])
  BY <1>4, <1>5 DEF End, HDR_SIZE
<1>7. ~Empty(p) => p.off_head = loc[p.seq_low] /\ p.off_tail = loc[p.seq_high]
  BY DEF Good, Anchored
<1>8. ~Empty(p) => p.seq_low >= 1 /\ p.seq_low <= p.seq_high
  BY <1>2, <1>3 DEF Empty, Shape
<1> QED BY <1>1, <1>2, <1>3, <1>4, <1>5, <1>6, <1>7, <1>8, LiveFacts

(* find_slot and the eviction loop together keep a new frame clear of every *)
(* committed one, and in the cyclic order of the ring.                      *)
LEMMA SlotIsFree ==
  ASSUME TypeOK, Good(C, mem, loc), NEW sl, SlotFits(sl), SlotBehindTail(sl),
         ~slot_evicts(C, sl.off, HDR_SIZE + sl.size)
  PROVE  SlotFree(sl)
PROOF
<1> DEFINE end == sl.off + HDR_SIZE + sl.size
<1>1. C \in Page
  BY Pages
<1>2. CASE Empty(C)
  <2>1. Live(C) = {}
    BY <1>2 DEF Live
  <2> QED BY <2>1 DEF SlotFree
<1>3. CASE ~Empty(C)
  <2> DEFINE lo == C.seq_low
             hi == C.seq_high
  <2>1. /\ \A s \in Live(C) : /\ s \in Nat /\ lo <= s /\ s <= hi
                              /\ loc[s] \in Nat /\ loc[s] >= WORKSPACE /\ loc[s] % ALIGN = 0
                              /\ End(mem, loc[s]) \in Nat
                              /\ loc[s] + HDR_SIZE <= End(mem, loc[s])
        /\ lo \in Live(C) /\ hi \in Live(C) /\ lo \in Nat /\ hi \in Nat
        /\ C.off_head = loc[lo] /\ C.off_tail = loc[hi]
    BY <1>1, <1>3, Positions
  <2>2. /\ sl.off \in Nat /\ sl.off >= WORKSPACE /\ sl.off % ALIGN = 0
        /\ sl.size \in Nat /\ sl.size > 0 /\ end \in Nat /\ sl.off + HDR_SIZE < end
    <3>1. sl.off \in Nat /\ sl.off >= WORKSPACE /\ sl.off % ALIGN = 0
      BY OffsetFacts DEF SlotFits
    <3>2. sl.size \in Nat /\ sl.size # 0
      BY ConstantsAssumption DEF SlotFits
    <3> QED BY <3>1, <3>2 DEF HDR_SIZE
  <2>3. HDR_SIZE + Hdr(C.off_head).data_size = End(mem, loc[lo]) - loc[lo]
    BY <1>1, <1>3, <2>1, Positions DEF Hdr, End, HDR_SIZE
  <2>4. end <= loc[lo] \/ End(mem, loc[lo]) <= sl.off
    BY <1>3, <2>1, <2>2, <2>3 DEF slot_evicts, frame_intersects, HDR_SIZE
  <2>5. ~(loc[hi] < loc[lo] /\ sl.off = WORKSPACE)
    BY <1>3, <2>1 DEF slot_evicts
  <2>6. Apart(C, mem, loc) /\ Cyclic(C, loc)
    BY DEF Good
  \* Not wrapped: the frames ascend from the head to the tail.
  <2>7. ASSUME loc[lo] <= loc[hi]
        PROVE  /\ \A s \in Live(C) : loc[lo] <= loc[s] /\ loc[s] <= loc[hi]
               /\ \A s, r \in Live(C) : s < r => loc[s] < loc[r]
    <3>1. \A s \in Live(C) : loc[lo] <= loc[s] /\ loc[s] <= loc[hi]
      BY <2>1, <2>6, <2>7 DEF Cyclic
    <3>2. ASSUME NEW s \in Live(C), NEW r \in Live(C), s < r
          PROVE  loc[s] < loc[r]
      <4>1. CASE s = lo
        BY <2>1, <2>6, <3>1, <3>2, <4>1 DEF Apart, HDR_SIZE
      <4>2. CASE s # lo
        BY <2>1, <2>6, <3>1, <3>2, <4>2 DEF Cyclic
      <4> QED BY <4>1, <4>2
    <3> QED BY <3>1, <3>2
  <2>8. CASE sl.off = WORKSPACE
    <3>1. loc[lo] <= loc[hi]
      BY <2>1, <2>5, <2>8
    <3>2. end <= loc[lo]
      BY <2>1, <2>4, <2>8, Workspace DEF HDR_SIZE
    <3>3. \A s \in Live(C) : end <= loc[s] /\ sl.off < loc[s]
      BY <2>1, <2>2, <2>7, <3>1, <3>2 DEF HDR_SIZE
    <3> QED BY <2>7, <3>1, <3>3 DEF SlotFree
  <2>9. CASE sl.off # WORKSPACE
    <3>1. sl.off = a0_max_align(End(mem, loc[hi]))
      BY <1>3, <2>1, <2>9 DEF SlotBehindTail
    <3>2. /\ End(mem, loc[hi]) <= sl.off
          /\ \A y \in Nat : y % ALIGN = 0 /\ End(mem, loc[hi]) <= y => sl.off <= y
      BY <2>1, <3>1, MaxAlign
    <3>3. CASE loc[lo] <= loc[hi]
      <4>1. \A s \in Live(C) : End(mem, loc[s]) <= sl.off /\ loc[s] < sl.off
        BY <2>1, <2>2, <2>6, <2>7, <3>2, <3>3 DEF Apart, HDR_SIZE
      <4> QED BY <4>1, <2>7, <3>3 DEF SlotFree
    <3>4. CASE loc[hi] < loc[lo]
      <4>1. lo < hi /\ End(mem, loc[hi]) <= loc[lo]
        BY <2>1, <2>6, <3>4 DEF Apart, HDR_SIZE
      <4>2. sl.off <= loc[lo]
        BY <2>1, <3>2, <4>1
      <4>3. end <= loc[lo]
        BY <2>1, <2>2, <2>4, <4>2 DEF HDR_SIZE
      \* Every frame is in the low run, up to the tail, or in the high run, from the head.
      <4>4. \A s \in Live(C) : loc[s] <= loc[hi] \/ loc[lo] <= loc[s]
        BY <2>1, <2>6, <3>4 DEF Cyclic
      <4>5. \A s \in Live(C) : End(mem, loc[s]) <= sl.off \/ end <= loc[s]
        BY <2>1, <2>2, <2>6, <3>2, <4>3, <4>4 DEF Apart, HDR_SIZE
      <4>6. ASSUME NEW q \in Live(C), NEW s \in Live(C), q < s
            PROVE  \/ loc[q] < loc[s] /\ loc[s] < sl.off
                   \/ loc[s] < sl.off /\ sl.off < loc[q]
                   \/ sl.off < loc[q] /\ loc[q] < loc[s]
        <5>0. \A r \in Live(C) : loc[r] < sl.off \/ sl.off < loc[r]
          BY <4>5, <2>1, <2>2 DEF HDR_SIZE
        <5>1. \A r \in Live(C) : (loc[r] < sl.off => loc[r] <= loc[hi])
                                 /\ (sl.off < loc[r] => loc[lo] <= loc[r])
          BY <4>2, <4>4, <3>2, <2>1, <2>2 DEF HDR_SIZE
        <5>2. CASE q = lo
          <6>1. sl.off < loc[q]
            BY <5>2, <4>3, <2>2, <2>1 DEF HDR_SIZE
          <6>2. loc[s] # loc[q]
            BY <4>6, <2>1, <2>6 DEF Apart, HDR_SIZE
          <6> QED BY <5>0, <5>1, <5>2, <6>1, <6>2, <2>1, <2>2
        <5>3. CASE q # lo
          <6>1. \/ loc[lo] < loc[q] /\ loc[q] < loc[s]
                \/ loc[q] < loc[s] /\ loc[s] < loc[lo]
                \/ loc[s] < loc[lo] /\ loc[lo] < loc[q]
            BY <5>3, <4>6, <2>1, <2>6 DEF Cyclic
          <6> QED BY <6>1, <5>0, <5>1, <4>2, <4>3, <2>1, <2>2 DEF HDR_SIZE
        <5> QED BY <5>2, <5>3
      <4> QED BY <4>5, <4>6 DEF SlotFree
    <3> QED BY <2>1, <3>3, <3>4
  <2> QED BY <2>8, <2>9
<1> QED BY <1>2, <1>3

-----------------------------------------------------------------------------
(* Writes to the arena. *)

(* What is left of the arena after a write still reads as frames. *)
LEMMA OverwriteType ==
  ASSUME TypeOK, NEW start \in Nat, NEW size \in Nat
  PROVE  Overwrite(mem, start, size) \in [Offs -> Frame]
PROOF
<1>1. ZeroFrame \in Frame
  BY DEF ZeroFrame, Frame
<1>2. \A o \in Offs : mem[o] \in Frame /\ [mem[o] EXCEPT !.data = Junk] \in Frame
  BY DEF TypeOK, Frame
<1> QED BY <1>1, <1>2 DEF Overwrite

(* A write clear of a frame leaves it as it was. *)
LEMMA OverwriteKeeps ==
  ASSUME TypeOK, NEW start \in Nat, NEW size \in Nat, NEW o \in Offs,
         End(mem, o) <= start \/ start + size <= o
  PROVE  Overwrite(mem, start, size)[o] = mem[o]
PROOF
<1>1. o \in Nat /\ mem[o].data_size \in Nat
  BY OffsetFacts DEF TypeOK, Frame
<1>2. ~frame_intersects(o, HDR_SIZE, start, size)
  BY <1>1 DEF frame_intersects, End, HDR_SIZE
<1>3. ~frame_intersects(o + HDR_SIZE, mem[o].data_size, start, size)
  BY <1>1 DEF frame_intersects, End, HDR_SIZE
<1> QED BY <1>2, <1>3 DEF Overwrite

(* A write to the payload of a frame leaves its header. *)
LEMMA OverwritePayload ==
  ASSUME TypeOK, NEW o \in Offs, NEW size \in Nat
  PROVE  LET f == Overwrite(mem, o + HDR_SIZE, size)[o]
         IN  /\ f.seq = mem[o].seq /\ f.off = mem[o].off /\ f.data_size = mem[o].data_size
             /\ f.next_off = mem[o].next_off /\ f.prev_off = mem[o].prev_off
PROOF
<1>1. o \in Nat /\ mem[o] \in Frame
  BY OffsetFacts DEF TypeOK
<1>2. ~frame_intersects(o, HDR_SIZE, o + HDR_SIZE, size)
  BY <1>1 DEF frame_intersects, HDR_SIZE
<1>3. \/ Overwrite(mem, o + HDR_SIZE, size)[o] = mem[o]
      \/ Overwrite(mem, o + HDR_SIZE, size)[o] = [mem[o] EXCEPT !.data = Junk]
  BY <1>2 DEF Overwrite
<1> QED BY <1>1, <1>3 DEF Frame

-----------------------------------------------------------------------------
(* Appending a frame in a free slot to a good page makes a good page, and *)
(* leaves the committed page good.                                        *)
LEMMA LinkGood ==
  ASSUME TypeOK, Good(C, mem, loc), NEW sl, SlotFits(sl), SlotFree(sl),
         C.seq_high < MaxSeq, W = slot_init(C),
         mem[sl.off] = new_frame(C, sl), loc[C.seq_high + 1] = sl.off,
         C.high_water_mark >= WORKSPACE, C.high_water_mark <= arena_size
  PROVE  LET p == linked_page(W, sl.off)
             m == linked_mem(W, sl.off)
         IN  /\ p \in Page /\ m \in [Offs -> Frame]
             /\ Good(p, m, loc) /\ Good(C, m, loc)
             /\ p.seq_high = C.seq_high + 1
             /\ p.high_water_mark <= arena_size /\ p.high_water_mark >= WORKSPACE
             /\ \A s \in Live(C) : m[loc[s]].data = mem[loc[s]].data
             /\ \A s : s \in Live(p) <=> s \in Live(C) \/ s = C.seq_high + 1
             /\ m[sl.off].data_size = sl.size
PROOF
<1> DEFINE p == linked_page(W, sl.off)
           m == linked_mem(W, sl.off)
           n == C.seq_high + 1
<1>1. C \in Page
  BY Pages
<1>2. /\ mem \in [Offs -> Frame] /\ loc \in [Seqs -> Nat]
      /\ C.seq_low \in Nat /\ C.seq_high \in Nat /\ C.high_water_mark \in Nat
      /\ C.off_head \in Nat /\ C.off_tail \in Nat
  BY <1>1 DEF TypeOK, Page
<1>3. /\ sl.off \in Offs /\ sl.off \in Nat /\ sl.off >= WORKSPACE
      /\ sl.size \in Nat /\ sl.size # 0
      /\ sl.off + HDR_SIZE + sl.size <= arena_size
  BY OffsetFacts, ConstantsAssumption DEF SlotFits
<1>4. arena_size \in Nat
  BY ConstantsAssumption DEF TypeOK
<1>5. /\ mem[sl.off].seq = n /\ mem[sl.off].off = sl.off /\ mem[sl.off].data_size = sl.size
      /\ frame_end(sl.off) = sl.off + HDR_SIZE + sl.size
  BY <1>3 DEF new_frame, frame_end, Hdr
<1>6. /\ \A s \in Live(C) : /\ s \in Nat /\ s < n
                            /\ loc[s] \in Offs /\ loc[s] \in Nat /\ loc[s] >= WORKSPACE
                            /\ End(mem, loc[s]) \in Nat
                            /\ loc[s] + HDR_SIZE <= End(mem, loc[s])
                            /\ End(mem, loc[s]) <= C.high_water_mark
      /\ \A s : s \in Live(C) <=> ~Empty(C) /\ s \in Nat /\ C.seq_low <= s /\ s <= C.seq_high
      /\ ~Empty(C) => /\ C.seq_low \in Live(C) /\ C.seq_high \in Live(C)
                      /\ C.off_head = loc[C.seq_low] /\ C.off_tail = loc[C.seq_high]
                      /\ C.seq_low >= 1 /\ C.seq_low <= C.seq_high
      /\ Empty(C) => C.off_head = 0 /\ C.off_tail = 0 /\ C.seq_high + 1 = IF C.seq_low = 0 THEN 1 ELSE C.seq_low
  <2>1. Shape(C)
    BY DEF Good
  <2>2. Empty(C) => C.off_head = 0 /\ C.off_tail = 0 /\ C.seq_high + 1 = IF C.seq_low = 0 THEN 1 ELSE C.seq_low
    BY <2>1, <1>2 DEF Shape, Empty
  <2> QED BY <1>1, <1>2, <2>2, Positions
\* The page.
<1> DEFINE low  == IF Empty(C) THEN n ELSE C.seq_low
           head == IF Empty(C) THEN sl.off ELSE C.off_head
           top  == sl.off + HDR_SIZE + sl.size
           mark == IF C.high_water_mark < top THEN top ELSE C.high_water_mark
<1>7. p = [seq_low |-> low, seq_high |-> n, off_head |-> head, off_tail |-> sl.off,
           high_water_mark |-> mark]
  <2>1. (C.off_head = 0) <=> Empty(C)
    BY <1>6, Workspace
  <2>2. (IF C.seq_low = 0 THEN C.seq_high + 1 ELSE C.seq_low) = low
    BY <1>6, <1>2
  <2> QED BY <2>1, <2>2, <1>5 DEF linked_page, slot_init
<1>8. /\ low \in Nat /\ n \in Nat /\ head \in Nat /\ top \in Nat /\ mark \in Nat
      /\ low >= 1 /\ low <= n /\ n \in Seqs
      /\ top <= mark /\ C.high_water_mark <= mark /\ mark <= arena_size /\ mark >= WORKSPACE
      /\ sl.off + HDR_SIZE <= top
  <2>1. n \in Nat /\ n >= 1 /\ n \in Seqs
    BY <1>2, ConstantsAssumption DEF Seqs
  <2>2. low \in Nat /\ low >= 1 /\ low <= n /\ head \in Nat
    BY <2>1, <1>2, <1>3, <1>6
  <2>3. top \in Nat /\ sl.off + HDR_SIZE <= top /\ top <= arena_size
    BY <1>3 DEF HDR_SIZE
  <2>4. /\ mark \in Nat /\ top <= mark /\ C.high_water_mark <= mark /\ mark <= arena_size
        /\ mark >= WORKSPACE
    <3> HIDE DEF top
    <3> QED BY <2>3, <1>2, <1>4, Workspace
  <2> QED BY <2>1, <2>2, <2>3, <2>4
<1>9. /\ p \in Page /\ p.seq_low = low /\ p.seq_high = n /\ p.off_head = head
      /\ p.off_tail = sl.off /\ p.high_water_mark = mark
  <2> HIDE DEF low, n, head, mark, p
  <2> QED BY <1>3, <1>7, <1>8 DEF Page
<1> HIDE DEF p
<1>10. ~Empty(p) /\ \A s : s \in Live(p) <=> s \in Live(C) \/ s = n
  <2>1. ~Empty(p)
    BY <1>8, <1>9 DEF Empty
  <2>2. \A s : s \in Live(p) <=> s \in Nat /\ low <= s /\ s <= n
    <3> HIDE DEF low, n
    <3> QED BY <2>1, <1>8, <1>9, ConstantsAssumption DEF Live, Seqs
  <2> QED BY <2>1, <2>2, <1>2, <1>6
\* The arena.
<1>11. /\ W.off_tail = C.off_tail
       /\ Empty(C) => m = mem
       /\ ~Empty(C) => m = [[mem EXCEPT ![C.off_tail].next_off = sl.off]
                                 EXCEPT ![sl.off].prev_off = C.off_tail]
  BY <1>6, Workspace DEF slot_init, linked_mem
<1>12. \A s \in Live(C) : loc[s] # sl.off
  BY <1>3, <1>6 DEF SlotFree, HDR_SIZE
<1>13. /\ m \in [Offs -> Frame]
       /\ \A o \in Offs : /\ m[o].seq = mem[o].seq /\ m[o].off = mem[o].off
                          /\ m[o].data_size = mem[o].data_size /\ m[o].data = mem[o].data
                          /\ o # sl.off => m[o].prev_off = mem[o].prev_off
                          /\ o # C.off_tail => m[o].next_off = mem[o].next_off
       /\ ~Empty(C) => m[C.off_tail].next_off = sl.off /\ m[sl.off].prev_off = C.off_tail
  <2>1. CASE Empty(C)
    BY <2>1, <1>2, <1>11
  <2>2. CASE ~Empty(C)
    <3>1. C.off_tail \in Offs /\ C.off_tail # sl.off
      BY <2>2, <1>6, <1>12
    <3> DEFINE m1 == [mem EXCEPT ![C.off_tail].next_off = sl.off]
    <3>2. /\ m1 \in [Offs -> Frame]
          /\ \A o \in Offs : o # C.off_tail => m1[o] = mem[o]
          /\ m1[C.off_tail] = [mem[C.off_tail] EXCEPT !.next_off = sl.off]
      BY <3>1, <1>2, <1>3 DEF Frame
    <3>3. m = [m1 EXCEPT ![sl.off].prev_off = C.off_tail]
      BY <2>2, <1>11
    <3> HIDE DEF m1, m
    <3>4. /\ m \in [Offs -> Frame]
          /\ \A o \in Offs : o # sl.off => m[o] = m1[o]
          /\ m[sl.off] = [m1[sl.off] EXCEPT !.prev_off = C.off_tail]
      BY <3>1, <3>2, <3>3, <1>2, <1>3 DEF Frame
    <3>5. \A o \in Offs : mem[o] \in Frame /\ m1[o] \in Frame
      BY <3>2, <1>2
    <3>6. m1[sl.off] = mem[sl.off] /\ m[C.off_tail] = m1[C.off_tail]
      BY <3>1, <3>2, <3>4, <1>3
    <3>7. /\ m[C.off_tail].next_off = sl.off /\ m[C.off_tail].seq = mem[C.off_tail].seq
          /\ m[C.off_tail].off = mem[C.off_tail].off
          /\ m[C.off_tail].data_size = mem[C.off_tail].data_size
          /\ m[C.off_tail].data = mem[C.off_tail].data
          /\ m[C.off_tail].prev_off = mem[C.off_tail].prev_off
      BY <3>1, <3>2, <3>5, <3>6 DEF Frame
    <3>8. /\ m[sl.off].prev_off = C.off_tail /\ m[sl.off].seq = mem[sl.off].seq
          /\ m[sl.off].off = mem[sl.off].off
          /\ m[sl.off].data_size = mem[sl.off].data_size
          /\ m[sl.off].data = mem[sl.off].data
          /\ m[sl.off].next_off = mem[sl.off].next_off
      BY <1>3, <3>4, <3>5, <3>6 DEF Frame
    <3> QED BY <2>2, <3>2, <3>4, <3>7, <3>8
  <2> QED BY <2>1, <2>2
<1> HIDE DEF m
<1>14. /\ m[sl.off].seq = n /\ m[sl.off].off = sl.off /\ m[sl.off].data_size = sl.size
       /\ End(m, sl.off) = top
       /\ \A s \in Live(C) : End(m, loc[s]) = End(mem, loc[s])
  BY <1>3, <1>5, <1>6, <1>13 DEF End
\* The committed page is as good as before.
<1>15. Good(C, m, loc)
  <2>1. \A s \in Live(C) : s < C.seq_high => loc[s] # C.off_tail
    BY <1>6 DEF Good, Apart, HDR_SIZE
  <2>2. \A s \in Live(C) : /\ m[loc[s]].seq = mem[loc[s]].seq
                           /\ m[loc[s]].off = mem[loc[s]].off
                           /\ m[loc[s]].data_size = mem[loc[s]].data_size
                           /\ m[loc[s]].prev_off = mem[loc[s]].prev_off
                           /\ s < C.seq_high => m[loc[s]].next_off = mem[loc[s]].next_off
    BY <2>1, <1>6, <1>12, <1>13
  <2> QED BY <2>2, <1>1, GoodStable
\* The new page is good.
<1>16. Shape(p)
  <2>1. n <= MaxSeq
    BY <1>2, ConstantsAssumption
  <2> HIDE DEF n, low
  <2> QED BY <2>1, <1>8, <1>9, <1>10 DEF Shape
<1>17. Anchored(p, loc)
  BY <1>6, <1>9 DEF Anchored
<1>18. Placed(p, m, loc)
  <2>1. ASSUME NEW s \in Live(C)
        PROVE  /\ loc[s] \in Offs /\ m[loc[s]].seq = s /\ m[loc[s]].off = loc[s]
               /\ End(m, loc[s]) <= mark
    BY <2>1, <1>2, <1>6, <1>8, <1>13, <1>14 DEF Good, Placed
  <2> QED BY <2>1, <1>3, <1>8, <1>9, <1>10, <1>14 DEF Placed
<1>19. Chained(p, m, loc)
  <2>1. ASSUME NEW s \in Live(C), s < C.seq_high
        PROVE  m[loc[s]].next_off = loc[s + 1] /\ m[loc[s + 1]].prev_off = loc[s]
    BY <2>1, <1>15 DEF Good, Chained
  <2>2. ASSUME NEW s \in Live(C), s = C.seq_high
        PROVE  m[loc[s]].next_off = loc[s + 1] /\ m[loc[s + 1]].prev_off = loc[s]
    BY <2>2, <1>6, <1>13
  <2> QED BY <2>1, <2>2, <1>2, <1>6, <1>9, <1>10 DEF Chained
<1>20. Apart(p, m, loc)
  <2>1. \A s, r \in Live(C) : s < r => End(m, loc[s]) <= loc[r] \/ End(m, loc[r]) <= loc[s]
    BY <1>15 DEF Good, Apart
  <2>2. \A s \in Live(C) : End(m, loc[s]) <= sl.off \/ top <= loc[s]
    BY <1>14 DEF SlotFree
  <2> QED BY <2>1, <2>2, <1>6, <1>8, <1>10, <1>14 DEF Apart
<1>21. Cyclic(p, loc)
  <2>1. Cyclic(C, loc)
    BY DEF Good
  <2>2. \A q, s \in Live(C) :
           q < s => \/ loc[q] < loc[s] /\ loc[s] < sl.off
                    \/ loc[s] < sl.off /\ sl.off < loc[q]
                    \/ sl.off < loc[q] /\ loc[q] < loc[s]
    BY DEF SlotFree
  <2>3. ASSUME NEW q \in Live(p), NEW s \in Live(p), NEW r \in Live(p), q < s, s < r
        PROVE  \/ loc[q] < loc[s] /\ loc[s] < loc[r]
               \/ loc[s] < loc[r] /\ loc[r] < loc[q]
               \/ loc[r] < loc[q] /\ loc[q] < loc[s]
    <3>1. q \in Live(C) /\ s \in Live(C)
      BY <2>3, <1>2, <1>6, <1>10
    <3>2. CASE r \in Live(C)
      BY <2>1, <2>3, <3>1, <3>2 DEF Cyclic
    <3>3. CASE r = n
      BY <2>2, <2>3, <3>1, <3>3
    <3> QED BY <3>2, <3>3, <1>10
  <2> QED BY <2>3 DEF Cyclic
<1>22. Topped(p, m, loc)
  <2>1. CASE C.high_water_mark < top
    BY <2>1, <1>9, <1>10, <1>14 DEF Topped
  <2>2. CASE ~(C.high_water_mark < top)
    <3>1. ~Empty(C)
      BY <2>2, <1>2, <1>3, <1>8, Workspace DEF Good, Shape, HDR_SIZE
    <3>2. PICK s \in Live(C) : End(mem, loc[s]) = C.high_water_mark
      BY <3>1 DEF Good, Topped
    <3> QED BY <2>2, <3>2, <1>9, <1>10, <1>14 DEF Topped
  <2> QED BY <2>1, <2>2
<1>23. Good(p, m, loc)
  BY <1>16, <1>17, <1>18, <1>19, <1>20, <1>21, <1>22 DEF Good
<1>24. \A s \in Live(C) : m[loc[s]].data = mem[loc[s]].data
  BY <1>6, <1>13
<1> QED BY <1>8, <1>9, <1>10, <1>13, <1>14, <1>15, <1>23, <1>24 DEF p, m

-----------------------------------------------------------------------------
(* Every operation that moves the pointer changes nothing but the pointer. *)
LEMMA ReadingMoves ==
  ASSUME NEW t \in Threads, Reading(t)
  PROVE  /\ t \in Readers /\ pc[t] = "cs"
         /\ \E o, s : /\ off' = [off EXCEPT ![ConnOf[t]] = o]
                      /\ seq' = [seq EXCEPT ![ConnOf[t]] = s]
         /\ UNCHANGED <<shared, lock, wait_cnt, shutdown, local, crashes>>
  BY Zenon DEF Reading, a0_transport_jump_head, a0_transport_jump_tail, a0_transport_jump,
       a0_transport_step_next, a0_transport_step_prev, MovePointer

(* The transport is never inside two threads: the mutex and its hand-over. *)
LEMMA OwnerStep ==
  ASSUME TypeOK, OwnerIsInside, [Next]_vars
  PROVE  OwnerIsInside'
PROOF
<1> USE DEF OwnerIsInside, Holding, Go, Acquire, Release, lock, local
<1>0. pc \in [Threads -> PCs] /\ None \notin Threads
  BY ConstantsAssumption DEF TypeOK
<1>1. UNCHANGED vars => OwnerIsInside'
  BY DEF vars
<1>2. \A t \in Threads : a0_transport_lock(t) => OwnerIsInside'
  BY <1>0 DEF a0_transport_lock
<1>3. \A t \in Threads : a0_transport_unlock(t) => OwnerIsInside'
  BY <1>0 DEF a0_transport_unlock
<1>4. \A t \in Threads : a0_transport_init(t) => OwnerIsInside'
  BY <1>0 DEF a0_transport_init, Peers
<1>5. \A t \in Threads : InitFields(t) => OwnerIsInside'
  BY <1>0 DEF InitFields
<1>6. \A t \in Threads : InitDone(t) => OwnerIsInside'
  BY <1>0 DEF InitDone, Peers
<1>7. \A t \in Threads : a0_transport_alloc(t) => OwnerIsInside'
  BY <1>0 DEF a0_transport_alloc
<1>8. \A t \in Threads : EvictHead(t) => OwnerIsInside'
  BY <1>0 DEF EvictHead
<1>9. \A t \in Threads : EvictCommit(t) => OwnerIsInside'
  BY <1>0 DEF EvictCommit, CommitFlip, CommitCopy, Broadcast
<1>10. \A t \in Threads : SlotInit(t) => OwnerIsInside'
  BY <1>0 DEF SlotInit
<1>11. \A t \in Threads : LinkFrame(t) => OwnerIsInside'
  BY <1>0 DEF LinkFrame
<1>12. \A t \in Threads : FillFrame(t) => OwnerIsInside'
  BY <1>0 DEF FillFrame
<1>13. \A t \in Threads : a0_transport_commit(t) => OwnerIsInside'
  BY <1>0 DEF a0_transport_commit, CommitFlip, CommitCopy, Broadcast
<1>14. \A t \in Threads : a0_transport_clear(t) => OwnerIsInside'
  BY <1>0 DEF a0_transport_clear
<1>15. \A t \in Threads : a0_transport_resize(t) => OwnerIsInside'
  BY <1>0 DEF a0_transport_resize
<1>16. \A t \in Threads : Reading(t) => OwnerIsInside'
  BY <1>0, ReadingMoves
<1>17. \A t \in Threads : a0_transport_timedwait(t) => OwnerIsInside'
  BY <1>0 DEF a0_transport_timedwait
<1>18. \A t \in Threads : Timeout(t) => OwnerIsInside'
  BY <1>0 DEF Timeout
<1>19. \A t \in Threads : WaitDone(t) => OwnerIsInside'
  BY <1>0 DEF WaitDone, WaitReturns, Broadcast
<1>20. \A t \in Threads : WaitAgain(t) => OwnerIsInside'
  BY <1>0 DEF WaitAgain
<1>21. \A t \in Threads : a0_transport_shutdown(t) => OwnerIsInside'
  <2> SUFFICES ASSUME NEW t \in Threads, a0_transport_shutdown(t) PROVE OwnerIsInside'
    OBVIOUS
  <2>1. pc[t] = "cs" /\ owner = t /\ \A u \in Threads : u # t => pc[u] \notin Holding
    BY <1>0 DEF a0_transport_shutdown
  <2>2. \A u \in Threads : Broadcast(pc)[u] \in Holding <=> pc[u] \in Holding
    BY <1>0 DEF Broadcast
  <2>3. CASE wait_cnt[ConnOf[t]] = 0
    BY <2>1, <2>2, <2>3 DEF a0_transport_shutdown
  <2>4. CASE wait_cnt[ConnOf[t]] # 0
    <3>1. pc' = [Broadcast(pc) EXCEPT ![t] = "sd_sleep"] /\ owner' = None
      BY <2>4 DEF a0_transport_shutdown
    <3>2. pc'[t] = "sd_sleep" /\ \A u \in Threads : u # t => pc'[u] = Broadcast(pc)[u]
      BY <3>1 DEF Broadcast
    <3> QED BY <1>0, <2>1, <2>2, <3>1, <3>2
  <2> QED BY <2>3, <2>4
<1>22. \A t \in Threads : ShutdownWake(t) => OwnerIsInside'
  BY <1>0 DEF ShutdownWake
<1>23. \A c \in Conns : Crash(c) => OwnerIsInside'
  BY <1>0, ConstantsAssumption DEF Crash
<1> QED
  BY Zenon, <1>1, <1>2, <1>3, <1>4, <1>5, <1>6, <1>7, <1>8, <1>9, <1>10, <1>11, <1>12, <1>13,
     <1>14, <1>15, <1>16, <1>17, <1>18, <1>19, <1>20, <1>21, <1>22, <1>23
     DEF Next, Connecting, Writing, Notifying

-----------------------------------------------------------------------------
(* Waiters and shutdown. *)

SD == {"sd_sleep", "sd_woken"}

(* A step that neither enters nor leaves a wait or a shutdown. *)
Calm == /\ UNCHANGED <<wait_cnt, shutdown>>
        /\ \A u \in Threads : /\ pc'[u] \in Waiting <=> pc[u] \in Waiting
                              /\ pc'[u] \in SD <=> pc[u] \in SD

(* A step that neither starts nor ends the life of a process. *)
Alive == \A u \in Threads : /\ pc[u] = "dead" => pc'[u] = "dead"
                            /\ pc'[u] \in {"init_fields", "init_done"}
                                 => pc[u] \in {"init_fields", "init_done"}

(* While a process connects, none of its other threads runs. *)
LEMMA AloneStep ==
  ASSUME TypeOK, InitAlone, [Next]_vars
  PROVE  InitAlone'
PROOF
<1> USE DEF Go, local
<1>0. pc \in [Threads -> PCs]
  BY DEF TypeOK
<1>1. Alive => InitAlone'
  BY DEF Alive, InitAlone
<1>2. UNCHANGED vars => Alive
  BY DEF vars, Alive
<1>3. \A t \in Threads : a0_transport_lock(t) \/ a0_transport_unlock(t) => Alive
  BY <1>0 DEF a0_transport_lock, a0_transport_unlock, Alive
<1>4. \A t \in Threads : a0_transport_init(t) => InitAlone'
  BY <1>0 DEF a0_transport_init, Peers, InitAlone
<1>5. \A t \in Threads : InitFields(t) => Alive
  BY <1>0 DEF InitFields, Alive
<1>6. \A t \in Threads : InitDone(t) => InitAlone'
  BY <1>0 DEF InitDone, Peers, InitAlone
<1>7. \A t \in Threads : Writing(t) => Alive
  <2>1. \A t \in Threads : EvictCommit(t) \/ a0_transport_commit(t) => Alive
    BY <1>0 DEF EvictCommit, a0_transport_commit, CommitFlip, CommitCopy, Broadcast, Alive
  <2>2. \A t \in Threads : a0_transport_alloc(t) \/ EvictHead(t) => Alive
    BY <1>0 DEF a0_transport_alloc, EvictHead, Alive
  <2>3. \A t \in Threads : SlotInit(t) \/ LinkFrame(t) \/ FillFrame(t) => Alive
    BY <1>0 DEF SlotInit, LinkFrame, FillFrame, Alive
  <2>4. \A t \in Threads : a0_transport_clear(t) \/ a0_transport_resize(t) => Alive
    BY <1>0 DEF a0_transport_clear, a0_transport_resize, Alive
  <2> QED BY Zenon, <2>1, <2>2, <2>3, <2>4 DEF Writing
<1>8. \A t \in Threads : Reading(t) => Alive
  BY ReadingMoves DEF Alive
<1>9. \A t \in Threads : a0_transport_timedwait(t) \/ Timeout(t) \/ WaitAgain(t) => Alive
  BY <1>0 DEF a0_transport_timedwait, Timeout, WaitAgain, Alive
<1>10. \A t \in Threads : WaitDone(t) => Alive
  BY <1>0 DEF WaitDone, WaitReturns, Broadcast, Alive
<1>11. ASSUME NEW t \in Threads, a0_transport_shutdown(t) PROVE Alive
  <2>1. pc[t] = "cs" /\ (pc' = Broadcast(pc) \/ pc' = [Broadcast(pc) EXCEPT ![t] = "sd_sleep"])
    BY <1>11 DEF a0_transport_shutdown
  <2>2. CASE pc' = Broadcast(pc)
    BY <1>0, <2>2 DEF Broadcast, Alive
  <2>3. CASE pc' = [Broadcast(pc) EXCEPT ![t] = "sd_sleep"]
    BY <1>0, <2>1, <2>3 DEF Broadcast, Alive
  <2> QED BY <2>1, <2>2, <2>3
<1>12. \A t \in Threads : ShutdownWake(t) => Alive
  BY <1>0 DEF ShutdownWake, Alive
<1>13. \A c \in Conns : Crash(c) => InitAlone'
  BY <1>0 DEF Crash, InitAlone
<1> QED
  BY Zenon, <1>1, <1>2, <1>3, <1>4, <1>5, <1>6, <1>7, <1>8, <1>9, <1>10, <1>11, <1>12, <1>13
     DEF Next, Connecting, Notifying

Counted == WaitCounted /\ ShutdownDrains

(* A step that no waiter takes part in keeps the count of waiters. *)
LEMMA CalmStep ==
  ASSUME Counted, Calm
  PROVE  Counted'
PROOF
<1>1. \A c \in Conns : WaitersOn(c)' = WaitersOn(c)
  BY DEF Calm, WaitersOn
<1>2. WaitCounted'
  BY <1>1 DEF Counted, Calm, WaitCounted
<1>3. ShutdownDrains'
  BY DEF Counted, Calm, ShutdownDrains, SD
<1> QED BY <1>2, <1>3 DEF Counted

(* The waiters of a connection are finitely many. *)
LEMMA WaitersFinite ==
  ASSUME NEW c \in Conns
  PROVE  IsFiniteSet(WaitersOn(c)) /\ Cardinality(WaitersOn(c)) \in Nat
PROOF
<1>1. WaitersOn(c) \subseteq Threads
  BY DEF WaitersOn
<1> QED BY <1>1, ConstantsAssumption, FS_Subset, FS_CardinalityType

(* With _wait_cnt at zero nobody waits; a waiter keeps it positive. *)
LEMMA CountZero ==
  ASSUME WaitCounted, NEW c \in Conns
  PROVE  /\ wait_cnt[c] \in Nat
         /\ wait_cnt[c] = 0 <=> \A t \in Threads : ConnOf[t] = c => pc[t] \notin Waiting
PROOF
<1>1. wait_cnt[c] = Cardinality(WaitersOn(c))
  BY DEF WaitCounted
<1>2. Cardinality(WaitersOn(c)) = 0 <=> WaitersOn(c) = {}
  BY WaitersFinite, FS_EmptySet
<1> QED BY <1>1, <1>2, WaitersFinite DEF WaitersOn

(* Emptying the waiters of one connection together with its counter. *)
LEMMA ZeroedCount ==
  ASSUME TypeOK, Counted, NEW c \in Conns, ZeroConn(c),
         \A u \in Threads : ConnOf[u] = c => pc'[u] \notin Waiting,
         \A u \in Threads : ConnOf[u] # c => pc'[u] = pc[u]
  PROVE  Counted'
PROOF
<1>1. wait_cnt' = [wait_cnt EXCEPT ![c] = 0] /\ shutdown' = [shutdown EXCEPT ![c] = FALSE]
  BY DEF ZeroConn
<1>2. wait_cnt \in [Conns -> Nat] /\ shutdown \in [Conns -> BOOLEAN]
  BY DEF TypeOK
<1>3. WaitersOn(c)' = {}
  BY DEF WaitersOn
<1>4. \A d \in Conns : d # c => WaitersOn(d)' = WaitersOn(d)
  BY DEF WaitersOn
<1>5. Cardinality({}) = 0
  BY FS_EmptySet
<1>6. WaitCounted'
  BY <1>1, <1>2, <1>3, <1>4, <1>5 DEF Counted, WaitCounted
<1>7. ShutdownDrains'
  BY <1>1, <1>2 DEF Counted, ShutdownDrains
<1> QED BY <1>6, <1>7 DEF Counted

(* _wait_cnt stays exact, and shutdown drains its connection. *)
LEMMA CountedStep ==
  ASSUME TypeOK, InitAlone, Counted, [Next]_vars
  PROVE  Counted'
PROOF
<1> USE DEF Go, local, conn, Waiting, SD
<1>0. /\ pc \in [Threads -> PCs] /\ ConnOf \in [Threads -> Conns]
      /\ wait_cnt \in [Conns -> Nat] /\ shutdown \in [Conns -> BOOLEAN]
  BY ConstantsAssumption DEF TypeOK
<1>1. UNCHANGED vars => Calm
  BY DEF vars, Calm
<1>2. \A t \in Threads : a0_transport_lock(t) \/ a0_transport_unlock(t) => Calm
  BY <1>0 DEF a0_transport_lock, a0_transport_unlock, Calm
<1>3. \A t \in Threads : InitFields(t) => Calm
  BY <1>0 DEF InitFields, Calm
<1>4. ASSUME NEW t \in Threads, a0_transport_init(t) PROVE Counted'
  <2>1. ConnOf[t] \in Conns /\ ZeroConn(ConnOf[t])
    BY <1>0, <1>4 DEF a0_transport_init
  <2>2. \A u \in Threads : ConnOf[u] = ConnOf[t] => pc'[u] \notin Waiting
    BY <1>0, <1>4 DEF a0_transport_init, Peers
  <2>3. \A u \in Threads : ConnOf[u] # ConnOf[t] => pc'[u] = pc[u]
    BY <1>0, <1>4 DEF a0_transport_init
  <2> QED BY <2>1, <2>2, <2>3, ZeroedCount
<1>6. \A t \in Threads : Writing(t) => Calm
  <2>1. \A t \in Threads : EvictCommit(t) \/ a0_transport_commit(t) => Calm
    BY <1>0 DEF EvictCommit, a0_transport_commit, CommitFlip, CommitCopy, Broadcast, Calm
  <2>2. \A t \in Threads : a0_transport_alloc(t) \/ EvictHead(t) => Calm
    BY <1>0 DEF a0_transport_alloc, EvictHead, Calm
  <2>3. \A t \in Threads : SlotInit(t) \/ LinkFrame(t) \/ FillFrame(t) => Calm
    BY <1>0 DEF SlotInit, LinkFrame, FillFrame, Calm
  <2>4. \A t \in Threads : a0_transport_clear(t) \/ a0_transport_resize(t) => Calm
    BY <1>0 DEF a0_transport_clear, a0_transport_resize, Calm
  <2> QED BY Zenon, <2>1, <2>2, <2>3, <2>4 DEF Writing
<1>7. \A t \in Threads : Reading(t) => Calm
  BY ReadingMoves DEF Calm
<1>8. \A t \in Threads : Timeout(t) => Calm
  BY <1>0 DEF Timeout, Calm
<1>9. \A t \in Threads : WaitAgain(t) => Calm
  BY <1>0 DEF WaitAgain, Calm
<1>10. ASSUME NEW t \in Threads, a0_transport_timedwait(t) PROVE Counted'
  <2> DEFINE c == ConnOf[t]
  <2>1. /\ c \in Conns /\ ~shutdown[c] /\ pc[t] = "cs" /\ pc' = [pc EXCEPT ![t] = "sleep"]
        /\ wait_cnt' = [wait_cnt EXCEPT ![c] = @ + 1] /\ UNCHANGED shutdown
    BY <1>0, <1>10 DEF a0_transport_timedwait
  <2>2. WaitersOn(c)' = WaitersOn(c) \cup {t} /\ t \notin WaitersOn(c)
    BY <1>0, <2>1 DEF WaitersOn
  <2>3. \A d \in Conns : d # c => WaitersOn(d)' = WaitersOn(d)
    BY <1>0, <2>1 DEF WaitersOn
  <2>4. Cardinality(WaitersOn(c) \cup {t}) = Cardinality(WaitersOn(c)) + 1
    BY <2>1, <2>2, WaitersFinite, FS_AddElement
  <2>5. WaitCounted'
    BY <1>0, <2>1, <2>2, <2>3, <2>4 DEF Counted, WaitCounted
  <2>6. ShutdownDrains'
    BY <1>0, <2>1 DEF Counted, ShutdownDrains
  <2> QED BY <2>5, <2>6 DEF Counted
<1>11. ASSUME NEW t \in Threads, WaitDone(t) PROVE Counted'
  <2> DEFINE c == ConnOf[t]
  <2>1. /\ c \in Conns /\ pc[t] \in Waiting /\ pc' = Broadcast([pc EXCEPT ![t] = "cs"])
        /\ wait_cnt' = [wait_cnt EXCEPT ![c] = @ - 1] /\ UNCHANGED shutdown
    BY <1>0, <1>11 DEF WaitDone, WaitReturns
  <2>2. \A u \in Threads : /\ pc'[u] \in Waiting <=> pc[u] \in Waiting /\ u # t
                           /\ pc'[u] \in SD <=> pc[u] \in SD
    BY <1>0, <2>1 DEF Broadcast
  <2>3. WaitersOn(c)' = WaitersOn(c) \ {t} /\ t \in WaitersOn(c)
    BY <1>0, <2>1, <2>2 DEF WaitersOn
  <2>4. \A d \in Conns : d # c => WaitersOn(d)' = WaitersOn(d)
    BY <1>0, <2>1, <2>2 DEF WaitersOn
  <2>5. Cardinality(WaitersOn(c) \ {t}) = Cardinality(WaitersOn(c)) - 1
    BY <2>1, <2>3, WaitersFinite, FS_RemoveElement
  <2>6. WaitCounted'
    BY <1>0, <2>1, <2>3, <2>4, <2>5 DEF Counted, WaitCounted
  <2>7. ShutdownDrains'
    BY <1>0, <2>1, <2>2 DEF Counted, ShutdownDrains
  <2> QED BY <2>6, <2>7 DEF Counted
<1>12. ASSUME NEW t \in Threads, a0_transport_shutdown(t) PROVE Counted'
  <2> DEFINE c == ConnOf[t]
  <2>1. /\ c \in Conns /\ pc[t] = "cs" /\ UNCHANGED wait_cnt
        /\ shutdown' = [shutdown EXCEPT ![c] = TRUE]
        /\ \/ wait_cnt[c] = 0 /\ pc' = Broadcast(pc)
           \/ wait_cnt[c] # 0 /\ pc' = [Broadcast(pc) EXCEPT ![t] = "sd_sleep"]
    BY <1>0, <1>12 DEF a0_transport_shutdown
  <2>2. \A u \in Threads : /\ Broadcast(pc)[u] \in Waiting <=> pc[u] \in Waiting
                           /\ Broadcast(pc)[u] \in SD <=> pc[u] \in SD
    BY <1>0 DEF Broadcast
  <2>3. /\ \A u \in Threads : /\ pc'[u] \in Waiting <=> pc[u] \in Waiting
                              /\ pc[u] \in SD => pc'[u] \in SD
        /\ wait_cnt[c] # 0 => pc'[t] \in SD
    BY <1>0, <2>1, <2>2 DEF Broadcast
  <2>4. \A d \in Conns : WaitersOn(d)' = WaitersOn(d)
    BY <2>3 DEF WaitersOn
  <2>5. WaitCounted'
    BY <2>1, <2>4 DEF Counted, WaitCounted
  <2>6. wait_cnt[c] = 0 => \A u \in Threads : ConnOf[u] = c => pc[u] \notin Waiting
    BY <2>1, CountZero DEF Counted
  <2>7. ShutdownDrains'
    BY <1>0, <2>1, <2>3, <2>6 DEF Counted, ShutdownDrains
  <2> QED BY <2>5, <2>7 DEF Counted
<1>13. ASSUME NEW t \in Threads, ShutdownWake(t) PROVE Counted'
  <2> DEFINE c == ConnOf[t]
  <2>1. /\ c \in Conns /\ pc[t] = "sd_woken" /\ UNCHANGED <<wait_cnt, shutdown>>
        /\ \/ wait_cnt[c] = 0 /\ pc' = [pc EXCEPT ![t] = "cs"]
           \/ wait_cnt[c] # 0 /\ pc' = [pc EXCEPT ![t] = "sd_sleep"]
    BY <1>0, <1>13 DEF ShutdownWake
  <2>2. \A u \in Threads : /\ pc'[u] \in Waiting <=> pc[u] \in Waiting
                           /\ pc[u] \in SD => pc'[u] \in SD \/ (u = t /\ wait_cnt[c] = 0)
    BY <1>0, <2>1
  <2>3. \A d \in Conns : WaitersOn(d)' = WaitersOn(d)
    BY <2>2 DEF WaitersOn
  <2>4. WaitCounted'
    BY <2>1, <2>3 DEF Counted, WaitCounted
  <2>5. wait_cnt[c] = 0 => \A u \in Threads : ConnOf[u] = c => pc[u] \notin Waiting
    BY <2>1, CountZero DEF Counted
  <2>6. ShutdownDrains'
    <3>1. CASE wait_cnt[c] = 0
      <4>1. \A d \in Conns : d # c => \A u \in Threads : ConnOf[u] = d => pc'[u] = pc[u]
        BY <1>0, <2>1
      <4> QED BY <2>1, <2>2, <2>5, <3>1, <4>1 DEF Counted, ShutdownDrains
    <3>2. CASE wait_cnt[c] # 0
      BY <2>1, <2>2, <3>2 DEF Counted, ShutdownDrains
    <3> QED BY <3>1, <3>2
  <2> QED BY <2>4, <2>6 DEF Counted
\* The peers of the connecting thread were dead.
<1>14. ASSUME NEW t \in Threads, InitDone(t) PROVE Calm
  <2>1. \A u \in Peers(t) : u # t => pc[u] = "dead"
    BY <1>14 DEF InitDone, InitAlone, Peers
  <2> QED BY <1>0, <1>14, <2>1 DEF InitDone, Calm
<1>15. ASSUME NEW c \in Conns, Crash(c) PROVE Counted'
  <2>1. ZeroConn(c) /\ \A u \in Threads : pc'[u] = IF ConnOf[u] = c THEN "dead" ELSE pc[u]
    BY <1>15 DEF Crash
  <2> QED BY <2>1, ZeroedCount
<1> QED
  BY Zenon, CalmStep, <1>1, <1>2, <1>3, <1>4, <1>6, <1>7, <1>8, <1>9, <1>10, <1>11, <1>12, <1>13,
     <1>14, <1>15
     DEF Next, Connecting, Notifying

-----------------------------------------------------------------------------
(* Type correctness. *)

(* A broadcast moves sleepers to control states that exist. *)
LEMMA BroadcastType ==
  ASSUME NEW f \in [Threads -> PCs]
  PROVE  Broadcast(f) \in [Threads -> PCs]
  BY DEF Broadcast, PCs, Asleep, Queued

(* A zeroed a0_transport_t has the type of one. *)
LEMMA ZeroConnType ==
  ASSUME TypeOK, NEW c \in Conns, ZeroConn(c)
  PROVE  /\ seq' \in [Conns -> Nat] /\ off' \in [Conns -> Nat]
         /\ wait_cnt' \in [Conns -> Nat] /\ shutdown' \in [Conns -> BOOLEAN]
  BY DEF TypeOK, ZeroConn

(* A frame header read at any offset consists of numbers. *)
LEMMA HeaderType ==
  ASSUME TypeOK, NEW o
  PROVE  /\ Hdr(o).seq \in Nat /\ Hdr(o).off \in Nat /\ Hdr(o).next_off \in Nat
         /\ Hdr(o).prev_off \in Nat /\ Hdr(o).data_size \in Nat
  BY DEF TypeOK, Hdr, Frame, ZeroFrame

(* No step leaves the types; that _wait_cnt is not decremented below zero *)
(* needs the exact count.                                                   *)
LEMMA TypeStep ==
  ASSUME TypeOK, Storage, WaitCounted, [Next]_vars
  PROVE  TypeOK'
PROOF
<1> USE DEF Go, local, conn, lock, shared, Acquire, Release, ResetWorking
<1>0. /\ pc \in [Threads -> PCs] /\ ConnOf \in [Threads -> Conns]
      /\ slot \in [Threads -> [off : Nat, size : Nat]]
      /\ C \in Page /\ W \in Page /\ mem \in [Offs -> Frame]
      /\ loc \in [Seqs -> Nat]
      /\ \A x \in {"dead", "idle"} \cup Asleep \cup Queued \cup Holding : x \in PCs
  BY Pages, ConstantsAssumption DEF TypeOK, PCs
<1> USE DEF Asleep, Queued, Holding
<1>1. UNCHANGED vars => TypeOK'
  BY DEF vars, TypeOK
<1>2. ASSUME NEW t \in Threads, a0_transport_lock(t) \/ a0_transport_unlock(t) PROVE TypeOK'
  <2>1. pages' \in [0..1 -> Page]
    BY <1>0, <1>2, SettingWorking DEF a0_transport_lock, a0_transport_unlock
  <2>2. pc' \in [Threads -> PCs] /\ owner' \in Threads \cup {None} /\ owner_died' \in BOOLEAN
    BY <1>0, <1>2 DEF a0_transport_lock, a0_transport_unlock, TypeOK
  <2> QED BY <1>2, <2>1, <2>2 DEF a0_transport_lock, a0_transport_unlock, TypeOK
<1>3. ASSUME NEW t \in Threads, a0_transport_init(t) PROVE TypeOK'
  <2>1. pages' \in [0..1 -> Page]
    BY <1>0, <1>3, SettingWorking DEF a0_transport_init
  <2>2. pc' \in [Threads -> PCs]
    BY <1>0, <1>3 DEF a0_transport_init
  <2>3. /\ seq' \in [Conns -> Nat] /\ off' \in [Conns -> Nat]
        /\ wait_cnt' \in [Conns -> Nat] /\ shutdown' \in [Conns -> BOOLEAN]
    BY <1>0, <1>3, ZeroConnType DEF a0_transport_init
  <2> QED BY <1>3, <2>1, <2>2, <2>3 DEF a0_transport_init, TypeOK
<1>4. ASSUME NEW t \in Threads, InitFields(t) PROVE TypeOK'
  <2>1. pages' \in [0..1 -> Page] /\ arena_size' \in ArenaSizes \cup {0}
    <3>1. \A i \in 0..1 : [pages[i] EXCEPT !.high_water_mark = WORKSPACE] \in Page
      BY Workspace DEF TypeOK, Page
    <3> QED BY <1>4, <3>1 DEF InitFields, TypeOK
  <2>2. pc' \in [Threads -> PCs]
    BY <1>0, <1>4 DEF InitFields
  <2> QED BY <1>4, <2>1, <2>2 DEF InitFields, TypeOK
<1>5. ASSUME NEW t \in Threads, InitDone(t) PROVE TypeOK'
  <2>1. pages' \in [0..1 -> Page]
    BY <1>0, <1>5, SettingWorking DEF InitDone
  <2>2. pc' \in [Threads -> PCs]
    BY <1>0, <1>5 DEF InitDone
  <2> QED BY <1>5, <2>1, <2>2 DEF InitDone, TypeOK
<1>6. ASSUME NEW t \in Threads, a0_transport_alloc(t) PROVE TypeOK'
  <2>1. ASSUME NEW n \in Nat PROVE find_slot(n) \in Nat
    <3>1. W.off_tail \in Nat
      BY <1>0 DEF Page
    <3>2. frame_end(W.off_tail) \in Nat
      BY <3>1, HeaderType DEF frame_end, HDR_SIZE
    <3> QED BY <3>2, MaxAlign, Workspace DEF find_slot
  <2>2. slot' \in [Threads -> [off : Nat, size : Nat]]
    <3>1. PICK size \in Sizes :
            slot' = [slot EXCEPT ![t] = [off |-> find_slot(HDR_SIZE + size), size |-> size]]
      BY <1>6 DEF a0_transport_alloc
    <3>2. size \in Nat /\ HDR_SIZE + size \in Nat
      BY ConstantsAssumption DEF HDR_SIZE
    <3>3. find_slot(HDR_SIZE + size) \in Nat
      BY <2>1, <3>2
    <3> QED BY <1>0, <3>1, <3>2, <3>3
  <2>3. pc' \in [Threads -> PCs]
    BY <1>0, <1>6 DEF a0_transport_alloc
  <2> QED BY <1>6, <2>2, <2>3 DEF a0_transport_alloc, TypeOK
<1>7. ASSUME NEW t \in Threads, EvictHead(t) PROVE TypeOK'
  <2>1. W = C /\ ~Empty(C) /\ Good(C, mem, loc)
    BY <1>7 DEF EvictHead, Storage, AtEvict, slot_evicts
  <2>2. remove_head(W) \in Page
    BY <1>0, <2>1, RemoveHeadGood
  <2>3. pages' \in [0..1 -> Page]
    BY <1>7, <2>2, SettingWorking DEF EvictHead
  <2>4. pc' \in [Threads -> PCs]
    BY <1>0, <1>7 DEF EvictHead
  <2> QED BY <1>7, <2>3, <2>4 DEF EvictHead, TypeOK
<1>8. ASSUME NEW t \in Threads, NEW from, NEW to \in Holding, CommitFlip(t, from, to) PROVE TypeOK'
  <2>1. committed_page_idx' \in 0..1
    BY <1>8, Flipping DEF CommitFlip
  <2>2. pc' \in [Threads -> PCs]
    BY <1>0, <1>8 DEF CommitFlip
  <2> QED BY <1>8, <2>1, <2>2 DEF CommitFlip, TypeOK
<1>9. ASSUME NEW t \in Threads, NEW from, NEW to \in Holding, CommitCopy(t, from, to) PROVE TypeOK'
  <2>1. pages' \in [0..1 -> Page]
    BY <1>0, <1>9, SettingWorking DEF CommitCopy
  <2>2. [pc EXCEPT ![t] = to] \in [Threads -> PCs]
    BY <1>0
  <2>3. pc' \in [Threads -> PCs]
    BY <1>9, <2>2, BroadcastType DEF CommitCopy
  <2> QED BY <1>9, <2>1, <2>3 DEF CommitCopy, TypeOK
<1>10. \A t \in Threads : EvictCommit(t) \/ a0_transport_commit(t) => TypeOK'
  BY <1>8, <1>9 DEF EvictCommit, a0_transport_commit
<1>11. ASSUME NEW t \in Threads, SlotInit(t) PROVE TypeOK'
  <2>1. slot[t].off \in Nat /\ slot[t].size \in Nat
    BY <1>0
  <2>2. W.seq_low \in Nat /\ W.seq_high \in Nat
    BY <1>0 DEF Page
  <2>3. slot_init(W) \in Page
    BY <1>0, <2>2 DEF slot_init, Page
  <2>4. pages' \in [0..1 -> Page]
    BY <1>11, <2>3, SettingWorking DEF SlotInit
  <2>5. new_frame(W, slot[t]) \in Frame
    BY <2>1, <2>2 DEF new_frame, Frame
  <2>6. HDR_SIZE \in Nat
    BY DEF HDR_SIZE
  <2>7. mem' \in [Offs -> Frame]
    BY <1>11, <2>1, <2>5, <2>6, OverwriteType DEF SlotInit
  <2>8. loc' \in [Seqs -> Nat]
    BY <1>0, <1>11, <2>1 DEF SlotInit
  <2>9. pc' \in [Threads -> PCs]
    BY <1>0, <1>11 DEF SlotInit
  <2> QED BY <1>11, <2>4, <2>7, <2>8, <2>9 DEF SlotInit, TypeOK
<1>12. ASSUME NEW t \in Threads, LinkFrame(t) PROVE TypeOK'
  <2>1. /\ Good(C, mem, loc) /\ SlotFits(slot[t]) /\ SlotFree(slot[t])
        /\ C.seq_high < MaxSeq /\ W = slot_init(C)
        /\ mem[slot[t].off] = new_frame(C, slot[t]) /\ loc[C.seq_high + 1] = slot[t].off
        /\ C.high_water_mark >= WORKSPACE /\ C.high_water_mark <= arena_size
    BY <1>12 DEF LinkFrame, Storage, AtLink, Birth
  <2>2. linked_page(W, slot[t].off) \in Page /\ linked_mem(W, slot[t].off) \in [Offs -> Frame]
    BY <2>1, LinkGood
  <2>3. pages' \in [0..1 -> Page]
    BY <1>12, <2>2, SettingWorking DEF LinkFrame
  <2>4. pc' \in [Threads -> PCs]
    BY <1>0, <1>12 DEF LinkFrame
  <2> QED BY <1>12, <2>2, <2>3, <2>4 DEF LinkFrame, TypeOK
<1>13. ASSUME NEW t \in Threads, FillFrame(t) PROVE TypeOK'
  <2>1. slot[t].off \in Nat /\ slot[t].size \in Nat /\ slot[t].off + HDR_SIZE \in Nat
    BY <1>0 DEF HDR_SIZE
  <2> DEFINE m == Overwrite(mem, slot[t].off + HDR_SIZE, slot[t].size)
  <2>2. m \in [Offs -> Frame]
    BY <2>1, OverwriteType
  <2>3. PICK d \in Data : mem' = [m EXCEPT ![slot[t].off].data = d]
    BY <1>13 DEF FillFrame
  <2>4. mem' \in [Offs -> Frame]
    <3> HIDE DEF m
    <3> QED BY <2>2, <2>3 DEF Frame
  <2>5. pc' \in [Threads -> PCs] /\ slot' \in [Threads -> [off : Nat, size : Nat]]
    BY <1>0, <1>13 DEF FillFrame, NoSlot
  <2> QED BY <1>13, <2>4, <2>5 DEF FillFrame, TypeOK
<1>14. ASSUME NEW t \in Threads, a0_transport_clear(t) PROVE TypeOK'
  <2>1. W.seq_high \in Nat
    BY <1>0 DEF Page
  <2>2. cleared(W) \in Page
    BY <2>1, Workspace DEF cleared, Page
  <2>3. pages' \in [0..1 -> Page]
    BY <1>14, <2>2, SettingWorking DEF a0_transport_clear
  <2>4. pc' \in [Threads -> PCs]
    BY <1>0, <1>14 DEF a0_transport_clear
  <2> QED BY <1>14, <2>3, <2>4 DEF a0_transport_clear, TypeOK
<1>15. \A t \in Threads : a0_transport_resize(t) => TypeOK'
  BY DEF a0_transport_resize, TypeOK
<1>16. ASSUME NEW t \in Threads, NEW o \in Nat, NEW s \in Nat, MovePointer(t, o, s) PROVE TypeOK'
  BY <1>16 DEF MovePointer, TypeOK
<1>17. ASSUME NEW t \in Threads, Reading(t) PROVE TypeOK'
  <2>1. /\ W.off_head \in Nat /\ W.off_tail \in Nat /\ W.seq_low \in Nat /\ W.seq_high \in Nat
    BY <1>0 DEF Page
  <2>2. \A s \in Live(C) : loc[s] \in Nat
    BY <1>0 DEF Live
  <2>3. \A c \in Conns : next_ptr(W, c) \in Nat /\ next_seq(W, c) \in Nat
    BY <2>1, HeaderType DEF next_ptr, next_seq
  <2>4. a0_transport_jump_head(t) \/ a0_transport_jump_tail(t) => TypeOK'
    BY <1>16, <2>1 DEF a0_transport_jump_head, a0_transport_jump_tail
  <2>5. a0_transport_jump(t) => TypeOK'
    BY <1>16, <2>2, HeaderType DEF a0_transport_jump
  <2>6. a0_transport_step_next(t) => TypeOK'
    BY <1>0, <1>16, <2>3 DEF a0_transport_step_next
  <2>7. a0_transport_step_prev(t) => TypeOK'
    BY <1>16, HeaderType DEF a0_transport_step_prev
  <2> QED BY <1>17, <2>4, <2>5, <2>6, <2>7 DEF Reading
<1>18. ASSUME NEW t \in Threads, a0_transport_timedwait(t) PROVE TypeOK'
  <2>1. pc' \in [Threads -> PCs]
    BY <1>0, <1>18 DEF a0_transport_timedwait
  <2>2. wait_cnt \in [Conns -> Nat] /\ want \in [Threads -> Preds]
    BY DEF TypeOK
  <2>3. wait_cnt' \in [Conns -> Nat]
    <3>1. wait_cnt' = [wait_cnt EXCEPT ![ConnOf[t]] = @ + 1]
      BY <1>18 DEF a0_transport_timedwait
    <3> QED BY <1>0, <2>2, <3>1
  <2>4. want' \in [Threads -> Preds]
    BY <2>2, <1>18 DEF a0_transport_timedwait
  <2> QED BY <2>3, <2>4, <1>18, <2>1, <2>2 DEF a0_transport_timedwait, TypeOK
<1>19. \A t \in Threads : Timeout(t) \/ WaitAgain(t) => TypeOK'
  <2>1. \A t \in Threads : Timeout(t) \/ WaitAgain(t) => pc' \in [Threads -> PCs]
    BY <1>0 DEF Timeout, WaitAgain
  <2> QED BY <2>1 DEF Timeout, WaitAgain, TypeOK
<1>20. ASSUME NEW t \in Threads, WaitDone(t) PROVE TypeOK'
  <2>1. [pc EXCEPT ![t] = "cs"] \in [Threads -> PCs]
    BY <1>0
  <2>2. pc' \in [Threads -> PCs]
    BY <1>20, <2>1, BroadcastType DEF WaitDone
  <2>3. ConnOf[t] \in Conns /\ pc[t] \in Waiting
    BY <1>0, <1>20 DEF WaitDone, WaitReturns, Waiting
  <2>4. wait_cnt[ConnOf[t]] \in Nat /\ wait_cnt[ConnOf[t]] # 0
    BY <2>3, CountZero
  <2>5. wait_cnt' \in [Conns -> Nat] /\ want' \in [Threads -> Preds]
    BY <1>20, <2>3, <2>4 DEF WaitDone, TypeOK, Preds
  <2> QED BY <1>20, <2>2, <2>5 DEF WaitDone, TypeOK
<1>21. ASSUME NEW t \in Threads, a0_transport_shutdown(t) PROVE TypeOK'
  <2>1. Broadcast(pc) \in [Threads -> PCs]
    BY <1>0, BroadcastType
  <2>2. pc' \in [Threads -> PCs]
    BY <1>0, <1>21, <2>1 DEF a0_transport_shutdown
  <2>3. shutdown' \in [Conns -> BOOLEAN]
    BY <1>21 DEF a0_transport_shutdown, TypeOK
  <2> QED BY <1>21, <2>2, <2>3 DEF a0_transport_shutdown, TypeOK
<1>22. ASSUME NEW t \in Threads, ShutdownWake(t) PROVE TypeOK'
  <2>1. pc' \in [Threads -> PCs]
    BY <1>0, <1>22 DEF ShutdownWake
  <2> QED BY <1>22, <2>1 DEF ShutdownWake, TypeOK
<1>23. ASSUME NEW c \in Conns, Crash(c) PROVE TypeOK'
  <2>1. pc' \in [Threads -> PCs]
    BY <1>0, <1>23 DEF Crash
  <2>2. slot' \in [Threads -> [off : Nat, size : Nat]] /\ want' \in [Threads -> Preds]
    BY <1>0, <1>23 DEF Crash, NoSlot, TypeOK, Preds
  <2>3. /\ seq' \in [Conns -> Nat] /\ off' \in [Conns -> Nat]
        /\ wait_cnt' \in [Conns -> Nat] /\ shutdown' \in [Conns -> BOOLEAN]
    BY <1>23, ZeroConnType DEF Crash
  <2>4. owner' \in Threads \cup {None} /\ owner_died' \in BOOLEAN
    BY Zenon, <1>23 DEF Crash, TypeOK
  <2>5. crashes' \in Nat
    <3>1. crashes' = crashes + 1
      BY <1>23 DEF Crash
    <3> QED BY <3>1 DEF TypeOK
  <2> QED BY <1>23, <2>1, <2>2, <2>3, <2>4, <2>5 DEF Crash, TypeOK
<1> QED
  BY Zenon, <1>1, <1>2, <1>3, <1>4, <1>5, <1>6, <1>7, <1>10, <1>11, <1>12, <1>13, <1>14, <1>15,
     <1>17, <1>18, <1>19, <1>20, <1>21, <1>22, <1>23
     DEF Next, Connecting, Writing, Notifying

-----------------------------------------------------------------------------
(* The storage: pages and arena. *)

(* What a thread inside the transport may rely on. *)
LEMMA Inside ==
  ASSUME TypeOK, OwnerIsInside, Storage, NEW t \in Threads,
         pc[t] \in Holding, pc[t] \notin {"init_fields", "init_done"}
  PROVE  /\ initialized /\ arena_size \in ArenaSizes /\ arena_size \in Nat
         /\ C.high_water_mark >= WORKSPACE /\ C.high_water_mark <= arena_size
         /\ \A u \in Threads : u # t => pc[u] \notin Holding
         /\ C \in Page /\ W \in Page
         /\ mem \in [Offs -> Frame] /\ loc \in [Seqs -> Nat]
         /\ Good(C, mem, loc) /\ Filled(C, mem, loc) /\ Shape(C)
PROOF
<1>1. initialized
  BY DEF Storage, Birth, Holding
<1>2. arena_size \in ArenaSizes /\ C.high_water_mark >= WORKSPACE
  BY <1>1 DEF Storage, Birth
<1>3. arena_size \in Nat
  BY <1>2, ConstantsAssumption
<1> QED BY <1>1, <1>2, <1>3, Pages DEF Storage, Good, OwnerIsInside, TypeOK

(* A step of the thread that owns the mutex, inside the transport. *)
LEMMA OwnerStorage ==
  ASSUME TypeOK, OwnerIsInside, Storage, NEW t \in Threads, NEW x \in WriterPCs \cup {"cs"},
         pc[t] \in WriterPCs \cup {"cs"}, t \in Writers,
         \/ pc' = [pc EXCEPT ![t] = x]
         \/ pc' = Broadcast([pc EXCEPT ![t] = x]),
         UNCHANGED initialized, arena_size' \in ArenaSizes,
         Good(C, mem, loc)', Filled(C, mem, loc)',
         (C.high_water_mark <= arena_size)', (C.high_water_mark >= WORKSPACE)',
         AtEvict(t)', AtLink(t)', AtFill(t)', AtRest(t)'
  PROVE  Storage'
PROOF
<1>1. pc \in [Threads -> PCs]
  BY DEF TypeOK
<1>2. initialized' /\ \A u \in Threads : u # t => pc[u] \notin Holding
  BY Inside DEF WriterPCs, Holding
<1>3. \A u \in Threads : \/ u # t /\ pc'[u] = pc[u]
                         \/ u = t /\ pc'[u] = x
                         \/ u # t /\ pc[u] = "sleep" /\ pc'[u] = "woken"
                         \/ u # t /\ pc[u] = "sd_sleep" /\ pc'[u] = "sd_woken"
  BY <1>1 DEF Broadcast, WriterPCs
<1>4. \A u \in Threads : u # t => pc'[u] \notin Holding
  BY <1>2, <1>3 DEF Holding
<1>5. pc'[t] = x
  BY <1>1 DEF Broadcast, WriterPCs
<1>6. Birth'
  <2>1. \A u \in Threads : pc'[u] # "init_done"
    BY <1>4, <1>5 DEF Holding, WriterPCs
  <2> QED BY <1>2, <2>1 DEF Birth
<1>7. Roles'
  BY <1>3 DEF Storage, Roles, WriterPCs, Waiting
<1>8. \A u \in Threads : u # t => AtEvict(u)' /\ AtLink(u)' /\ AtFill(u)' /\ AtRest(u)'
  BY <1>4 DEF AtEvict, AtLink, AtFill, AtRest, Holding
<1> QED BY <1>6, <1>7, <1>8 DEF Storage

(* A step that leaves the storage alone. *)
LEMMA StorageKept ==
  ASSUME TypeOK, Storage, UNCHANGED shared,
         \A u \in Threads : \/ pc'[u] = pc[u] /\ slot'[u] = slot[u]
                            \/ pc'[u] = "dead"
                            \/ /\ initialized /\ u \notin Writers
                               /\ \/ pc'[u] = "cs"
                                  \/ pc'[u] \in Waiting /\ u \in Readers
                                  \/ pc'[u] \in SD /\ u \in Closers
  PROVE  Storage'
PROOF
<1>1. /\ C' = C /\ W' = W /\ UNCHANGED <<initialized, arena_size, pages, committed_page_idx, mem, loc>>
  BY DEF shared, C, W
<1>2. Good(C, mem, loc)' /\ Filled(C, mem, loc)' /\ (C.high_water_mark <= arena_size)'
  BY <1>1 DEF Storage, Good, Shape, Anchored, Placed, Chained, Apart, Cyclic, Topped, Filled,
              Empty, Live, End
<1>3. Birth'
  BY <1>1 DEF Storage, Birth, Waiting, SD
<1>4. Roles'
  BY DEF Storage, Roles, Waiting, SD, WriterPCs
<1>5. ASSUME NEW u \in Threads
      PROVE  AtEvict(u)' /\ AtLink(u)' /\ AtFill(u)' /\ AtRest(u)'
  <2>1. CASE pc'[u] = pc[u] /\ slot'[u] = slot[u]
    <3>1. AtEvict(u) /\ AtLink(u) /\ AtFill(u) /\ AtRest(u)
      BY DEF Storage
    <3>2. remove_head(C)' = remove_head(C)
      BY <1>1 DEF remove_head, Hdr, frame_end
    <3>3. AtEvict(u)'
      BY <1>1, <2>1, <3>1, <3>2 DEF AtEvict, SlotFits, SlotBehindTail, Empty, End
    <3>4. AtLink(u)'
      BY <1>1, <2>1, <3>1 DEF AtLink, SlotFits, SlotFree, slot_init, new_frame, Live, Empty, End
    <3>5. Good(W, mem, loc)' <=> Good(W, mem, loc)
      BY <1>1 DEF Good, Shape, Anchored, Placed, Chained, Apart, Cyclic, Topped,
                  Empty, Live, End
    <3>6. AtFill(u)'
      BY <1>1, <2>1, <3>1, <3>5 DEF AtFill, SlotFits, Filled, Live, Empty
    <3>7. AtRest(u)'
      BY <1>1, <2>1, <3>1 DEF AtRest, cleared
    <3> QED BY <3>3, <3>4, <3>6, <3>7
  <2>2. CASE ~(pc'[u] = pc[u] /\ slot'[u] = slot[u])
    BY <2>2 DEF AtEvict, AtLink, AtFill, AtRest, Waiting, SD
  <2> QED BY <2>1, <2>2
<1> QED BY <1>2, <1>3, <1>4, <1>5 DEF Storage

(* Good and Filled depend on the state only through their arguments. *)
LEMMA SameStorage ==
  ASSUME Good(C, mem, loc), Filled(C, mem, loc), C' = C, UNCHANGED <<mem, loc>>
  PROVE  Good(C, mem, loc)' /\ Filled(C, mem, loc)'
  BY DEF Good, Shape, Anchored, Placed, Chained, Apart, Cyclic, Topped, Filled, Empty, Live, End

(* Taking and giving back the mutex: the working page is the committed one. *)
LEMMA LockStorage ==
  ASSUME TypeOK, OwnerIsInside, Storage, NEW t \in Threads,
         a0_transport_lock(t) \/ a0_transport_unlock(t)
  PROVE  Storage'
PROOF
<1>1. /\ C' = C /\ W' = C /\ UNCHANGED <<initialized, arena_size, mem, loc, slot>>
      /\ \E x \in {"idle", "cs"} : pc' = [pc EXCEPT ![t] = x]
  BY Pages, SettingWorking DEF a0_transport_lock, a0_transport_unlock, ResetWorking, Go
<1>2. pc[t] \in {"idle", "cs", "filled"} /\ initialized
  BY DEF a0_transport_lock, a0_transport_unlock, Go, Storage, Birth
<1>3. pc \in [Threads -> PCs] /\ pc'[t] \in {"idle", "cs"} /\ \A u \in Threads : u # t => pc'[u] = pc[u]
  BY <1>1 DEF TypeOK
<1>4. \A u \in Threads : u # t => pc[u] \notin Holding
  BY <1>2, ConstantsAssumption
     DEF a0_transport_lock, a0_transport_unlock, Acquire, OwnerIsInside, Holding
<1>5. Good(C, mem, loc)' /\ Filled(C, mem, loc)' /\ (C.high_water_mark <= arena_size)'
  BY <1>1, SameStorage DEF Storage
<1>6. Birth'
  BY <1>1, <1>2, <1>3 DEF Storage, Birth
<1>7. Roles'
  BY <1>1, <1>3 DEF Storage, Roles, WriterPCs, Waiting
<1>8. ASSUME NEW u \in Threads PROVE AtEvict(u)' /\ AtLink(u)' /\ AtFill(u)' /\ AtRest(u)'
  BY <1>1, <1>3, <1>4 DEF AtEvict, AtLink, AtFill, AtRest, Holding
<1> QED BY <1>5, <1>6, <1>7, <1>8 DEF Storage

(* Connecting: the first process to arrive gives birth to the arena. *)
LEMMA ConnectStorage ==
  ASSUME TypeOK, OwnerIsInside, InitAlone, Storage, NEW t \in Threads, Connecting(t)
  PROVE  Storage'
PROOF
<1>0. pc \in [Threads -> PCs] /\ C \in Page /\ W \in Page
  BY Pages DEF TypeOK
<1>1. ASSUME a0_transport_init(t) PROVE Storage'
  <2>1. /\ C' = C /\ W' = C /\ UNCHANGED <<initialized, arena_size, mem, loc, slot>>
        /\ pc' = [pc EXCEPT ![t] = "init_fields"] /\ owner = None
    BY <1>0, <1>1, SettingWorking DEF a0_transport_init, ResetWorking, Acquire
  <2>2. \A u \in Threads : pc[u] \notin Holding
    BY <2>1, ConstantsAssumption DEF OwnerIsInside
  <2>3. pc'[t] = "init_fields" /\ \A u \in Threads : u # t => pc'[u] = pc[u]
    BY <1>0, <2>1
  <2>4. Good(C, mem, loc)' /\ Filled(C, mem, loc)' /\ (C.high_water_mark <= arena_size)'
    BY <2>1, SameStorage DEF Storage
  <2>5. Birth'
    <3>1. pages' = [pages EXCEPT ![1 - committed_page_idx] = C]
      BY <1>1 DEF a0_transport_init, ResetWorking, SetWorking
    <3>2. \A i \in 0..1 : pages'[i] = pages[i] \/ pages'[i] = pages[committed_page_idx]
      BY <3>1 DEF TypeOK, C
    <3>3. committed_page_idx \in 0..1
      BY DEF TypeOK
    <3>4. \A u \in Threads : pc'[u] # "init_done"
      BY <2>2, <2>3 DEF Holding
    <3> QED BY <2>1, <2>3, <3>2, <3>3, <3>4 DEF Storage, Birth
  <2>6. Roles'
    BY <2>3 DEF Storage, Roles, WriterPCs, Waiting
  <2>7. ASSUME NEW u \in Threads PROVE AtEvict(u)' /\ AtLink(u)' /\ AtFill(u)' /\ AtRest(u)'
    BY <2>2, <2>3 DEF AtEvict, AtLink, AtFill, AtRest, Holding
  <2> QED BY <2>4, <2>5, <2>6, <2>7 DEF Storage
<1>2. ASSUME InitFields(t) PROVE Storage'
  <2>1. pc[t] = "init_fields" /\ pc'[t] = "init_done" /\ \A u \in Threads : u # t => pc'[u] = pc[u]
    BY <1>0, <1>2 DEF InitFields, Go
  <2>2. \A u \in Threads : u # t => pc[u] \notin Holding
    BY <2>1 DEF OwnerIsInside, Holding
  <2>3. Roles'
    BY <2>1 DEF Storage, Roles, WriterPCs, Waiting
  <2>4. ASSUME NEW u \in Threads PROVE AtEvict(u)' /\ AtLink(u)' /\ AtFill(u)' /\ AtRest(u)'
    BY <2>1, <2>2 DEF AtEvict, AtLink, AtFill, AtRest, Holding
  <2>5. CASE initialized
    <3>1. C' = C /\ UNCHANGED <<initialized, arena_size, pages, mem, loc>>
      BY <1>2, <2>5 DEF InitFields, C
    <3>2. Good(C, mem, loc)' /\ Filled(C, mem, loc)' /\ (C.high_water_mark <= arena_size)'
      BY <3>1, SameStorage DEF Storage
    <3>3. Birth'
      BY <2>5, <3>1 DEF Storage, Birth
    <3> QED BY <2>3, <2>4, <3>2, <3>3 DEF Storage
  <2>6. CASE ~initialized
    <3>1. /\ arena_size' \in ArenaSizes /\ UNCHANGED <<initialized, committed_page_idx, mem, loc>>
          /\ pages' = [i \in 0..1 |-> [pages[i] EXCEPT !.high_water_mark = WORKSPACE]]
      BY <1>2, <2>6 DEF InitFields
    <3>2. committed_page_idx \in 0..1 /\ \A i \in 0..1 : pages[i] \in Page
      BY DEF TypeOK
    <3>3. \A i \in 0..1 : /\ pages'[i].seq_low = pages[i].seq_low
                          /\ pages'[i].seq_high = pages[i].seq_high
                          /\ pages'[i].off_head = pages[i].off_head
                          /\ pages'[i].off_tail = pages[i].off_tail
                          /\ pages'[i].high_water_mark = WORKSPACE
      BY <3>1, <3>2 DEF Page
    <3>4. \A i \in 0..1 : /\ pages[i].seq_low = 0 /\ pages[i].seq_high = 0
                          /\ pages[i].off_head = 0 /\ pages[i].off_tail = 0
      BY <2>6 DEF Storage, Birth
    <3>5. /\ C'.seq_low = 0 /\ C'.seq_high = 0 /\ C'.off_head = 0 /\ C'.off_tail = 0
          /\ C'.high_water_mark = WORKSPACE
      BY <3>1, <3>2, <3>3, <3>4 DEF C
    <3>6. Empty(C)' /\ Live(C)' = {}
      BY <3>5 DEF Empty, Live
    <3>7. Good(C, mem, loc)' /\ Filled(C, mem, loc)'
      BY <3>5, <3>6, ConstantsAssumption
         DEF Good, Shape, Anchored, Placed, Chained, Apart, Cyclic, Topped, Filled
    <3>8. (C.high_water_mark <= arena_size)' /\ (C.high_water_mark >= WORKSPACE)'
      BY <3>1, <3>5, Workspace, ConstantsAssumption
    <3>9. Birth'
      <4>1. \A u \in Threads : pc'[u] \in {"dead", "init_fields", "init_done"}
        BY <2>1, <2>6 DEF Storage, Birth
      <4> QED BY <2>6, <3>1, <3>3, <3>4, <3>8, <4>1 DEF Birth
    <3> QED BY <2>3, <2>4, <3>7, <3>8, <3>9 DEF Storage
  <2> QED BY <2>5, <2>6
<1>3. ASSUME InitDone(t) PROVE Storage'
  <2>1. /\ C' = C /\ W' = C /\ initialized' /\ UNCHANGED <<arena_size, mem, loc, slot>>
        /\ pc[t] = "init_done"
        /\ pc' = [u \in Threads |-> IF u \in Peers(t) THEN "idle" ELSE pc[u]]
    BY <1>0, <1>3, SettingWorking DEF InitDone, ResetWorking
  <2>2. \A u \in Threads : u # t => pc[u] \notin Holding
    BY <2>1 DEF OwnerIsInside, Holding
  <2>3. \A u \in Threads : pc'[u] = "idle" \/ (pc'[u] = pc[u] /\ u # t)
    BY <2>1 DEF Peers
  <2>4. Good(C, mem, loc)' /\ Filled(C, mem, loc)' /\ (C.high_water_mark <= arena_size)'
    BY <2>1, SameStorage DEF Storage
  <2>5. Birth'
    BY <2>1, <2>2, <2>3 DEF Storage, Birth, Holding
  <2>6. Roles'
    BY <2>3 DEF Storage, Roles, WriterPCs, Waiting
  <2>7. ASSUME NEW u \in Threads PROVE AtEvict(u)' /\ AtLink(u)' /\ AtFill(u)' /\ AtRest(u)'
    BY <2>2, <2>3 DEF AtEvict, AtLink, AtFill, AtRest, Holding
  <2> QED BY <2>4, <2>5, <2>6, <2>7 DEF Storage
<1> QED BY <1>1, <1>2, <1>3 DEF Connecting

-----------------------------------------------------------------------------
(* The steps of a writer. *)

(* The slot found for a frame fits the arena and lies at the start of the *)
(* workspace or right behind the tail.                                    *)
LEMMA AllocStorage ==
  ASSUME TypeOK, OwnerIsInside, Storage, NEW t \in Threads, a0_transport_alloc(t)
  PROVE  Storage'
PROOF
<1>1. /\ pc[t] = "cs" /\ t \in Writers /\ pc' = [pc EXCEPT ![t] = "evict"]
      /\ UNCHANGED <<initialized, arena_size, pages, committed_page_idx, mem, loc>>
      /\ W.seq_high < MaxSeq
  BY DEF a0_transport_alloc, Go, shared
<1>2. /\ initialized /\ arena_size \in ArenaSizes /\ arena_size \in Nat
      /\ C.high_water_mark >= WORKSPACE /\ C.high_water_mark <= arena_size
      /\ C \in Page /\ Good(C, mem, loc) /\ Filled(C, mem, loc)
  BY <1>1, Inside DEF Holding
<1>3. W = C /\ C' = C /\ W' = W
  BY <1>1 DEF Storage, AtRest, C, W
<1>4. PICK size \in Sizes :
        /\ find_slot(HDR_SIZE + size) + HDR_SIZE + size <= arena_size
        /\ slot' = [slot EXCEPT ![t] = [off |-> find_slot(HDR_SIZE + size), size |-> size]]
  BY DEF a0_transport_alloc
<1> DEFINE o == find_slot(HDR_SIZE + size)
<1>5. size \in Nat /\ size # 0
  BY ConstantsAssumption
<1>6. slot'[t].off = o /\ slot'[t].size = size
  BY <1>4 DEF TypeOK
<1>7. /\ \/ o = WORKSPACE
         \/ ~Empty(C) /\ o = a0_max_align(End(mem, C.off_tail))
                      /\ o + HDR_SIZE + size < arena_size
      /\ o \in Offs
  <2>1. CASE o = WORKSPACE
    <3>1. WORKSPACE \in Nat /\ WORKSPACE % ALIGN = 0 /\ WORKSPACE < arena_size
      BY <1>2, Workspace, ConstantsAssumption DEF ALIGN
    <3> QED BY <2>1, <3>1, <1>2, OffsetFacts, Workspace
  <2>2. CASE o # WORKSPACE
    <3>1. ~Empty(C) /\ ~(o + (HDR_SIZE + size) >= arena_size)
          /\ o = a0_max_align(frame_end(C.off_tail))
      BY <2>2, <1>3 DEF find_slot
    <3>2. /\ C.off_tail \in Offs /\ End(mem, C.off_tail) \in Nat
          /\ End(mem, C.off_tail) >= WORKSPACE
      BY <3>1, <1>2, Positions, Workspace DEF HDR_SIZE
    <3>3. frame_end(C.off_tail) = End(mem, C.off_tail)
      BY <3>2 DEF frame_end, End, Hdr
    <3>4. o \in Nat /\ o % ALIGN = 0 /\ o >= WORKSPACE
      BY <3>1, <3>2, <3>3, MaxAlign, Workspace
    <3>5. o + HDR_SIZE + size < arena_size /\ o < arena_size
      <4> HIDE DEF o
      <4> QED BY <3>1, <3>4, <1>2, <1>5 DEF HDR_SIZE
    <3> QED BY <3>1, <3>3, <3>4, <3>5, <1>2, OffsetFacts
  <2> QED BY <2>1, <2>2
<1>8. SlotFits(slot[t])' /\ SlotBehindTail(slot[t])'
  BY <1>1, <1>3, <1>4, <1>6, <1>7 DEF SlotFits, SlotBehindTail, Empty, End
<1>9. pc'[t] = "evict"
  BY <1>1 DEF TypeOK
<1>10. Good(C, mem, loc)' /\ Filled(C, mem, loc)'
  BY <1>1, <1>2, <1>3, SameStorage
<1>11. AtEvict(t)' /\ AtLink(t)' /\ AtFill(t)' /\ AtRest(t)'
  BY <1>1, <1>3, <1>8, <1>9 DEF AtEvict, AtLink, AtFill, AtRest
<1> HIDE DEF o
<1> QED BY <1>1, <1>2, <1>3, <1>10, <1>11, OwnerStorage DEF WriterPCs

(* The eviction loop removes the head on the working page. *)
LEMMA EvictStorage ==
  ASSUME TypeOK, OwnerIsInside, Storage, NEW t \in Threads, EvictHead(t)
  PROVE  Storage'
PROOF
<1>1. /\ pc[t] = "evict" /\ pc' = [pc EXCEPT ![t] = "evict_flip"]
      /\ UNCHANGED <<initialized, arena_size, committed_page_idx, mem, loc, slot>>
      /\ slot_evicts(W, slot[t].off, HDR_SIZE + slot[t].size)
      /\ SetWorking(remove_head(W))
  BY DEF EvictHead, Go
<1>2. /\ arena_size \in ArenaSizes /\ t \in Writers
      /\ C.high_water_mark >= WORKSPACE /\ C.high_water_mark <= arena_size
      /\ C \in Page /\ Good(C, mem, loc) /\ Filled(C, mem, loc)
  BY <1>1, Inside DEF Holding, Storage, Roles, WriterPCs
<1>3. /\ W = C /\ ~Empty(C) /\ SlotFits(slot[t]) /\ SlotBehindTail(slot[t])
      /\ C.seq_high < MaxSeq
  BY <1>1 DEF Storage, AtEvict, slot_evicts
<1>4. C' = C /\ W' = remove_head(C)
  BY <1>1, <1>2, <1>3, RemoveHeadGood, SettingWorking
<1>5. remove_head(C)' = remove_head(C)
  BY <1>1, <1>4 DEF remove_head, Hdr, frame_end
<1>6. SlotFits(slot[t])' /\ SlotBehindTail(slot[t])' /\ ~Empty(C)'
  BY <1>1, <1>3, <1>4 DEF SlotFits, SlotBehindTail, Empty, End
<1>7. Good(C, mem, loc)' /\ Filled(C, mem, loc)'
  BY <1>1, <1>2, <1>4, SameStorage
<1>8. pc'[t] = "evict_flip"
  BY <1>1 DEF TypeOK
<1>9. AtEvict(t)' /\ AtLink(t)' /\ AtFill(t)' /\ AtRest(t)'
  BY <1>3, <1>4, <1>5, <1>6, <1>8 DEF AtEvict, AtLink, AtFill, AtRest
<1> QED BY <1>1, <1>2, <1>4, <1>7, <1>9, OwnerStorage DEF WriterPCs

(* Flipping the page index makes the working page the committed one, *)
(* which is good whatever the operation in progress.                 *)
LEMMA FlipStorage ==
  ASSUME TypeOK, OwnerIsInside, Storage, NEW t \in Threads, NEW from, NEW to,
         CommitFlip(t, from, to),
         \/ from = "evict_flip" /\ to = "evict_copy"
         \/ from \in {"filled", "flip"} /\ to = "copy"
  PROVE  Storage'
PROOF
<1>1. /\ pc[t] = from /\ pc' = [pc EXCEPT ![t] = to]
      /\ UNCHANGED <<initialized, arena_size, pages, mem, loc, slot>>
      /\ committed_page_idx' = 1 - committed_page_idx
  BY DEF CommitFlip, Go
<1>2. /\ arena_size \in ArenaSizes /\ arena_size \in Nat /\ t \in Writers
      /\ C.high_water_mark >= WORKSPACE /\ C.high_water_mark <= arena_size
      /\ C \in Page /\ W \in Page /\ Good(C, mem, loc) /\ Filled(C, mem, loc)
  BY <1>1, Inside DEF Holding, Storage, Roles, WriterPCs
<1>3. C' = W /\ pc'[t] = to
  BY <1>1, Flipping DEF TypeOK
<1>4. /\ Good(W, mem, loc) /\ Filled(W, mem, loc)
      /\ W.high_water_mark >= WORKSPACE /\ W.high_water_mark <= arena_size
  <2>1. CASE from = "evict_flip"
    <3>1. ~Empty(C) /\ W = remove_head(C)
      BY <1>1, <2>1 DEF Storage, AtEvict
    <3>2. /\ Good(W, mem, loc) /\ Live(W) \subseteq Live(C)
          /\ W.high_water_mark <= C.high_water_mark /\ W.high_water_mark >= WORKSPACE
      BY <1>2, <3>1, RemoveHeadGood
    <3>3. W.high_water_mark \in Nat /\ C.high_water_mark \in Nat
      BY <1>2 DEF Page
    <3> QED BY <1>2, <3>2, <3>3 DEF Filled
  <2>2. CASE from = "filled"
    BY <1>1, <2>2 DEF Storage, AtFill
  <2>3. CASE from = "flip"
    <3>1. W = cleared(C)
      BY <1>1, <2>3 DEF Storage, AtRest
    <3>2. /\ W.seq_low = C.seq_high + 1 /\ W.seq_high = C.seq_high
          /\ W.off_head = 0 /\ W.off_tail = 0 /\ W.high_water_mark = WORKSPACE
      BY <3>1 DEF cleared
    <3>3. C.seq_high \in Nat /\ C.seq_high <= MaxSeq /\ C.high_water_mark \in Nat
      BY <1>2 DEF Page, Good, Shape
    <3>4. Empty(W) /\ Live(W) = {}
      BY <3>2, <3>3 DEF Empty, Live
    <3>5. Good(W, mem, loc) /\ Filled(W, mem, loc)
      BY <3>2, <3>3, <3>4
         DEF Good, Shape, Anchored, Placed, Chained, Apart, Cyclic, Topped, Filled
    <3> QED BY <1>2, <3>2, <3>3, <3>5, Workspace
  <2> QED BY <2>1, <2>2, <2>3
<1>5. Good(C, mem, loc)' /\ Filled(C, mem, loc)'
  BY <1>1, <1>3, <1>4
     DEF Good, Shape, Anchored, Placed, Chained, Apart, Cyclic, Topped, Filled, Empty, Live, End
<1>6. AtEvict(t)'
  <2>1. CASE to = "evict_copy"
    <3>1. /\ SlotFits(slot[t]) /\ SlotBehindTail(slot[t]) /\ C.seq_high < MaxSeq
          /\ ~Empty(C) /\ W = remove_head(C)
      BY <1>1, <2>1 DEF Storage, AtEvict
    <3>2. W.seq_high = C.seq_high /\ (~Empty(W) => W.off_tail = C.off_tail)
      BY <1>2, <3>1, RemoveHeadGood
    <3>3. SlotFits(slot[t])'
      BY <1>1, <3>1 DEF SlotFits
    <3>4. SlotBehindTail(slot[t])'
      BY <1>1, <1>3, <3>1, <3>2 DEF SlotBehindTail, Empty, End
    <3> QED BY <1>3, <2>1, <3>1, <3>2, <3>3, <3>4 DEF AtEvict
  <2>2. CASE to = "copy"
    BY <1>3, <2>2 DEF AtEvict
  <2> QED BY <2>1, <2>2
<1>7. AtLink(t)' /\ AtFill(t)' /\ AtRest(t)'
  BY <1>3 DEF AtLink, AtFill, AtRest
<1> QED BY <1>1, <1>2, <1>3, <1>4, <1>5, <1>6, <1>7, OwnerStorage DEF WriterPCs

(* Copying the committed page over the other one, and waking the waiters. *)
LEMMA CopyStorage ==
  ASSUME TypeOK, OwnerIsInside, Storage, NEW t \in Threads, NEW from, NEW to,
         CommitCopy(t, from, to),
         \/ from = "evict_copy" /\ to = "evict"
         \/ from = "copy" /\ to = "cs"
  PROVE  Storage'
PROOF
<1>1. /\ pc[t] = from /\ pc' = Broadcast([pc EXCEPT ![t] = to])
      /\ UNCHANGED <<initialized, arena_size, committed_page_idx, mem, loc, slot>>
      /\ SetWorking(C)
  BY DEF CommitCopy, ResetWorking
<1>2. /\ arena_size \in ArenaSizes /\ t \in Writers
      /\ C.high_water_mark >= WORKSPACE /\ C.high_water_mark <= arena_size
      /\ C \in Page /\ Good(C, mem, loc) /\ Filled(C, mem, loc)
  BY <1>1, Inside DEF Holding, Storage, Roles, WriterPCs
<1>3. C' = C /\ W' = C /\ pc'[t] = to
  BY <1>1, <1>2, SettingWorking DEF TypeOK, Broadcast
<1>4. Good(C, mem, loc)' /\ Filled(C, mem, loc)'
  BY <1>1, <1>2, <1>3, SameStorage
<1>5. AtEvict(t)'
  <2>1. CASE from = "evict_copy"
    <3>1. SlotFits(slot[t]) /\ SlotBehindTail(slot[t]) /\ C.seq_high < MaxSeq
      BY <1>1, <2>1 DEF Storage, AtEvict
    <3>2. SlotFits(slot[t])' /\ SlotBehindTail(slot[t])'
      BY <1>1, <1>3, <3>1 DEF SlotFits, SlotBehindTail, Empty, End
    <3> QED BY <1>3, <2>1, <3>1, <3>2 DEF AtEvict
  <2>2. CASE from = "copy"
    BY <1>3, <2>2 DEF AtEvict
  <2> QED BY <2>1, <2>2
<1>6. AtLink(t)' /\ AtFill(t)' /\ AtRest(t)'
  BY <1>3 DEF AtLink, AtFill, AtRest
<1> QED BY <1>1, <1>2, <1>3, <1>4, <1>5, <1>6, OwnerStorage DEF WriterPCs

(* Writing the header of the new frame touches no committed frame. *)
LEMMA SlotInitKeeps ==
  ASSUME TypeOK, OwnerIsInside, Storage, NEW t \in Threads, SlotInit(t)
  PROVE  /\ C' = C /\ W' = slot_init(C)
         /\ \A s \in Live(C) : /\ loc'[s] = loc[s] /\ loc[s] \in Offs /\ loc[s] # slot[t].off
                               /\ mem'[loc[s]] = mem[loc[s]]
PROOF
<1> DEFINE sl == slot[t]
           n  == C.seq_high + 1
           m  == Overwrite(mem, sl.off, HDR_SIZE)
<1>1. /\ pc[t] = "evict" /\ pc' = [pc EXCEPT ![t] = "link"]
      /\ UNCHANGED <<initialized, arena_size, committed_page_idx, slot>>
      /\ ~slot_evicts(W, sl.off, HDR_SIZE + sl.size)
      /\ mem' = [m EXCEPT ![sl.off] = new_frame(W, sl)]
      /\ SetWorking(slot_init(W))
      /\ loc' = [loc EXCEPT ![W.seq_high + 1] = sl.off]
  BY DEF SlotInit, Go
<1>2. /\ arena_size \in ArenaSizes /\ t \in Writers
      /\ C.high_water_mark >= WORKSPACE /\ C.high_water_mark <= arena_size
      /\ C \in Page /\ Good(C, mem, loc) /\ Filled(C, mem, loc)
      /\ mem \in [Offs -> Frame] /\ loc \in [Seqs -> Nat]
  BY <1>1, Inside DEF Holding, Storage, Roles, WriterPCs
<1>3. W = C /\ SlotFits(sl) /\ SlotBehindTail(sl) /\ C.seq_high < MaxSeq
  BY <1>1 DEF Storage, AtEvict
<1>4. SlotFree(sl)
  BY <1>1, <1>2, <1>3, SlotIsFree
<1>5. sl.off \in Offs /\ sl.off \in Nat /\ sl.size \in Nat /\ HDR_SIZE \in Nat
  BY <1>3, OffsetFacts, ConstantsAssumption DEF SlotFits, HDR_SIZE
<1>6. C.seq_low \in Nat /\ C.seq_high \in Nat /\ n \in Seqs
  BY <1>2, <1>3, ConstantsAssumption DEF Page, Seqs
<1>7. C' = C /\ W' = slot_init(C) /\ pc'[t] = "link"
  <2>1. slot_init(C) \in Page
    BY <1>2, <1>6 DEF slot_init, Page
  <2> QED BY <1>1, <1>3, <2>1, SettingWorking DEF TypeOK
<1>8. \A s \in Live(C) : /\ loc'[s] = loc[s] /\ loc[s] \in Offs /\ loc[s] # sl.off
                         /\ mem'[loc[s]] = mem[loc[s]]
  <2> SUFFICES ASSUME NEW s \in Live(C)
               PROVE  /\ loc'[s] = loc[s] /\ loc[s] \in Offs /\ loc[s] # sl.off
                      /\ mem'[loc[s]] = mem[loc[s]]
    OBVIOUS
  <2>1. /\ s \in Nat /\ s <= C.seq_high /\ loc[s] \in Offs /\ loc[s] \in Nat
        /\ End(mem, loc[s]) \in Nat /\ loc[s] + HDR_SIZE <= End(mem, loc[s])
    BY <1>2, Positions
  <2>2. End(mem, loc[s]) <= sl.off \/ sl.off + HDR_SIZE + sl.size <= loc[s]
    BY <1>4 DEF SlotFree
  <2>3. loc[s] # sl.off /\ (End(mem, loc[s]) <= sl.off \/ sl.off + HDR_SIZE <= loc[s])
    BY <1>5, <2>1, <2>2 DEF HDR_SIZE
  <2>4. m[loc[s]] = mem[loc[s]]
    BY <1>5, <2>1, <2>3, OverwriteKeeps
  <2>5. m \in [Offs -> Frame]
    BY <1>5, OverwriteType
  <2>6. mem'[loc[s]] = mem[loc[s]]
    <3> HIDE DEF m
    <3> QED BY <1>1, <2>1, <2>3, <2>4, <2>5
  <2>7. loc'[s] = loc[s]
    BY <1>1, <1>2, <1>3, <1>6, <2>1
  <2> QED BY <2>1, <2>3, <2>6, <2>7
<1> QED BY <1>7, <1>8

(* Writing the header of the new frame keeps the invariant. *)
LEMMA SlotInitStorage ==
  ASSUME TypeOK, OwnerIsInside, Storage, NEW t \in Threads, SlotInit(t)
  PROVE  Storage'
PROOF
<1> DEFINE sl == slot[t]
           n  == C.seq_high + 1
           m  == Overwrite(mem, sl.off, HDR_SIZE)
<1>1. /\ pc[t] = "evict" /\ pc' = [pc EXCEPT ![t] = "link"]
      /\ UNCHANGED <<initialized, arena_size, committed_page_idx, slot>>
      /\ ~slot_evicts(W, sl.off, HDR_SIZE + sl.size)
      /\ mem' = [m EXCEPT ![sl.off] = new_frame(W, sl)]
      /\ SetWorking(slot_init(W))
      /\ loc' = [loc EXCEPT ![W.seq_high + 1] = sl.off]
  BY DEF SlotInit, Go
<1>2. /\ arena_size \in ArenaSizes /\ t \in Writers
      /\ C.high_water_mark >= WORKSPACE /\ C.high_water_mark <= arena_size
      /\ C \in Page /\ Good(C, mem, loc) /\ Filled(C, mem, loc)
      /\ mem \in [Offs -> Frame] /\ loc \in [Seqs -> Nat]
  BY <1>1, Inside DEF Holding, Storage, Roles, WriterPCs
<1>3. W = C /\ SlotFits(sl) /\ SlotBehindTail(sl) /\ C.seq_high < MaxSeq
  BY <1>1 DEF Storage, AtEvict
<1>4. SlotFree(sl)
  BY <1>1, <1>2, <1>3, SlotIsFree
<1>5. sl.off \in Offs /\ sl.off \in Nat /\ sl.size \in Nat /\ HDR_SIZE \in Nat
  BY <1>3, OffsetFacts, ConstantsAssumption DEF SlotFits, HDR_SIZE
<1>6. C.seq_low \in Nat /\ C.seq_high \in Nat /\ n \in Seqs
  BY <1>2, <1>3, ConstantsAssumption DEF Page, Seqs
<1>7. C' = C /\ W' = slot_init(C) /\ pc'[t] = "link"
  <2>1. slot_init(C) \in Page
    BY <1>2, <1>6 DEF slot_init, Page
  <2> QED BY <1>1, <1>3, <2>1, SettingWorking DEF TypeOK
<1>8. \A s \in Live(C) : /\ loc'[s] = loc[s] /\ loc[s] \in Offs /\ loc[s] # sl.off
                         /\ mem'[loc[s]] = mem[loc[s]]
  BY SlotInitKeeps
<1>9. mem'[sl.off] = new_frame(C, sl) /\ loc'[n] = sl.off
  <2>1. m \in [Offs -> Frame]
    BY <1>5, OverwriteType
  <2> HIDE DEF m
  <2> QED BY <1>1, <1>2, <1>3, <1>5, <1>6, <2>1
<1>10. Good(C, mem', loc') /\ Filled(C, mem', loc')
  <2>1. Good(C, mem', loc')
    BY <1>2, <1>8, GoodStable
  <2>2. Filled(C, mem', loc')
    BY <1>2, <1>8 DEF Filled
  <2> QED BY <2>1, <2>2
<1>11. Good(C, mem, loc)' /\ Filled(C, mem, loc)'
  BY <1>7, <1>10
     DEF Good, Shape, Anchored, Placed, Chained, Apart, Cyclic, Topped, Filled, Empty, Live, End
<1>12. SlotFits(sl)' /\ SlotFree(sl)'
  <2>1. Live(C)' = Live(C)
    BY <1>7 DEF Live, Empty
  <2>2. SlotFits(sl)'
    BY <1>1, <1>3 DEF SlotFits
  <2>3. SlotFree(sl)'
    BY <1>1, <1>4, <1>8, <2>1 DEF SlotFree, End
  <2> QED BY <2>2, <2>3
<1>13. AtLink(t)'
  BY <1>1, <1>3, <1>7, <1>9, <1>12 DEF AtLink, new_frame, slot_init
<1>14. AtEvict(t)' /\ AtFill(t)' /\ AtRest(t)'
  BY <1>7 DEF AtEvict, AtFill, AtRest
<1> HIDE DEF m, n, sl
<1> QED BY <1>1, <1>2, <1>7, <1>11, <1>13, <1>14, OwnerStorage DEF WriterPCs

(* Linking the new frame behind the tail. *)
LEMMA LinkStorage ==
  ASSUME TypeOK, OwnerIsInside, Storage, NEW t \in Threads, LinkFrame(t)
  PROVE  Storage'
PROOF
<1> DEFINE sl == slot[t]
           p  == linked_page(W, sl.off)
           m  == linked_mem(W, sl.off)
<1>1. /\ pc[t] = "link" /\ pc' = [pc EXCEPT ![t] = "fill"]
      /\ UNCHANGED <<initialized, arena_size, committed_page_idx, loc, slot>>
      /\ SetWorking(p) /\ mem' = m
  BY DEF LinkFrame, Go
<1>2. /\ arena_size \in ArenaSizes /\ t \in Writers
      /\ C.high_water_mark >= WORKSPACE /\ C.high_water_mark <= arena_size
      /\ C \in Page /\ Good(C, mem, loc) /\ Filled(C, mem, loc)
  BY <1>1, Inside DEF Holding, Storage, Roles, WriterPCs
<1>3. /\ SlotFits(sl) /\ SlotFree(sl) /\ C.seq_high < MaxSeq /\ W = slot_init(C)
      /\ mem[sl.off] = new_frame(C, sl) /\ loc[C.seq_high + 1] = sl.off
  BY <1>1 DEF Storage, AtLink
<1>4. /\ p \in Page /\ Good(p, m, loc) /\ Good(C, m, loc)
      /\ p.seq_high = C.seq_high + 1
      /\ p.high_water_mark <= arena_size /\ p.high_water_mark >= WORKSPACE
      /\ \A s \in Live(C) : m[loc[s]].data = mem[loc[s]].data
      /\ \A s : s \in Live(p) <=> s \in Live(C) \/ s = C.seq_high + 1
      /\ m[sl.off].data_size = sl.size
  BY <1>2, <1>3, LinkGood
<1> HIDE DEF p, m
<1>5. C' = C /\ W' = p /\ pc'[t] = "fill"
  BY <1>1, <1>4, SettingWorking DEF TypeOK
<1>6. /\ Good(C, mem, loc)' /\ Filled(C, mem, loc)' /\ Good(W, mem, loc)'
      /\ Live(C)' = Live(C) /\ Live(W)' = Live(p)
  <2>1. Filled(C, m, loc)
    BY <1>2, <1>4 DEF Filled
  <2> QED BY <1>1, <1>4, <1>5, <2>1
     DEF Good, Shape, Anchored, Placed, Chained, Apart, Cyclic, Topped, Filled, Empty, Live, End
<1>7. \A s \in Live(C) : s <= C.seq_high /\ m[loc[s]].data \in Data
  BY <1>2, <1>4 DEF Filled, Live
<1>8. C.seq_high \in Nat /\ \A s \in Live(C) : s \in Nat
  BY <1>2, Positions
<1>9. AtFill(t)'
  <2>1. SlotFits(sl)'
    BY <1>1, <1>3 DEF SlotFits
  <2>2. \A s \in Live(p) : s < p.seq_high => m[loc[s]].data \in Data
    BY <1>4, <1>7, <1>8
  <2>3. p.seq_high \notin Live(C) /\ Live(p) = Live(C) \cup {p.seq_high}
    BY <1>4, <1>7, <1>8
  <2> QED BY <1>1, <1>3, <1>4, <1>5, <1>6, <2>1, <2>2, <2>3 DEF AtFill
<1>10. AtEvict(t)' /\ AtLink(t)' /\ AtRest(t)'
  BY <1>5 DEF AtEvict, AtLink, AtRest
<1> HIDE DEF sl
<1> QED BY <1>1, <1>2, <1>5, <1>6, <1>9, <1>10, OwnerStorage DEF WriterPCs

(* Writing the payload touches no other frame. *)
LEMMA FillKeeps ==
  ASSUME TypeOK, OwnerIsInside, Storage, NEW t \in Threads, FillFrame(t)
  PROVE  \A s \in Live(W) : s # W.seq_high => loc[s] # slot[t].off /\ mem'[loc[s]] = mem[loc[s]]
PROOF
<1> DEFINE o == slot[t].off
           size == slot[t].size
           m == Overwrite(mem, o + HDR_SIZE, size)
<1>1. /\ pc[t] = "fill" /\ pc' = [pc EXCEPT ![t] = "filled"]
      /\ UNCHANGED <<initialized, arena_size, pages, committed_page_idx, loc>>
  BY DEF FillFrame, Go
<1>2. PICK d \in Data : mem' = [m EXCEPT ![o].data = d]
  BY DEF FillFrame
<1>3. /\ arena_size \in ArenaSizes /\ arena_size \in Nat /\ t \in Writers
      /\ C.high_water_mark >= WORKSPACE /\ C.high_water_mark <= arena_size
      /\ C \in Page /\ W \in Page /\ Good(C, mem, loc) /\ Filled(C, mem, loc)
      /\ mem \in [Offs -> Frame] /\ loc \in [Seqs -> Nat]
  BY <1>1, Inside DEF Holding, Storage, Roles, WriterPCs
<1>4. /\ Good(W, mem, loc) /\ W.seq_high = C.seq_high + 1
      /\ W.high_water_mark <= arena_size /\ W.high_water_mark >= WORKSPACE
      /\ SlotFits(slot[t]) /\ o = loc[W.seq_high] /\ mem[o].data_size = size
      /\ \A s \in Live(W) : s < W.seq_high => mem[loc[s]].data \in Data
      /\ W.seq_high \notin Live(C) /\ Live(W) = Live(C) \cup {W.seq_high}
  BY <1>1 DEF Storage, AtFill
<1>5. o \in Offs /\ o \in Nat /\ size \in Nat /\ o + HDR_SIZE \in Nat
  <2>1. o \in Offs /\ size \in Sizes
    BY <1>4 DEF SlotFits
  <2> HIDE DEF o, size
  <2> QED BY <2>1, OffsetFacts, ConstantsAssumption DEF HDR_SIZE
<1>6. m \in [Offs -> Frame]
  BY <1>5, OverwriteType
<1>7. /\ \A s \in Live(W) : /\ s \in Nat /\ s <= W.seq_high /\ loc[s] \in Offs /\ loc[s] \in Nat
                            /\ End(mem, loc[s]) \in Nat /\ loc[s] + HDR_SIZE <= End(mem, loc[s])
      /\ W.seq_high \in Nat
  BY <1>3, <1>4, Positions
<1>8. \A s \in Live(W) : s # W.seq_high => loc[s] # o /\ mem'[loc[s]] = mem[loc[s]]
  <2> SUFFICES ASSUME NEW s \in Live(W), s # W.seq_high
               PROVE  loc[s] # o /\ mem'[loc[s]] = mem[loc[s]]
    OBVIOUS
  <2>1. End(mem, loc[s]) <= o \/ End(mem, o) <= loc[s]
    BY <1>4, <1>7 DEF Good, Apart
  <2>2. End(mem, o) = o + HDR_SIZE + size
    BY <1>4 DEF End
  <2>3. loc[s] # o
    BY <1>4, <1>5, <1>7, <2>1 DEF HDR_SIZE
  <2>4. End(mem, loc[s]) <= o + HDR_SIZE \/ o + HDR_SIZE + size <= loc[s]
    BY <1>5, <1>7, <2>1, <2>2 DEF HDR_SIZE
  <2>5. m[loc[s]] = mem[loc[s]]
    BY <1>5, <1>7, <2>4, OverwriteKeeps
  <2> HIDE DEF m, o
  <2> QED BY <1>2, <1>5, <1>6, <1>7, <2>3, <2>5
<1> QED BY <1>8

(* Writing the payload keeps the invariant. *)
LEMMA FillStorage ==
  ASSUME TypeOK, OwnerIsInside, Storage, NEW t \in Threads, FillFrame(t)
  PROVE  Storage'
PROOF
<1> DEFINE o == slot[t].off
           size == slot[t].size
           m == Overwrite(mem, o + HDR_SIZE, size)
<1>1. /\ pc[t] = "fill" /\ pc' = [pc EXCEPT ![t] = "filled"]
      /\ UNCHANGED <<initialized, arena_size, pages, committed_page_idx, loc>>
  BY DEF FillFrame, Go
<1>2. PICK d \in Data : mem' = [m EXCEPT ![o].data = d]
  BY DEF FillFrame
<1>3. /\ arena_size \in ArenaSizes /\ arena_size \in Nat /\ t \in Writers
      /\ C.high_water_mark >= WORKSPACE /\ C.high_water_mark <= arena_size
      /\ C \in Page /\ W \in Page /\ Good(C, mem, loc) /\ Filled(C, mem, loc)
      /\ mem \in [Offs -> Frame] /\ loc \in [Seqs -> Nat]
  BY <1>1, Inside DEF Holding, Storage, Roles, WriterPCs
<1>4. /\ Good(W, mem, loc) /\ W.seq_high = C.seq_high + 1
      /\ W.high_water_mark <= arena_size /\ W.high_water_mark >= WORKSPACE
      /\ SlotFits(slot[t]) /\ o = loc[W.seq_high] /\ mem[o].data_size = size
      /\ \A s \in Live(W) : s < W.seq_high => mem[loc[s]].data \in Data
      /\ W.seq_high \notin Live(C) /\ Live(W) = Live(C) \cup {W.seq_high}
  BY <1>1 DEF Storage, AtFill
<1>5. o \in Offs /\ o \in Nat /\ size \in Nat /\ o + HDR_SIZE \in Nat
  <2>1. o \in Offs /\ size \in Sizes
    BY <1>4 DEF SlotFits
  <2> HIDE DEF o, size
  <2> QED BY <2>1, OffsetFacts, ConstantsAssumption DEF HDR_SIZE
<1>6. m \in [Offs -> Frame]
  BY <1>5, OverwriteType
<1>7. /\ \A s \in Live(W) : /\ s \in Nat /\ s <= W.seq_high /\ loc[s] \in Offs /\ loc[s] \in Nat
                            /\ End(mem, loc[s]) \in Nat /\ loc[s] + HDR_SIZE <= End(mem, loc[s])
      /\ W.seq_high \in Nat
  BY <1>3, <1>4, Positions
\* The other frames are as they were.
<1>8. \A s \in Live(W) : s # W.seq_high => loc[s] # o /\ mem'[loc[s]] = mem[loc[s]]
  BY FillKeeps
\* The frame itself keeps its header and gets its payload.
<1>9. /\ mem'[o].seq = mem[o].seq /\ mem'[o].off = mem[o].off
      /\ mem'[o].data_size = mem[o].data_size /\ mem'[o].prev_off = mem[o].prev_off
      /\ mem'[o].next_off = mem[o].next_off /\ mem'[o].data = d
  <2>1. /\ m[o].seq = mem[o].seq /\ m[o].off = mem[o].off /\ m[o].data_size = mem[o].data_size
        /\ m[o].next_off = mem[o].next_off /\ m[o].prev_off = mem[o].prev_off
    BY <1>5, OverwritePayload
  <2>2. m[o] \in Frame
    BY <1>5, <1>6
  <2> HIDE DEF m, o
  <2>3. mem'[o] = [m[o] EXCEPT !.data = d]
    BY <1>2, <1>5, <1>6
  <2> QED BY <2>1, <2>2, <2>3 DEF Frame
<1>10. \A s \in Live(W) : /\ mem'[loc[s]].seq = mem[loc[s]].seq
                          /\ mem'[loc[s]].off = mem[loc[s]].off
                          /\ mem'[loc[s]].data_size = mem[loc[s]].data_size
                          /\ mem'[loc[s]].prev_off = mem[loc[s]].prev_off
                          /\ mem'[loc[s]].next_off = mem[loc[s]].next_off
                          /\ mem'[loc[s]].data \in Data
  <2> SUFFICES ASSUME NEW s \in Live(W)
               PROVE  /\ mem'[loc[s]].seq = mem[loc[s]].seq
                      /\ mem'[loc[s]].off = mem[loc[s]].off
                      /\ mem'[loc[s]].data_size = mem[loc[s]].data_size
                      /\ mem'[loc[s]].prev_off = mem[loc[s]].prev_off
                      /\ mem'[loc[s]].next_off = mem[loc[s]].next_off
                      /\ mem'[loc[s]].data \in Data
    OBVIOUS
  <2>1. CASE s = W.seq_high
    <3> HIDE DEF o
    <3> QED BY <1>4, <1>9, <2>1
  <2>2. CASE s # W.seq_high
    BY <1>4, <1>7, <1>8, <2>2
  <2> QED BY <2>1, <2>2
<1>11. Good(C, mem', loc) /\ Good(W, mem', loc) /\ Filled(C, mem', loc) /\ Filled(W, mem', loc)
  <2>1. Good(W, mem', loc)
    BY <1>3, <1>4, <1>10, GoodStable
  <2>2. Good(C, mem', loc)
    <3>1. \A s \in Live(C) : s \in Live(W)
      BY <1>4
    <3> QED BY <1>3, <1>10, <3>1, GoodStable
  <2>3. Filled(C, mem', loc) /\ Filled(W, mem', loc)
    BY <1>4, <1>10 DEF Filled
  <2> QED BY <2>1, <2>2, <2>3
<1>12. C' = C /\ W' = W /\ pc'[t] = "filled"
  BY <1>1 DEF C, W, TypeOK
<1>13. Good(C, mem, loc)' /\ Filled(C, mem, loc)' /\ Good(W, mem, loc)' /\ Filled(W, mem, loc)'
  BY <1>1, <1>11, <1>12
     DEF Good, Shape, Anchored, Placed, Chained, Apart, Cyclic, Topped, Filled, Empty, Live, End
<1>14. AtEvict(t)' /\ AtLink(t)' /\ AtFill(t)' /\ AtRest(t)'
  BY <1>1, <1>4, <1>12, <1>13 DEF AtEvict, AtLink, AtFill, AtRest
<1> QED BY <1>1, <1>3, <1>12, <1>13, <1>14, OwnerStorage DEF WriterPCs

(* Clearing prepares an empty working page; resizing keeps every frame inside. *)
LEMMA ClearStorage ==
  ASSUME TypeOK, OwnerIsInside, Storage, NEW t \in Threads,
         a0_transport_clear(t) \/ a0_transport_resize(t)
  PROVE  Storage'
PROOF
<1>1. /\ pc[t] = "cs" /\ t \in Writers
      /\ UNCHANGED <<initialized, committed_page_idx, mem, loc, slot>>
  BY DEF a0_transport_clear, a0_transport_resize, Go, local
<1>2. /\ arena_size \in ArenaSizes
      /\ C.high_water_mark >= WORKSPACE /\ C.high_water_mark <= arena_size
      /\ C \in Page /\ Good(C, mem, loc) /\ Filled(C, mem, loc) /\ W = C
  BY <1>1, Inside DEF Holding, Storage, AtRest
<1>3. ASSUME a0_transport_clear(t) PROVE Storage'
  <2>1. pc' = [pc EXCEPT ![t] = "flip"] /\ UNCHANGED arena_size /\ SetWorking(cleared(C))
    BY <1>2, <1>3 DEF a0_transport_clear, Go
  <2>2. cleared(C) \in Page
    BY <1>2, Workspace DEF cleared, Page
  <2>3. C' = C /\ W' = cleared(C) /\ pc'[t] = "flip"
    BY <1>1, <2>1, <2>2, SettingWorking DEF TypeOK
  <2>4. Good(C, mem, loc)' /\ Filled(C, mem, loc)'
    BY <1>1, <1>2, <2>3, SameStorage
  <2>5. AtEvict(t)' /\ AtLink(t)' /\ AtFill(t)' /\ AtRest(t)'
    BY <2>3 DEF AtEvict, AtLink, AtFill, AtRest, cleared
  <2> QED BY <1>1, <1>2, <2>1, <2>3, <2>4, <2>5, OwnerStorage DEF WriterPCs
<1>4. ASSUME a0_transport_resize(t) PROVE Storage'
  <2>1. /\ arena_size' \in ArenaSizes /\ arena_size' >= C.high_water_mark
        /\ UNCHANGED <<pc, pages>>
    BY <1>2, <1>4 DEF a0_transport_resize, local
  <2>2. C' = C /\ W' = C /\ pc'[t] = "cs" /\ pc' = [pc EXCEPT ![t] = "cs"]
    BY <1>1, <1>2, <2>1 DEF C, W, TypeOK
  <2>3. Good(C, mem, loc)' /\ Filled(C, mem, loc)'
    BY <1>1, <1>2, <2>2, SameStorage
  <2>4. AtEvict(t)' /\ AtLink(t)' /\ AtFill(t)' /\ AtRest(t)'
    BY <2>2 DEF AtEvict, AtLink, AtFill, AtRest
  <2>5. arena_size' \in Nat /\ C.high_water_mark \in Nat
    BY <1>2, <2>1, ConstantsAssumption DEF Page
  <2> QED BY <1>1, <1>2, <2>1, <2>2, <2>3, <2>4, <2>5, OwnerStorage DEF WriterPCs
<1> QED BY <1>3, <1>4

(* Every step of every thread preserves the storage invariant. *)
LEMMA StorageStep ==
  ASSUME TypeOK, OwnerIsInside, InitAlone, Storage, [Next]_vars
  PROVE  Storage'
PROOF
<1> USE DEF Go, local
<1>0. /\ pc \in [Threads -> PCs] /\ slot \in [Threads -> [off : Nat, size : Nat]]
      /\ Waiters \subseteq Readers /\ TimedWaiters \subseteq Readers
      /\ Writers \cap (Readers \cup Closers) = {}
  BY ConstantsAssumption DEF TypeOK
<1>1. UNCHANGED vars => Storage'
  BY StorageKept DEF vars
<1>2. \A t \in Threads : a0_transport_lock(t) \/ a0_transport_unlock(t) => Storage'
  BY LockStorage
<1>3. \A t \in Threads : Connecting(t) => Storage'
  BY ConnectStorage
<1>4. ASSUME NEW t \in Threads, EvictCommit(t) PROVE Storage'
  BY <1>4, FlipStorage, CopyStorage DEF EvictCommit
<1>5. ASSUME NEW t \in Threads, a0_transport_commit(t) PROVE Storage'
  BY <1>5, FlipStorage, CopyStorage DEF a0_transport_commit
<1>6. \A t \in Threads : Writing(t) => Storage'
  BY Zenon, <1>4, <1>5, AllocStorage, EvictStorage, SlotInitStorage, LinkStorage, FillStorage,
     ClearStorage DEF Writing
<1>7. ASSUME NEW t \in Threads, Reading(t) PROVE Storage'
  BY <1>7, ReadingMoves, StorageKept
<1>8. \A t \in Threads : pc[t] \notin {"dead", "init_fields", "init_done"} => initialized
  BY DEF Storage, Birth
<1>9. ASSUME NEW t \in Threads, a0_transport_timedwait(t) \/ Timeout(t) \/ WaitAgain(t)
      PROVE  Storage'
  <2>1. t \in Readers /\ t \notin Writers /\ initialized
    BY <1>0, <1>8, <1>9 DEF a0_transport_timedwait, Timeout, WaitAgain, Storage, Roles, Waiting
  <2>2. /\ UNCHANGED <<shared, slot>> /\ pc'[t] \in Waiting
        /\ \A u \in Threads : u # t => pc'[u] = pc[u]
    BY <1>0, <1>9 DEF a0_transport_timedwait, Timeout, WaitAgain, Waiting
  <2> QED BY <2>1, <2>2, StorageKept
<1>10. ASSUME NEW t \in Threads, WaitDone(t) PROVE Storage'
  <2>1. pc[t] \in Waiting /\ t \notin Writers /\ initialized
    BY <1>0, <1>8, <1>10 DEF WaitDone, WaitReturns, Storage, Roles, Waiting
  <2>2. UNCHANGED <<shared, slot>> /\ pc' = Broadcast([pc EXCEPT ![t] = "cs"])
    BY <1>10 DEF WaitDone
  <2>3. /\ pc'[t] = "cs"
        /\ \A u \in Threads : u # t => \/ pc'[u] = pc[u]
                                       \/ pc[u] = "sleep" /\ pc'[u] = "woken"
                                       \/ pc[u] = "sd_sleep" /\ pc'[u] = "sd_woken"
    BY <1>0, <2>2 DEF Broadcast
  <2>4. \A u \in Threads : /\ pc[u] = "sleep" => u \in Readers /\ u \notin Writers
                           /\ pc[u] = "sd_sleep" => u \in Closers /\ u \notin Writers
    BY <1>0 DEF Storage, Roles, Waiting
  <2> QED BY <2>1, <2>2, <2>3, <2>4, StorageKept DEF Waiting, SD
<1>11. ASSUME NEW t \in Threads, a0_transport_shutdown(t) PROVE Storage'
  <2>1. pc[t] = "cs" /\ t \in Closers /\ t \notin Writers /\ initialized
    BY <1>0, <1>8, <1>11 DEF a0_transport_shutdown
  <2>2. /\ UNCHANGED <<shared, slot>>
        /\ pc' = Broadcast(pc) \/ pc' = [Broadcast(pc) EXCEPT ![t] = "sd_sleep"]
    BY <1>11 DEF a0_transport_shutdown
  <2>3. /\ pc'[t] = "cs" \/ pc'[t] = "sd_sleep"
        /\ \A u \in Threads : u # t => \/ pc'[u] = pc[u]
                                       \/ pc[u] = "sleep" /\ pc'[u] = "woken"
                                       \/ pc[u] = "sd_sleep" /\ pc'[u] = "sd_woken"
    <3>1. /\ Broadcast(pc)[t] = "cs"
          /\ \A u \in Threads : u # t => \/ Broadcast(pc)[u] = pc[u]
                                         \/ pc[u] = "sleep" /\ Broadcast(pc)[u] = "woken"
                                         \/ pc[u] = "sd_sleep" /\ Broadcast(pc)[u] = "sd_woken"
      BY <2>1 DEF Broadcast
    <3>2. CASE pc' = Broadcast(pc)
      BY <3>1, <3>2
    <3>3. CASE pc' = [Broadcast(pc) EXCEPT ![t] = "sd_sleep"]
      <4>1. pc'[t] = "sd_sleep" /\ \A u \in Threads : u # t => pc'[u] = Broadcast(pc)[u]
        BY <3>3 DEF Broadcast
      <4> QED BY <3>1, <4>1
    <3> QED BY <2>2, <3>2, <3>3
  <2>4. \A u \in Threads : /\ pc[u] = "sleep" => u \in Readers /\ u \notin Writers
                           /\ pc[u] = "sd_sleep" => u \in Closers /\ u \notin Writers
    BY <1>0 DEF Storage, Roles, Waiting
  <2>5. \A u \in Threads : pc[u] \in {"sleep", "sd_sleep"} => initialized
    BY <2>1
  <2> QED BY <2>1, <2>2, <2>3, <2>4, <2>5, StorageKept DEF Waiting, SD
<1>12. ASSUME NEW t \in Threads, ShutdownWake(t) PROVE Storage'
  <2>1. t \in Closers /\ t \notin Writers /\ initialized
    BY <1>0, <1>8, <1>12 DEF ShutdownWake, Storage, Roles
  <2>2. /\ UNCHANGED <<shared, slot>> /\ pc'[t] \in {"cs", "sd_sleep"}
        /\ \A u \in Threads : u # t => pc'[u] = pc[u]
    BY <1>0, <1>12 DEF ShutdownWake
  <2> QED BY <2>1, <2>2, StorageKept DEF SD
<1>13. ASSUME NEW c \in Conns, Crash(c) PROVE Storage'
  BY <1>0, <1>13, StorageKept DEF Crash
<1> QED
  BY Zenon, <1>1, <1>2, <1>3, <1>6, <1>7, <1>9, <1>10, <1>11, <1>12, <1>13 DEF Next, Notifying

-----------------------------------------------------------------------------
(* The theorems. *)

(* A zeroed file satisfies the invariant. *)
LEMMA InitIInv == Init => IInv
PROOF
<1> SUFFICES ASSUME Init PROVE IInv
  OBVIOUS
<1>1. ZeroPage \in Page /\ ZeroFrame \in Frame
  BY DEF ZeroPage, Page, ZeroFrame, Frame
<1>2. TypeOK
  <2>1. mem \in [Offs -> Frame] /\ pages \in [0..1 -> Page] /\ committed_page_idx \in 0..1
    BY <1>1 DEF Init
  <2>2. pc \in [Threads -> PCs] /\ want \in [Threads -> Preds]
    BY DEF Init, PCs, Preds
  <2>3. slot \in [Threads -> [off : Nat, size : Nat]]
    BY DEF Init, NoSlot
  <2>4. /\ seq \in [Conns -> Nat] /\ off \in [Conns -> Nat]
        /\ wait_cnt \in [Conns -> Nat] /\ shutdown \in [Conns -> BOOLEAN]
        /\ loc \in [Seqs -> Nat] /\ crashes \in Nat
    BY DEF Init
  <2> QED BY <2>1, <2>2, <2>3, <2>4 DEF Init, TypeOK
<1>3. OwnerIsInside /\ InitAlone /\ ShutdownDrains
  BY ConstantsAssumption DEF Init, OwnerIsInside, Holding, InitAlone, ShutdownDrains
<1>4. WaitCounted
  <2>1. \A c \in Conns : WaitersOn(c) = {}
    BY DEF Init, WaitersOn, Waiting
  <2> QED BY <2>1, FS_EmptySet DEF WaitCounted, Init
<1>5. Storage
  <2>1. \A i \in 0..1 : pages[i] = ZeroPage
    BY DEF Init
  <2>2. C = ZeroPage
    BY <2>1 DEF Init, C
  <2>3. Empty(C) /\ Live(C) = {}
    BY <2>2 DEF Empty, Live, ZeroPage
  <2>4. Good(C, mem, loc) /\ Filled(C, mem, loc)
    BY <2>2, <2>3, ConstantsAssumption
       DEF Good, Shape, Anchored, Placed, Chained, Apart, Cyclic, Topped, Filled, ZeroPage
  <2>5. C.high_water_mark <= arena_size
    BY <2>2 DEF Init, ZeroPage
  <2>6. Birth
    BY <2>1 DEF Birth, Init, ZeroPage
  <2>7. \A t \in Threads : pc[t] = "dead"
    BY DEF Init
  <2>8. Roles /\ \A t \in Threads : AtEvict(t) /\ AtLink(t) /\ AtFill(t) /\ AtRest(t)
    BY <2>7 DEF Roles, WriterPCs, Waiting, AtEvict, AtLink, AtFill, AtRest
  <2> QED BY <2>4, <2>5, <2>6, <2>8 DEF Storage
<1> QED BY <1>2, <1>3, <1>4, <1>5 DEF IInv

(* Every step preserves the invariant. *)
LEMMA NextIInv == IInv /\ [Next]_vars => IInv'
PROOF
<1> SUFFICES ASSUME IInv, [Next]_vars PROVE IInv'
  OBVIOUS
<1>1. TypeOK /\ OwnerIsInside /\ Storage /\ InitAlone /\ WaitCounted /\ ShutdownDrains
  BY DEF IInv
<1>2. TypeOK'
  BY <1>1, TypeStep
<1>3. OwnerIsInside'
  BY <1>1, OwnerStep
<1>4. Storage'
  BY <1>1, StorageStep
<1>5. InitAlone'
  BY <1>1, AloneStep
<1>6. WaitCounted' /\ ShutdownDrains'
  BY <1>1, CountedStep DEF Counted
<1> QED BY <1>2, <1>3, <1>4, <1>5, <1>6 DEF IInv

(* The inductive invariant holds of every behaviour: the induction that the *)
(* other theorems rest on.                                                  *)
THEOREM Inductive == Spec => []IInv
  BY InitIInv, NextIInv, PTL DEF Spec

(* Every variable of the transport keeps its type: in particular _wait_cnt *)
(* never goes below zero.                                                  *)
THEOREM TypeCorrect == Spec => []TypeOK
PROOF
<1>1. IInv => TypeOK
  BY DEF IInv
<1> QED BY <1>1, Inductive, PTL

(* The mutex of the transport is held by exactly the thread that is inside *)
(* it, across waits, timeouts, shutdowns and deaths.                       *)
THEOREM MutualExclusion == Spec => []OwnerIsInside
PROOF
<1>1. IInv => OwnerIsInside
  BY DEF IInv
<1> QED BY <1>1, Inductive, PTL

(* After any number of operations and deaths the committed page describes a *)
(* complete doubly linked list of consecutive frames.                       *)
THEOREM AlwaysLinked == Spec => []CommittedLinked
PROOF
<1>1. IInv => CommittedLinked
  <2> SUFFICES ASSUME IInv PROVE Linked(C)
    BY DEF CommittedLinked
  <2>1. TypeOK /\ Good(C, mem, loc) /\ C \in Page
    BY Pages DEF IInv, Storage
  <2>2. \A s \in Live(C) : loc[s] \in Offs /\ Hdr(loc[s]) = mem[loc[s]] /\ s \in Nat
    BY <2>1, Positions DEF Hdr
  <2>3. \A s \in Live(C) : s < C.seq_high => s + 1 \in Live(C)
    BY <2>1, Positions
  <2>4. ~Empty(C) => loc[C.seq_low] = C.off_head /\ loc[C.seq_high] = C.off_tail
    BY <2>1 DEF Good, Anchored
  <2>5. Empty(C) => C.off_head = 0 /\ C.off_tail = 0
    BY <2>1 DEF Good, Shape
  <2>6. \A s \in Live(C) : Hdr(loc[s]).seq = s /\ Hdr(loc[s]).off = loc[s]
    BY <2>1, <2>2 DEF Good, Placed
  <2>7. \A s \in Live(C) : s < C.seq_high => /\ Hdr(loc[s]).next_off = loc[s + 1]
                                             /\ Hdr(loc[s + 1]).prev_off = loc[s]
    BY <2>1, <2>2, <2>3 DEF Good, Chained
  <2> QED BY <2>2, <2>4, <2>5, <2>6, <2>7 DEF Linked
<1> QED BY <1>1, Inductive, PTL

(* No two committed frames overlap and none of their payloads was written *)
(* over, whatever the sizes of the frames and of the arena.               *)
THEOREM AlwaysIntact == Spec => []CommittedIntact
PROOF
<1>1. IInv => CommittedIntact
  <2> SUFFICES ASSUME IInv PROVE CommittedIntact
    OBVIOUS
  <2>1. TypeOK /\ Good(C, mem, loc) /\ Filled(C, mem, loc) /\ C \in Page
    BY Pages DEF IInv, Storage
  <2>2. \A s \in Live(C) : /\ loc[s] \in Offs /\ loc[s] \in Nat /\ Hdr(loc[s]) = mem[loc[s]]
                           /\ loc[s] + (HDR_SIZE + Hdr(loc[s]).data_size) = End(mem, loc[s])
                           /\ End(mem, loc[s]) \in Nat
    BY <2>1, Positions DEF Hdr, End, HDR_SIZE
  <2>3. Disjoint(C)
    BY <2>1, <2>2 DEF Disjoint, Good, Apart, frame_intersects
  <2>4. \A s \in Live(C) : Hdr(loc[s]).data # Junk
    BY <2>1, <2>2, ConstantsAssumption DEF Filled
  <2> QED BY <2>3, <2>4 DEF CommittedIntact
<1> QED BY <1>1, Inductive, PTL

(* The high water mark is exactly the end of the highest live frame, and *)
(* inside the arena, after every eviction, wrap-around and resize.       *)
THEOREM HighWaterMark == Spec => []HighWaterMarkExact
PROOF
<1>1. IInv => HighWaterMarkExact
  <2> SUFFICES ASSUME IInv, initialized PROVE HighWaterMarkExact
    BY DEF HighWaterMarkExact
  <2>1. /\ TypeOK /\ Good(C, mem, loc) /\ C \in Page
        /\ C.high_water_mark <= arena_size /\ C.high_water_mark >= WORKSPACE
    BY Pages DEF IInv, Storage, Birth
  <2>2. \A s \in Live(C) : frame_end(loc[s]) = End(mem, loc[s])
    BY <2>1, Positions DEF Hdr, End, frame_end
  <2>3. Empty(C) => C.high_water_mark = WORKSPACE
    BY <2>1, Workspace DEF Good, Shape
  <2>4. \A s \in Live(C) : frame_end(loc[s]) <= C.high_water_mark
    BY <2>1, <2>2 DEF Good, Placed
  <2>5. ~Empty(C) => \E s \in Live(C) : frame_end(loc[s]) = C.high_water_mark
    BY <2>1, <2>2 DEF Good, Topped
  <2> QED BY <2>1, <2>3, <2>4, <2>5 DEF HighWaterMarkExact
<1> QED BY <1>1, Inductive, PTL

(* When a0_transport_shutdown has returned, no thread is left in a wait of *)
(* that connection, however many threads wait and shut down.               *)
THEOREM ShutdownIsFinal == Spec => []ShutdownDrains
PROOF
<1>1. IInv => ShutdownDrains
  BY DEF IInv
<1> QED BY <1>1, Inductive, PTL

-----------------------------------------------------------------------------
(* The log and the pointers.                                               *)
(*                                                                         *)
(* Both rest on the inductive invariant of TransportInv and on one fact:   *)
(* all that any step of any thread, death included, does to the committed  *)
(* frames is nothing, dropping the oldest, dropping them all, or adding    *)
(* one behind the last; and only the flip of committed_page_idx does any   *)
(* of the last three.                                                      *)

(* What a step may do to the committed frames. *)
FramesSame ==
  /\ C'.seq_high = C.seq_high /\ Live(C') = Live(C)
  /\ \A s \in Live(C) : loc'[s] = loc[s] /\ mem'[loc[s]].data = mem[loc[s]].data

FramesDrop ==
  /\ UNCHANGED <<mem, loc>>
  /\ C'.seq_high = C.seq_high
  /\ C.seq_low \in Live(C) /\ Live(C') = Live(C) \ {C.seq_low}

FramesClear ==
  /\ UNCHANGED <<mem, loc>>
  /\ C'.seq_high = C.seq_high /\ Live(C') = {}

FramesAppend ==
  /\ UNCHANGED <<mem, loc>>
  /\ C'.seq_high = C.seq_high + 1
  /\ C'.seq_high \notin Live(C) /\ Live(C') = Live(C) \cup {C'.seq_high}

(* The oldest frame is the one that an eviction takes. *)
LEMMA RemoveHeadLive ==
  ASSUME NEW p \in Page, Shape(p), ~Empty(p)
  PROVE  /\ p.seq_low \in Live(p)
         /\ Live(remove_head(p)) = Live(p) \ {p.seq_low}
         /\ remove_head(p).seq_high = p.seq_high
PROOF
<1> DEFINE q == remove_head(p)
<1>1. q.seq_low = p.seq_low + 1 /\ q.seq_high = p.seq_high
  BY DEF remove_head
<1>2. p.seq_low \in Nat /\ p.seq_high \in Nat /\ p.seq_low <= p.seq_high /\ p.seq_high # 0
  BY DEF Page, Empty
<1>3. p.seq_low \in Live(p)
  BY LiveFacts
<1> HIDE DEF q
<1>4. \A s : s \in Live(q) <=> s \in Seqs /\ p.seq_low + 1 <= s /\ s <= p.seq_high
  BY <1>1, <1>2, ConstantsAssumption DEF Live, Empty, Seqs
<1>5. \A s : s \in Live(p) <=> s \in Seqs /\ p.seq_low <= s /\ s <= p.seq_high
  BY <1>2 DEF Live, Empty
<1>6. Seqs \subseteq Nat
  BY ConstantsAssumption DEF Seqs
<1>7. \A s : s \in Live(q) <=> s \in Live(p) /\ s # p.seq_low
  <2>1. \A s \in Seqs : s \in Live(q) <=> s \in Live(p) /\ s # p.seq_low
    BY <1>2, <1>4, <1>5, <1>6
  <2> QED BY <2>1, <1>4, <1>5
<1> QED BY <1>1, <1>3, <1>7 DEF q

(* The flip is the only step that changes which frames are committed. *)
LEMMA FlipFrames ==
  ASSUME TypeOK, OwnerIsInside, Storage, NEW t \in Threads, NEW from, NEW to,
         CommitFlip(t, from, to), from \in {"evict_flip", "filled", "flip"}
  PROVE  FramesDrop \/ FramesClear \/ FramesAppend
PROOF
<1>1. pc[t] = from /\ UNCHANGED <<pages, mem, loc>> /\ committed_page_idx' = 1 - committed_page_idx
  BY DEF CommitFlip, Go
<1>2. C' = W
  BY <1>1, Flipping
<1>3. C \in Page /\ Shape(C)
  BY <1>1, Inside DEF Holding
<1>4. CASE from = "evict_flip"
  <2>1. ~Empty(C) /\ W = remove_head(C)
    BY <1>1, <1>4 DEF Storage, AtEvict
  <2> QED BY <1>1, <1>2, <1>3, <2>1, RemoveHeadLive DEF FramesDrop
<1>5. CASE from = "filled"
  <2>1. /\ W.seq_high = C.seq_high + 1
        /\ W.seq_high \notin Live(C) /\ Live(W) = Live(C) \cup {W.seq_high}
    BY <1>1, <1>5 DEF Storage, AtFill
  <2> QED BY <1>1, <1>2, <2>1 DEF FramesAppend
<1>6. CASE from = "flip"
  <2>1. W = cleared(C)
    BY <1>1, <1>6 DEF Storage, AtRest
  <2>2. W.seq_low = C.seq_high + 1 /\ W.seq_high = C.seq_high /\ C.seq_high \in Nat
    BY <1>3, <2>1 DEF cleared, Page
  <2>3. Live(W) = {}
    BY <2>2 DEF Live, Empty
  <2> QED BY <1>1, <1>2, <2>2, <2>3 DEF FramesClear
<1> QED BY <1>4, <1>5, <1>6

(* A step that leaves the committed page and the arena alone. *)
LEMMA SameFrames ==
  ASSUME C' = C, UNCHANGED <<mem, loc>>
  PROVE  FramesSame
  BY DEF FramesSame

(* The steps that write to the working page only. *)
LEMMA WorkingFrames ==
  ASSUME TypeOK, NEW p \in Page, SetWorking(p), UNCHANGED <<committed_page_idx, mem, loc>>
  PROVE  FramesSame
  BY SettingWorking, SameFrames

(* The birth of the arena: no frame yet, none after. *)
LEMMA BirthFrames ==
  ASSUME TypeOK, Storage, NEW t \in Threads, InitFields(t)
  PROVE  FramesSame
PROOF
<1>1. UNCHANGED <<committed_page_idx, mem, loc>>
  BY DEF InitFields
<1>2. CASE initialized
  BY <1>1, <1>2, SameFrames DEF InitFields, C
<1>3. CASE ~initialized
  <2>1. pages' = [i \in 0..1 |-> [pages[i] EXCEPT !.high_water_mark = WORKSPACE]]
    BY <1>3 DEF InitFields
  <2>2. C' = [C EXCEPT !.high_water_mark = WORKSPACE]
    BY <1>1, <2>1 DEF C, TypeOK
  <2>3. C.seq_high = 0 /\ C \in Page
    BY <1>3, Pages DEF Storage, Birth, C, TypeOK
  <2>4. C'.seq_high = 0
    BY <2>2, <2>3 DEF Page
  <2>5. Live(C) = {} /\ Live(C') = {}
    BY <2>3, <2>4 DEF Live, Empty
  <2> QED BY <2>3, <2>4, <2>5 DEF FramesSame
<1> QED BY <1>2, <1>3

(* The steps of an allocation up to its commit write where no committed *)
(* frame lies.                                                          *)
LEMMA AllocFrames ==
  ASSUME TypeOK, OwnerIsInside, Storage, NEW t \in Threads,
         SlotInit(t) \/ LinkFrame(t) \/ FillFrame(t)
  PROVE  FramesSame
PROOF
<1>1. CASE SlotInit(t)
  BY <1>1, SlotInitKeeps DEF FramesSame
<1>2. CASE LinkFrame(t)
  <2> DEFINE sl == slot[t]
             p  == linked_page(W, sl.off)
             m  == linked_mem(W, sl.off)
  <2>1. /\ pc[t] = "link" /\ UNCHANGED <<committed_page_idx, loc>>
        /\ SetWorking(p) /\ mem' = m
    BY <1>2 DEF LinkFrame, Go
  <2>2. /\ C.high_water_mark >= WORKSPACE /\ C.high_water_mark <= arena_size
        /\ Good(C, mem, loc)
    BY <2>1, Inside DEF Holding
  <2>3. /\ SlotFits(sl) /\ SlotFree(sl) /\ C.seq_high < MaxSeq /\ W = slot_init(C)
        /\ mem[sl.off] = new_frame(C, sl) /\ loc[C.seq_high + 1] = sl.off
    BY <2>1 DEF Storage, AtLink
  <2>4. p \in Page /\ \A s \in Live(C) : m[loc[s]].data = mem[loc[s]].data
    BY <2>2, <2>3, LinkGood
  <2> HIDE DEF p, m
  <2>5. C' = C
    BY <2>1, <2>4, SettingWorking
  <2> QED BY <2>1, <2>4, <2>5 DEF FramesSame
<1>3. CASE FillFrame(t)
  <2>1. pc[t] = "fill" /\ UNCHANGED <<pages, committed_page_idx, loc>>
    BY <1>3 DEF FillFrame, Go
  <2>2. C' = C
    BY <2>1 DEF C
  <2>3. W.seq_high \notin Live(C) /\ Live(W) = Live(C) \cup {W.seq_high}
    BY <2>1 DEF Storage, AtFill
  <2>4. \A s \in Live(C) : mem'[loc[s]] = mem[loc[s]]
    BY <1>3, <2>3, FillKeeps
  <2> QED BY <2>1, <2>2, <2>4 DEF FramesSame
<1> QED BY <1>1, <1>2, <1>3

(* Every step does one of the four things to the committed frames. *)
LEMMA FramesStep ==
  ASSUME TypeOK, OwnerIsInside, Storage, [Next]_vars
  PROVE  FramesSame \/ FramesDrop \/ FramesClear \/ FramesAppend
PROOF
<1> USE DEF Go, local
<1>0. C \in Page /\ W \in Page
  BY Pages
<1>1. ASSUME UNCHANGED shared PROVE FramesSame
  BY <1>1, SameFrames DEF shared, C
<1>2. ASSUME NEW t \in Threads, a0_transport_lock(t) \/ a0_transport_unlock(t) PROVE FramesSame
  BY <1>0, <1>2, WorkingFrames DEF a0_transport_lock, a0_transport_unlock, ResetWorking
<1>3. ASSUME NEW t \in Threads, Connecting(t) PROVE FramesSame
  <2>1. CASE a0_transport_init(t) \/ InitDone(t)
    BY <1>0, <2>1, WorkingFrames DEF a0_transport_init, InitDone, ResetWorking
  <2>2. CASE InitFields(t)
    BY <2>2, BirthFrames
  <2> QED BY <1>3, <2>1, <2>2 DEF Connecting
<1>4. ASSUME NEW t \in Threads, a0_transport_alloc(t) \/ a0_transport_resize(t) PROVE FramesSame
  BY <1>1, <1>4, SameFrames DEF a0_transport_alloc, a0_transport_resize, shared, C
<1>5. ASSUME NEW t \in Threads, EvictHead(t) PROVE FramesSame
  <2>1. /\ pc[t] = "evict" /\ ~Empty(W) /\ SetWorking(remove_head(W))
        /\ UNCHANGED <<committed_page_idx, mem, loc>>
    BY <1>5 DEF EvictHead, slot_evicts
  <2>2. W = C /\ Good(C, mem, loc)
    BY <2>1 DEF Storage, AtEvict
  <2> QED BY <1>0, <2>1, <2>2, RemoveHeadGood, WorkingFrames
<1>6. ASSUME NEW t \in Threads, NEW from, NEW to, CommitCopy(t, from, to) PROVE FramesSame
  BY <1>0, <1>6, WorkingFrames DEF CommitCopy, ResetWorking
<1>7. ASSUME NEW t \in Threads, EvictCommit(t) \/ a0_transport_commit(t)
      PROVE  FramesSame \/ FramesDrop \/ FramesClear \/ FramesAppend
  BY <1>6, <1>7, FlipFrames DEF EvictCommit, a0_transport_commit
<1>8. ASSUME NEW t \in Threads, SlotInit(t) \/ LinkFrame(t) \/ FillFrame(t) PROVE FramesSame
  BY <1>8, AllocFrames
<1>9. ASSUME NEW t \in Threads, a0_transport_clear(t) PROVE FramesSame
  <2>1. cleared(W) \in Page
    BY <1>0, Workspace DEF cleared, Page
  <2> QED BY <1>9, <2>1, WorkingFrames DEF a0_transport_clear
<1>10. ASSUME NEW t \in Threads, Reading(t) PROVE FramesSame
  BY <1>1, <1>10, ReadingMoves
<1>11. ASSUME NEW t \in Threads, Notifying(t) PROVE FramesSame
  <2>1. UNCHANGED shared
    BY <1>11, Zenon DEF Notifying, a0_transport_timedwait, Timeout, WaitDone, WaitAgain,
                        a0_transport_shutdown, ShutdownWake
  <2> QED BY <1>1, <2>1
<1>12. ASSUME NEW c \in Conns, Crash(c) PROVE FramesSame
  BY <1>1, <1>12 DEF Crash
<1>13. UNCHANGED vars => FramesSame
  BY <1>1 DEF vars
<1> QED
  BY Zenon, <1>2, <1>3, <1>4, <1>5, <1>7, <1>8, <1>9, <1>10, <1>11, <1>12, <1>13 DEF Next, Writing

-----------------------------------------------------------------------------
(* The log. *)

(* The frames the log shows. *)
Kept == [s \in Live(C) |-> Hdr(loc[s]).data]

(* The payload of a committed frame is read from the arena. *)
LEMMA KeptData ==
  ASSUME IInv
  PROVE  /\ Kept = [s \in Live(C) |-> mem[loc[s]].data]
         /\ \A s \in Live(C) : mem[loc[s]].data \in Data
PROOF
<1>1. TypeOK /\ Good(C, mem, loc) /\ Filled(C, mem, loc) /\ C \in Page
  BY Pages DEF IInv, Storage
<1>2. \A s \in Live(C) : loc[s] \in Offs
  BY <1>1, Positions
<1> QED BY <1>1, <1>2 DEF Kept, Hdr, Filled

(* A zeroed file is the empty log. *)
LEMMA LogInit == Init => Log!Init
PROOF
<1> SUFFICES ASSUME Init PROVE Log!Init
  OBVIOUS
<1>1. C = ZeroPage
  BY DEF Init, C
<1>2. C.seq_high = 0 /\ Live(C) = {}
  BY <1>1 DEF ZeroPage, Live, Empty
<1> QED BY <1>2 DEF Log!Init

(* Every step of the transport is a step of the log, or none. *)
LEMMA LogNext == IInv /\ IInv' /\ [Next]_vars => [Log!Next]_(Log!logvars)
PROOF
<1> SUFFICES ASSUME IInv, IInv', [Next]_vars
             PROVE  Log!Next \/ UNCHANGED Log!logvars
  OBVIOUS
<1> DEFINE K  == [s \in Live(C) |-> mem[loc[s]].data]
           K2 == [s \in Live(C') |-> mem'[loc'[s]].data]
<1>1. /\ Kept = K /\ Kept' = K2
      /\ \A s \in Live(C') : mem'[loc'[s]].data \in Data
  <2>1. (Kept = [s \in Live(C) |-> mem[loc[s]].data] /\ \A s \in Live(C) : mem[loc[s]].data \in Data)'
    BY KeptData, PTL
  <2> QED BY <2>1, KeptData DEF Live, Empty
<1>2. FramesSame \/ FramesDrop \/ FramesClear \/ FramesAppend
  BY FramesStep DEF IInv
<1>3. C.seq_high \in Nat /\ \A s \in Live(C) : s \in Nat /\ C.seq_low <= s
  BY Pages, Positions DEF IInv, Storage
<1>4. CASE FramesSame
  BY <1>1, <1>4 DEF FramesSame, Log!logvars, Kept
<1>5. CASE FramesDrop
  <2>1. K2 = [r \in DOMAIN K \ {C.seq_low} |-> K[r]] /\ C.seq_low \in DOMAIN K
    BY <1>5 DEF FramesDrop
  <2>2. \A r \in DOMAIN K : C.seq_low <= r
    BY <1>3
  <2>3. Log!DropOldest
    BY <1>1, <1>5, <2>1, <2>2 DEF Log!DropOldest, FramesDrop, Kept
  <2> QED BY <2>3 DEF Log!Next
<1>6. CASE FramesClear
  BY <1>1, <1>6 DEF FramesClear, Log!Next, Log!Clear, Kept
<1>7. CASE FramesAppend
  <2> DEFINE d == mem[loc[C.seq_high + 1]].data
  <2>1. d \in Data
    BY <1>1, <1>7 DEF FramesAppend
  <2>2. K2 = [s \in DOMAIN K \cup {C.seq_high + 1} |-> IF s = C.seq_high + 1 THEN d ELSE K[s]]
    BY <1>7 DEF FramesAppend
  <2>3. Log!Append(d)
    BY <1>1, <1>7, <2>2 DEF Log!Append, FramesAppend, Kept
  <2> QED BY <2>1, <2>3 DEF Log!Next
<1> QED BY <1>2, <1>4, <1>5, <1>6, <1>7

(* The transport implements the log: whatever the interleaving of threads,  *)
(* the sizes and the deaths, what is committed changes only by an append of *)
(* the next number, a drop of the oldest or a clear, in one step each.      *)
THEOREM ImplementsLog == Spec => LogSpec
  BY LogInit, LogNext, Inductive, PTL DEF Spec, LogSpec, Log!Spec

-----------------------------------------------------------------------------
(* The pointers of the connections. *)

(* Only a death, which is counted, may end the steadiness of a connection. *)
LEMMA SteadyBefore ==
  ASSUME TypeOK, [Next]_vars, NEW c \in Conns, Steady(c)'
  PROVE  Steady(c) /\ (Polls(c) \/ (crashes = 0 /\ crashes' = 0))
PROOF
<1>1. crashes' = crashes \/ crashes' = crashes + 1
  <2>1. ASSUME NEW t \in Threads,
               \/ a0_transport_lock(t) \/ a0_transport_unlock(t) \/ Connecting(t)
               \/ Writing(t) \/ Reading(t) \/ Notifying(t)
        PROVE  crashes' = crashes
    BY <2>1, Zenon DEF a0_transport_lock, a0_transport_unlock, Connecting, a0_transport_init,
       InitFields, InitDone, Writing, a0_transport_alloc, EvictHead, EvictCommit, SlotInit,
       LinkFrame, FillFrame, a0_transport_commit, a0_transport_clear, a0_transport_resize,
       CommitFlip, CommitCopy, Reading, a0_transport_jump_head, a0_transport_jump_tail,
       a0_transport_jump, a0_transport_step_next, a0_transport_step_prev, MovePointer, Notifying,
       a0_transport_timedwait, Timeout, WaitDone, WaitAgain, a0_transport_shutdown, ShutdownWake
  <2>2. ASSUME NEW d \in Conns, Crash(d) PROVE crashes' = crashes + 1
    BY <2>2 DEF Crash
  <2>3. UNCHANGED vars => crashes' = crashes
    BY DEF vars
  <2> QED BY <2>1, <2>2, <2>3, Zenon DEF Next
<1>2. crashes \in Nat
  BY DEF TypeOK
<1>3. Polls(c)' <=> Polls(c)
  BY DEF Polls
<1> QED BY <1>1, <1>2, <1>3 DEF Steady

(* A step that ends with the copy of the committed page is clean. *)
LEMMA ResetClean ==
  ASSUME TypeOK, ResetWorking, UNCHANGED committed_page_idx, PollsAwake'
  PROVE  Clean'
PROOF
<1>1. C' = C /\ W' = C
  BY Pages, SettingWorking DEF ResetWorking
<1> QED BY <1>1 DEF Clean, CleanInside, CleanFree

(* A step inside the critical section of a writer is clean: nobody else may *)
(* look at the working page.                                                *)
LEMMA OwnerClean ==
  ASSUME TypeOK, OwnerIsInside, Clean, NEW t \in Threads, pc[t] \in Holding, UNCHANGED owner,
         NEW x \in Holding \ {"cs"}, pc' = [pc EXCEPT ![t] = x]
  PROVE  Clean'
PROOF
<1>1. pc \in [Threads -> PCs] /\ owner = t /\ owner # None
  BY ConstantsAssumption DEF TypeOK, OwnerIsInside
<1>2. \A u \in Threads : u # t => pc[u] \notin Holding
  BY <1>1 DEF OwnerIsInside
<1>3. \A u \in Threads : pc'[u] # "cs"
  BY <1>1, <1>2 DEF Holding
<1>4. PollsAwake'
  BY <1>1 DEF Clean, PollsAwake, Polls, Holding, Asleep, Queued
<1> QED BY <1>1, <1>3, <1>4 DEF Clean, CleanInside, CleanFree

(* A pointer of a steady connection is only ever moved by what was committed. *)
LEMMA CleanStep ==
  ASSUME IInv, Clean, [Next]_vars
  PROVE  Clean'
PROOF
<1> USE DEF Go, local
<1>0. /\ TypeOK /\ OwnerIsInside /\ Storage /\ WaitCounted
      /\ pc \in [Threads -> PCs] /\ None \notin Threads /\ ConnOf \in [Threads -> Conns]
      /\ TimedWaiters \subseteq Waiters
      /\ CleanInside /\ CleanFree /\ PollsAwake
      /\ \A c \in Conns : Polls(c)' <=> Polls(c)
  BY ConstantsAssumption DEF IInv, TypeOK, Clean, Polls
<1>a. ASSUME NEW c \in Conns, Steady(c)' PROVE Steady(c) /\ (Polls(c) \/ (crashes = 0 /\ crashes' = 0))
  BY <1>0, <1>a, SteadyBefore
<1>b. ASSUME UNCHANGED shared,
             \A u \in Threads : pc'[u] = "cs" /\ Steady(ConnOf[u])' => W = C,
             crashes' = 0 /\ owner' = None => W = C,
             \A u \in Threads : Polls(ConnOf[u]) => pc'[u] \notin Asleep \cup Queued
      PROVE  Clean'
  <2>1. C' = C /\ W' = W
    BY <1>b DEF shared, C, W
  <2> QED BY <1>0, <1>b, <2>1 DEF Clean, CleanInside, CleanFree, PollsAwake
<1>1. ASSUME UNCHANGED shared, UNCHANGED <<pc, owner, crashes>> PROVE Clean'
  BY <1>0, <1>1, <1>a, <1>b DEF CleanInside, CleanFree, PollsAwake
<1>2. ASSUME NEW t \in Threads, a0_transport_lock(t) \/ a0_transport_unlock(t) PROVE Clean'
  <2>1. \A u \in Threads : pc'[u] = pc[u] \/ pc'[u] \in {"cs", "idle"}
    BY <1>0, <1>2 DEF a0_transport_lock, a0_transport_unlock
  <2>2. PollsAwake'
    BY <1>0, <2>1 DEF PollsAwake, Asleep, Queued
  <2> QED BY <1>0, <1>2, <2>2, ResetClean DEF a0_transport_lock, a0_transport_unlock
<1>3. ASSUME NEW t \in Threads, Connecting(t) PROVE Clean'
  <2>1. CASE a0_transport_init(t) \/ InitDone(t)
    <3>1. \A u \in Threads : pc'[u] = pc[u] \/ pc'[u] \in {"init_fields", "idle"}
      BY <1>0, <2>1 DEF a0_transport_init, InitDone
    <3>2. PollsAwake'
      BY <1>0, <3>1 DEF PollsAwake, Asleep, Queued
    <3> QED BY <1>0, <2>1, <3>2, ResetClean DEF a0_transport_init, InitDone
  <2>2. CASE InitFields(t)
    BY <1>0, <2>2, OwnerClean DEF InitFields, Holding, lock
  <2> QED BY <1>3, <2>1, <2>2 DEF Connecting
<1>4. ASSUME NEW t \in Threads, NEW from, NEW to, CommitCopy(t, from, to),
             to \in {"cs", "evict"} PROVE Clean'
  <2>1. \A u \in Threads : \/ pc'[u] = pc[u] \/ pc'[u] \in {"cs", "evict"}
                           \/ pc[u] \in Asleep
    BY <1>0, <1>4 DEF CommitCopy, Broadcast, Asleep
  <2>2. PollsAwake'
    BY <1>0, <2>1 DEF PollsAwake, Asleep, Queued
  <2> QED BY <1>0, <1>4, <2>2, ResetClean DEF CommitCopy
<1>5. ASSUME NEW t \in Threads, NEW from, NEW to, CommitFlip(t, from, to),
             from \in Holding, to \in {"copy", "evict_copy"} PROVE Clean'
  BY <1>0, <1>5, OwnerClean DEF CommitFlip, Holding, lock
<1>6. ASSUME NEW t \in Threads, Writing(t) PROVE Clean'
  <2>1. CASE a0_transport_alloc(t) \/ EvictHead(t) \/ SlotInit(t) \/ LinkFrame(t) \/ FillFrame(t)
             \/ a0_transport_clear(t)
    BY <1>0, <2>1, OwnerClean DEF a0_transport_alloc, EvictHead, SlotInit, LinkFrame, FillFrame,
                                  a0_transport_clear, Holding, lock
  <2>2. CASE a0_transport_resize(t)
    <3>1. pages' = pages /\ committed_page_idx' = committed_page_idx /\ pc' = pc /\ owner' = owner
          /\ crashes' = crashes
      BY <2>2 DEF a0_transport_resize, lock
    <3>2. C' = C /\ W' = W
      BY <3>1 DEF C, W
    <3> QED BY <1>0, <1>a, <3>1, <3>2 DEF Clean, CleanInside, CleanFree, PollsAwake
  <2>3. CASE EvictCommit(t) \/ a0_transport_commit(t)
    BY <1>4, <1>5, <2>3 DEF EvictCommit, a0_transport_commit, Holding
  <2> QED BY Zenon, <1>6, <2>1, <2>2, <2>3 DEF Writing
<1>7. ASSUME NEW t \in Threads, Reading(t) PROVE Clean'
  BY <1>1, <1>7, ReadingMoves DEF lock
<1>8. ASSUME NEW t \in Threads, a0_transport_timedwait(t) PROVE Clean'
  <2>1. /\ UNCHANGED shared /\ pc[t] = "cs" /\ t \in Waiters /\ crashes' = crashes
        /\ pc' = [pc EXCEPT ![t] = "sleep"]
    BY <1>8 DEF a0_transport_timedwait
  <2>2. ~Polls(ConnOf[t])
    BY <2>1 DEF Polls
  <2>3. crashes = 0 => W = C
    BY <1>0, <2>1 DEF CleanInside, Steady
  <2>4. \A u \in Threads : pc'[u] = "cs" => pc[u] = "cs"
    BY <1>0, <2>1
  <2>5. \A u \in Threads : Polls(ConnOf[u]) => pc'[u] \notin Asleep \cup Queued
    BY <1>0, <2>1, <2>2 DEF PollsAwake
  <2> QED BY <1>0, <1>a, <1>b, <2>1, <2>3, <2>4, <2>5 DEF CleanInside
<1>9. ASSUME NEW t \in Threads, Timeout(t) \/ WaitAgain(t) PROVE Clean'
  <2>1. UNCHANGED shared /\ pc[t] \in Asleep \cup Queued /\ pc'[t] # "cs" /\ crashes' = crashes
        /\ (\A u \in Threads : u # t => pc'[u] = pc[u]) /\ (owner' = None => owner = None)
    BY <1>0, <1>9 DEF Timeout, WaitAgain, Asleep, Queued, lock
  <2>2. ~Polls(ConnOf[t])
    BY <1>0, <2>1 DEF PollsAwake
  <2>3. \A u \in Threads : Polls(ConnOf[u]) => pc'[u] \notin Asleep \cup Queued
    BY <1>0, <2>1, <2>2 DEF PollsAwake
  <2> QED BY <1>0, <1>a, <1>b, <2>1, <2>3 DEF CleanInside, CleanFree
<1>10. ASSUME NEW t \in Threads, WaitDone(t) PROVE Clean'
  <2>1. pc[t] \in Queued /\ owner = None /\ owner' = t /\ UNCHANGED shared /\ crashes' = crashes
        /\ pc' = Broadcast([pc EXCEPT ![t] = "cs"])
    BY <1>10 DEF WaitDone, WaitReturns, Acquire, Queued
  <2>2. ~Polls(ConnOf[t])
    BY <1>0, <2>1 DEF PollsAwake
  <2>3. \A u \in Threads : u # t => pc'[u] = pc[u] \/ (pc[u] \in Asleep /\ pc'[u] # "cs")
    BY <1>0, <2>1 DEF Broadcast, Asleep
  <2>4. \A u \in Threads : Polls(ConnOf[u]) => pc'[u] \notin Asleep \cup Queued
    BY <1>0, <2>2, <2>3 DEF PollsAwake
  <2>5. \A u \in Threads : pc'[u] = "cs" /\ Steady(ConnOf[u])' => W = C
    <3> SUFFICES ASSUME NEW u \in Threads, pc'[u] = "cs", Steady(ConnOf[u])' PROVE W = C
      OBVIOUS
    <3>1. Steady(ConnOf[u]) /\ (Polls(ConnOf[u]) \/ crashes = 0)
      BY <1>0, <1>a
    <3>2. CASE crashes = 0
      BY <1>0, <2>1, <3>2 DEF CleanFree
    <3>3. CASE Polls(ConnOf[u])
      BY <1>0, <2>2, <2>3, <3>1, <3>3 DEF CleanInside
    <3> QED BY <3>1, <3>2, <3>3
  <2> QED BY <1>0, <1>b, <2>1, <2>4, <2>5
<1>11. ASSUME NEW t \in Threads, a0_transport_shutdown(t) PROVE Clean'
  <2>1. UNCHANGED shared /\ pc[t] = "cs" /\ crashes' = crashes
    BY <1>11 DEF a0_transport_shutdown
  <2>2. \A u \in Threads : u # t => pc'[u] = pc[u] \/ (pc[u] \in Asleep /\ pc'[u] # "cs")
    BY <1>0, <1>11 DEF a0_transport_shutdown, Broadcast, Asleep
  <2>3. ASSUME Polls(ConnOf[t]) PROVE pc'[t] = "cs"
    <3>1. WaitersOn(ConnOf[t]) = {}
      BY <1>0, <2>3 DEF PollsAwake, WaitersOn, Waiting, Asleep, Queued
    <3>2. wait_cnt[ConnOf[t]] = 0
      BY <1>0, <3>1, FS_EmptySet DEF WaitCounted
    <3>3. pc' = Broadcast(pc)
      BY <1>11, <3>2 DEF a0_transport_shutdown
    <3> QED BY <1>0, <2>1, <3>3 DEF Broadcast
  <2>4. \A u \in Threads : Polls(ConnOf[u]) => pc'[u] \notin Asleep \cup Queued
    <3> SUFFICES ASSUME NEW u \in Threads, Polls(ConnOf[u]) PROVE pc'[u] \notin Asleep \cup Queued
      OBVIOUS
    <3>1. CASE u = t
      BY <2>3, <3>1 DEF Asleep, Queued
    <3>2. CASE u # t
      BY <1>0, <2>2, <3>2 DEF PollsAwake
    <3> QED BY <3>1, <3>2
  <2>5. crashes = 0 => W = C
    BY <1>0, <2>1 DEF CleanInside, Steady
  <2>6. \A u \in Threads : pc'[u] = "cs" => pc[u] = "cs"
    BY <2>1, <2>2
  <2> QED BY <1>0, <1>a, <1>b, <2>1, <2>4, <2>5, <2>6 DEF CleanInside
<1>12. ASSUME NEW t \in Threads, ShutdownWake(t) PROVE Clean'
  <2>1. pc[t] \in Queued /\ owner = None /\ UNCHANGED shared /\ crashes' = crashes
        /\ \A u \in Threads : u # t => pc'[u] = pc[u]
    BY <1>0, <1>12 DEF ShutdownWake, Queued
  <2>2. ~Polls(ConnOf[t])
    BY <1>0, <2>1 DEF PollsAwake
  <2>3. crashes = 0 => W = C
    BY <1>0, <2>1 DEF CleanFree
  <2>4. \A u \in Threads : Polls(ConnOf[u]) => pc'[u] \notin Asleep \cup Queued
    BY <1>0, <2>1, <2>2 DEF PollsAwake
  <2>5. \A u \in Threads : pc'[u] = "cs" /\ Steady(ConnOf[u])' => W = C
    BY <1>0, <1>a, <2>1, <2>2, <2>3 DEF CleanInside
  <2> QED BY <1>0, <1>b, <2>1, <2>3, <2>4, <2>5
<1>13. ASSUME NEW c \in Conns, Crash(c) PROVE Clean'
  <2>1. crashes' # 0 /\ UNCHANGED shared
    BY <1>0, <1>13 DEF Crash, TypeOK
  <2>2. \A u \in Threads : pc'[u] = pc[u] \/ pc'[u] = "dead"
    BY <1>13 DEF Crash
  <2>3. \A u \in Threads : Polls(ConnOf[u]) => pc'[u] \notin Asleep \cup Queued
    BY <1>0, <2>2 DEF PollsAwake, Asleep, Queued
  <2> QED BY <1>0, <1>a, <1>b, <2>1, <2>2, <2>3 DEF CleanInside
<1>14. UNCHANGED vars => Clean'
  BY <1>1 DEF vars, lock
<1> QED
  BY Zenon, <1>2, <1>3, <1>6, <1>7, <1>8, <1>9, <1>10, <1>11, <1>12, <1>13, <1>14
     DEF Next, Notifying

(* Where the operations of a reader put its pointer: on a committed frame. *)
LEMMA MoveLands ==
  ASSUME IInv, Clean, NEW t \in Threads, Steady(ConnOf[t]), OnFrame(ConnOf[t]), Reading(t)
  PROVE  \E s \in Live(C) : /\ seq' = [seq EXCEPT ![ConnOf[t]] = s]
                            /\ off' = [off EXCEPT ![ConnOf[t]] = loc[s]]
PROOF
<1> DEFINE c == ConnOf[t]
<1>1. TypeOK /\ Good(C, mem, loc) /\ C \in Page /\ c \in Conns /\ seq[c] \in Nat
  BY Pages, ConstantsAssumption DEF IInv, Storage, TypeOK
<1>2. W = C
  BY ReadingMoves DEF Clean, CleanInside
<1>3. /\ \A s \in Live(C) : s \in Nat /\ loc[s] \in Offs /\ Hdr(loc[s]) = mem[loc[s]]
      /\ C.seq_low \in Nat /\ C.seq_high \in Nat
      /\ ~Empty(C) => /\ C.seq_low \in Live(C) /\ C.seq_high \in Live(C)
                      /\ C.off_head = loc[C.seq_low] /\ C.off_tail = loc[C.seq_high]
                      /\ C.seq_low >= 1
      /\ \A s : s \in Live(C) <=> ~Empty(C) /\ s \in Nat /\ C.seq_low <= s /\ s <= C.seq_high
  BY <1>1, Positions DEF Hdr
<1>4. /\ \A s \in Live(C) : Hdr(loc[s]).seq = s
      /\ \A s \in Live(C) : s < C.seq_high => Hdr(loc[s]).next_off = loc[s + 1]
                                             /\ Hdr(loc[s + 1]).prev_off = loc[s]
  BY <1>1, <1>3 DEF Good, Placed, Chained
<1>5. seq[c] \in Live(C) => off[c] = loc[seq[c]]
  BY <1>1, <1>3 DEF OnFrame
<1>6. seq[c] > 0 => seq[c] <= C.seq_high
  BY <1>1 DEF OnFrame
<1> DEFINE Lands(o, s) == s \in Live(C) /\ o = loc[s]
<1>7. ASSUME NEW o, NEW s, MovePointer(t, o, s), Lands(o, s)
      PROVE  \E r \in Live(C) : /\ seq' = [seq EXCEPT ![ConnOf[t]] = r]
                                /\ off' = [off EXCEPT ![ConnOf[t]] = loc[r]]
  BY <1>7 DEF MovePointer
<1>8. CASE a0_transport_jump_head(t) \/ a0_transport_jump_tail(t)
  <2>1. ~Empty(C) => Lands(C.off_head, C.seq_low) /\ Lands(C.off_tail, C.seq_high)
    BY <1>3
  <2> QED BY <1>2, <1>7, <1>8, <2>1 DEF a0_transport_jump_head, a0_transport_jump_tail
<1>9. CASE a0_transport_jump(t)
  <2>1. PICK s \in Live(C) : MovePointer(t, loc[s], Hdr(loc[s]).seq)
    BY <1>9 DEF a0_transport_jump
  <2>2. Lands(loc[s], Hdr(loc[s]).seq)
    BY <1>4
  <2> QED BY <1>7, <2>1, <2>2
<1>10. CASE a0_transport_step_next(t)
  <2>1. ~Empty(C) /\ seq[c] < C.seq_high /\ MovePointer(t, next_ptr(C, c), next_seq(C, c))
    BY <1>2, <1>10 DEF a0_transport_step_next, has_next
  <2>2. Lands(next_ptr(C, c), next_seq(C, c))
    <3>1. CASE seq[c] < C.seq_low
      BY <1>3, <2>1, <3>1 DEF next_ptr, next_seq
    <3>2. CASE ~(seq[c] < C.seq_low)
      <4>1. seq[c] \in Live(C) /\ seq[c] + 1 \in Live(C)
        BY <1>1, <1>3, <2>1, <3>2
      <4> QED BY <1>4, <1>5, <2>1, <3>2, <4>1 DEF next_ptr, next_seq
    <3> QED BY <3>1, <3>2
  <2> QED BY <1>7, <2>1, <2>2
<1>11. CASE a0_transport_step_prev(t)
  <2> DEFINE o == Hdr(off[c]).prev_off
  <2>1. ~Empty(C) /\ seq[c] > C.seq_low /\ MovePointer(t, o, Hdr(o).seq)
    BY <1>2, <1>11 DEF a0_transport_step_prev, has_prev
  <2>2. seq[c] \in Live(C) /\ seq[c] - 1 \in Live(C) /\ seq[c] - 1 < C.seq_high
        /\ (seq[c] - 1) + 1 = seq[c]
    BY <1>1, <1>3, <1>6, <2>1
  <2>3. Hdr(loc[seq[c]]).prev_off = loc[seq[c] - 1]
    BY <1>4, <2>2
  <2>4. Lands(o, Hdr(o).seq)
    BY <1>4, <1>5, <2>2, <2>3
  <2> HIDE DEF o, Lands
  <2> QED BY <1>7, <2>1, <2>4
<1> QED BY <1>8, <1>9, <1>10, <1>11 DEF Reading

(* Evictions, clears and commits of others leave a pointer where it belongs. *)
LEMMA OnFrameKept ==
  ASSUME IInv, NEW c \in Conns, OnFrame(c), [Next]_vars,
         (seq'[c] = seq[c] /\ off'[c] = off[c]) \/ seq'[c] = 0
  PROVE  OnFrame(c)'
PROOF
<1>1. CASE seq'[c] = 0
  BY <1>1 DEF OnFrame
<1>2. CASE seq'[c] = seq[c] /\ off'[c] = off[c]
  <2> SUFFICES ASSUME seq[c] > 0
               PROVE  /\ seq[c] <= C'.seq_high
                      /\ seq[c] \in Live(C') => off[c] = loc'[seq[c]]
    BY <1>2 DEF OnFrame, Live, Empty
  <2>1. C.seq_high \in Nat /\ seq[c] \in Nat /\ seq[c] <= C.seq_high
    BY Pages DEF IInv, TypeOK, Page, OnFrame
  <2>2. FramesSame \/ FramesDrop \/ FramesClear \/ FramesAppend
    BY FramesStep DEF IInv
  <2>3. seq[c] <= C'.seq_high
    BY <2>1, <2>2 DEF FramesSame, FramesDrop, FramesClear, FramesAppend
  <2>4. ASSUME seq[c] \in Live(C') PROVE off[c] = loc'[seq[c]]
    <3>1. seq[c] \in Live(C) /\ loc'[seq[c]] = loc[seq[c]]
      BY <2>1, <2>2, <2>4 DEF FramesSame, FramesDrop, FramesClear, FramesAppend
    <3> QED BY <3>1 DEF OnFrame
  <2> QED BY <2>3, <2>4
<1> QED BY <1>1, <1>2

(* Every step keeps the pointers of the steady connections on their frames. *)
LEMMA OnFrameStep ==
  ASSUME IInv, Clean, SteadyOnFrame, [Next]_vars
  PROVE  SteadyOnFrame'
PROOF
<1> USE DEF Go, local
<1>0. TypeOK /\ seq \in [Conns -> Nat] /\ off \in [Conns -> Nat] /\ ConnOf \in [Threads -> Conns]
  BY ConstantsAssumption DEF IInv, TypeOK
<1> SUFFICES ASSUME NEW c \in Conns, Steady(c)' PROVE OnFrame(c)'
  BY DEF SteadyOnFrame
<1>1. OnFrame(c) /\ Steady(c)
  BY <1>0, SteadyBefore DEF SteadyOnFrame
<1>2. ASSUME NEW t \in Threads, Reading(t) PROVE OnFrame(c)'
  <2>1. CASE c = ConnOf[t]
    <3>1. PICK s \in Live(C) : /\ seq' = [seq EXCEPT ![ConnOf[t]] = s]
                              /\ off' = [off EXCEPT ![ConnOf[t]] = loc[s]]
      BY <1>1, <1>2, <2>1, MoveLands
    <3>2. UNCHANGED <<pages, committed_page_idx, mem, loc>> /\ C' = C
      BY <1>2, ReadingMoves DEF shared, C
    <3>3. s <= C.seq_high
      BY DEF Live
    <3> QED BY <1>0, <2>1, <3>1, <3>2, <3>3 DEF OnFrame
  <2>2. CASE c # ConnOf[t]
    <3>1. \E o, s : MovePointer(t, o, s)
      BY <1>2, Zenon DEF Reading, a0_transport_jump_head, a0_transport_jump_tail, a0_transport_jump,
                         a0_transport_step_next, a0_transport_step_prev
    <3>2. seq'[c] = seq[c] /\ off'[c] = off[c]
      BY <1>0, <2>2, <3>1 DEF MovePointer
    <3> QED BY <1>1, <3>2, OnFrameKept
  <2> QED BY <2>1, <2>2
<1>3. ASSUME UNCHANGED <<seq, off>> PROVE OnFrame(c)'
  BY <1>1, <1>3, OnFrameKept
<1>4. ASSUME NEW d \in Conns, ZeroConn(d) PROVE OnFrame(c)'
  <2>1. (seq'[c] = seq[c] /\ off'[c] = off[c]) \/ seq'[c] = 0
    BY <1>0, <1>4 DEF ZeroConn
  <2> QED BY <1>1, <2>1, OnFrameKept
<1>5. ASSUME NEW t \in Threads, a0_transport_lock(t) \/ a0_transport_unlock(t) \/ Writing(t)
      PROVE  UNCHANGED <<seq, off>>
  BY <1>5, Zenon DEF a0_transport_lock, a0_transport_unlock, Writing, a0_transport_alloc, EvictHead,
     EvictCommit, SlotInit, LinkFrame, FillFrame, a0_transport_commit, a0_transport_clear,
     a0_transport_resize, CommitFlip, CommitCopy, conn
<1>6. ASSUME NEW t \in Threads, Connecting(t) PROVE OnFrame(c)'
  <2>1. CASE a0_transport_init(t)
    BY <1>0, <1>4, <2>1 DEF a0_transport_init
  <2>2. CASE InitFields(t) \/ InitDone(t)
    BY <1>3, <2>2 DEF InitFields, InitDone, conn
  <2> QED BY <1>6, <2>1, <2>2 DEF Connecting
<1>7. ASSUME NEW t \in Threads, Notifying(t) PROVE UNCHANGED <<seq, off>>
  BY <1>7, Zenon DEF Notifying, a0_transport_timedwait, Timeout, WaitDone, WaitAgain,
     a0_transport_shutdown, ShutdownWake, conn
<1>8. ASSUME NEW d \in Conns, Crash(d) PROVE OnFrame(c)'
  BY <1>4, <1>8 DEF Crash
<1>9. UNCHANGED vars => UNCHANGED <<seq, off>>
  BY DEF vars, conn
<1> QED
  BY Zenon, <1>2, <1>3, <1>5, <1>6, <1>7, <1>8, <1>9 DEF Next

(* A pointer that iter_valid accepts is at the live frame of its number and *)
(* none is ahead of the last commit, for any number of connections, frames, *)
(* evictions, clears and deaths: of every connection until the first death, *)
(* and after it of every connection that nobody waits on, whoever waits on  *)
(* the others.  The rest is excluded by the code: a waiter that wakes up    *)
(* after the death of a writer moves by the working page that it left.      *)
THEOREM PointersSound == Spec => []PointerSound
PROOF
<1> DEFINE PInv == Clean /\ SteadyOnFrame
<1>1. Init => PInv
  <2>1. Init => C = W
    BY DEF Init, C, W
  <2>2. Init => \A t \in Threads : pc[t] \notin {"cs"} \cup Asleep \cup Queued
    BY DEF Init, Asleep, Queued
  <2>3. Init => \A c \in Conns : seq[c] = 0
    BY DEF Init
  <2> QED BY <2>1, <2>2, <2>3 DEF Clean, CleanInside, CleanFree, PollsAwake, SteadyOnFrame, OnFrame
<1>2. IInv /\ PInv /\ [Next]_vars => PInv'
  BY CleanStep, OnFrameStep
<1>3. IInv /\ PInv => PointerSound
  <2> SUFFICES ASSUME IInv, PInv, NEW c \in Conns, Steady(c), seq[c] > 0
               PROVE  /\ seq[c] <= C.seq_high
                      /\ frame_present(C, c) <=> iter_valid(C, c)
                      /\ iter_valid(C, c) => /\ seq[c] \in Live(C) /\ off[c] = loc[seq[c]]
                                             /\ Hdr(off[c]).seq = seq[c]
    BY DEF PointerSound
  <2>0. OnFrame(c)
    BY DEF SteadyOnFrame
  <2>1. TypeOK /\ Good(C, mem, loc) /\ C \in Page /\ seq[c] \in Nat
    BY Pages DEF IInv, Storage, TypeOK
  <2>2. C.seq_low \in Nat /\ C.seq_high \in Nat /\ seq[c] <= C.seq_high
    BY <2>0, <2>1 DEF Page, OnFrame
  <2>3. ASSUME iter_valid(C, c)
        PROVE  seq[c] \in Live(C) /\ off[c] = loc[seq[c]] /\ Hdr(off[c]).seq = seq[c]
    <3>1. seq[c] \in Live(C)
      BY <2>1, <2>2, <2>3, Positions DEF iter_valid, Empty
    <3>2. off[c] = loc[seq[c]]
      BY <2>0, <3>1 DEF OnFrame
    <3>3. loc[seq[c]] \in Offs /\ mem[loc[seq[c]]].seq = seq[c]
      BY <2>1, <3>1 DEF Good, Placed
    <3> QED BY <3>1, <3>2, <3>3 DEF Hdr
  <2> QED BY <2>2, <2>3, <2>1 DEF frame_present, iter_valid
<1>4. Spec => []PInv
  BY <1>1, <1>2, Inductive, PTL DEF Spec
<1> QED BY <1>3, <1>4, Inductive, PTL
=============================================================================
