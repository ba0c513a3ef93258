-------------------------- MODULE AlgorithmProofs --------------------------
(***************************************************************************)
(* The sequential parts, for all inputs.  The hash table of map.c is a     *)
(* function from keys to values, for every set of keys, every hash of them *)
(* and every sequence of puts, deletions and counts; times are added and   *)
(* converted exactly; the topics of a template have files of their own;    *)
(* a pattern matches the paths that it means; and the flat form of a       *)
(* packet is that packet.                                                  *)
(***************************************************************************)
EXTENDS Map, Time, Pathglob, Packet, TLAPS, FiniteSetTheorems, FunctionTheorems, WellFoundedInduction

-----------------------------------------------------------------------------
(* The ring of the buckets.                                                *)

Idx(c) == 0..(c - 1)
Step(c, i) == IF i + 1 = c THEN 0 ELSE i + 1
Ring(c, h, j) == IF h + j - 1 < c THEN h + j - 1 ELSE h + j - 1 - c

LEMMA Wraps ==
  ASSUME NEW c \in Nat \ {0}, NEW a \in 0..(2 * c - 1)
  PROVE  a % c = IF a < c THEN a ELSE a - c
<1>1. CASE a < c
  BY <1>1
<1>2. CASE a >= c
  BY <1>2
<1> QED
  BY <1>1, <1>2

LEMMA Remains ==
  ASSUME NEW c \in Nat \ {0}, NEW a \in Nat
  PROVE  a % c \in Idx(c)
BY DEF Idx

LEMMA Homes ==
  ASSUME NEW c \in Nat, c >= 2, NEW k \in Keys
  PROVE  Hash[k] % c \in Idx(c)
<1>1. c \in Nat \ {0} /\ Hash[k] \in Nat
  BY MapAssumption
<1> QED
  BY <1>1, Remains

\* The operators of the model in these terms.
LEMMA HomeIs ==
  ASSUME NEW m, m.cap \in Nat \ {0}, NEW k \in Keys
  PROVE  Home(m, k) \in Idx(m.cap)
BY Remains, MapAssumption DEF Home

LEMMA AfterIs ==
  ASSUME NEW m, m.cap \in Nat \ {0}, NEW i \in Idx(m.cap)
  PROVE  After(m, i) = Step(m.cap, i) /\ After(m, i) \in Idx(m.cap)
<1> DEFINE a == i + 1
           c == m.cap
<1>1. a \in 0..(2 * c - 1)
  BY DEF Idx
<1>2. a % c = IF a < c THEN a ELSE a - c
  <2> HIDE DEF a, c
  <2> QED BY <1>1, Wraps DEF c
<1>3. a % c = Step(c, i) /\ Step(c, i) \in Idx(c)
  <2> HIDE DEF c
  <2> QED BY <1>2 DEF Step, Idx, c
<1> QED
  BY <1>3 DEF After

LEMMA NthIs ==
  ASSUME NEW m, m.cap \in Nat \ {0}, NEW k \in Keys, NEW j \in 1..m.cap
  PROVE  Nth(m, k, j) = Ring(m.cap, Home(m, k), j) /\ Nth(m, k, j) \in Idx(m.cap)
<1>1. Home(m, k) \in Idx(m.cap)
  BY HomeIs
<1>2. Home(m, k) + j - 1 \in 0..(2 * m.cap - 1)
  BY <1>1 DEF Idx
<1> DEFINE a == Home(m, k) + j - 1
<1>3. a % m.cap = IF a < m.cap THEN a ELSE a - m.cap
  <2> HIDE DEF a
  <2> QED BY <1>2, Wraps DEF a
<1> QED
  BY <1>1, <1>3 DEF Nth, Ring, Idx

\* Walking the ring.
LEMMA RingStep ==
  ASSUME NEW c \in Nat, NEW h \in Idx(c), NEW j \in 1..c
  PROVE  /\ Ring(c, h, j) \in Idx(c)
         /\ Ring(c, h, 1) = h
         /\ j < c => Ring(c, h, j + 1) = Step(c, Ring(c, h, j))
         /\ \A l \in 1..c : Ring(c, h, j) = Ring(c, h, l) => j = l
BY DEF Ring, Step, Idx

LEMMA RingNext ==
  ASSUME NEW c \in Nat, NEW h \in Idx(c), NEW j \in 1..c, j < c
  PROVE  Ring(c, h, j + 1) = Step(c, Ring(c, h, j))
BY DEF Ring, Step, Idx

LEMMA StepIn ==
  ASSUME NEW c \in Nat, c >= 2, NEW i \in Idx(c)
  PROVE  Step(c, i) \in Idx(c) /\ Step(c, i) # i /\ i # -1 /\ i \in Nat
BY DEF Step, Idx

LEMMA RingOnto ==
  ASSUME NEW c \in Nat, NEW h \in Idx(c), NEW i \in Idx(c)
  PROVE  \E j \in 1..c : Ring(c, h, j) = i
<1>1. CASE h <= i
  <2>1. i - h + 1 \in 1..c /\ Ring(c, h, i - h + 1) = i
    BY <1>1 DEF Ring, Idx
  <2> QED
    BY <2>1
<1>2. CASE i < h
  <2>1. i - h + 1 + c \in 1..c /\ Ring(c, h, i - h + 1 + c) = i
    BY <1>2 DEF Ring, Idx
  <2> QED
    BY <2>1
<1> QED
  BY <1>1, <1>2 DEF Idx

LEMMA StepFacts ==
  ASSUME NEW c \in Nat, c >= 2
  PROVE  /\ \A i \in Idx(c) : Step(c, i) \in Idx(c) /\ Step(c, i) # i
         /\ \A i, j \in Idx(c) : Step(c, i) = Step(c, j) => i = j
         /\ \A i \in Idx(c) : \E p \in Idx(c) : Step(c, p) = i
<1>1. \A i \in Idx(c) : Step(c, i) \in Idx(c) /\ Step(c, i) # i
  BY DEF Step, Idx
<1>2. \A i, j \in Idx(c) : Step(c, i) = Step(c, j) => i = j
  BY DEF Step, Idx
<1>3. ASSUME NEW i \in Idx(c) PROVE \E p \in Idx(c) : Step(c, p) = i
  <2>1. CASE i = 0
    <3>1. c - 1 \in Idx(c) /\ Step(c, c - 1) = i
      BY <2>1 DEF Step, Idx
    <3> QED
      BY <3>1
  <2>2. CASE i # 0
    <3>1. i - 1 \in Idx(c) /\ Step(c, i - 1) = i
      BY <2>2 DEF Step, Idx
    <3> QED
      BY <3>1
  <2> QED
    BY <2>1, <2>2
<1> QED
  BY <1>1, <1>2, <1>3

LEMMA Least ==
  ASSUME NEW T \in SUBSET Nat, T # {}
  PROVE  \E x \in T : \A y \in T : x <= y
<1>1. IsWellFoundedOn(OpToRel(<, Nat), Nat)
  BY NatLessThanWellFounded
<1>2. \E x \in T : \A y \in T : ~ (<<y, x>> \in OpToRel(<, Nat))
  BY <1>1, WFMin
<1>3. \A x, y \in Nat : <<y, x>> \in OpToRel(<, Nat) <=> y < x
  BY DEF OpToRel
<1>4. \E x \in T : \A y \in T : ~ (y < x)
  BY <1>2, <1>3, Zenon
<1> QED
  BY <1>4

-----------------------------------------------------------------------------
(* The order of the buckets.                                               *)

Buckets == [off : Nat, key : Keys \cup {NoKey}, val : Int]

Occ(c, d) == {i \in Idx(c) : d[i].off # 0}

\* Every entry is at its distance from its first choice.
Sits(c, d) ==
  \A i \in Occ(c, d) : /\ d[i].key \in Keys
                       /\ d[i].off \in 1..c
                       /\ Ring(c, Hash[d[i].key] % c, d[i].off) = i

\* No entry is farther from its first choice by more than one than the entry before it.
Near(c, d, except) == \A i \in Idx(c) : i # except => d[Step(c, i)].off <= d[i].off + 1

Unique(c, d) == \A i, j \in Occ(c, d) : d[i].key = d[j].key => i = j

(* On the way back from an entry to its first choice, no entry is nearer   *)
(* to its own: a search that follows the distances reaches it.             *)
LEMMA Path ==
  ASSUME NEW c \in Nat, NEW d \in [Idx(c) -> Buckets], Near(c, d, -1), NEW h \in Idx(c),
         NEW n \in 1..c, d[Ring(c, h, n)].off >= n
  PROVE  \A j \in 1..n : d[Ring(c, h, j)].off >= j
<1> DEFINE T == {k \in Nat : k < n /\ d[Ring(c, h, n - k)].off < n - k}
<1> SUFFICES ASSUME T # {} PROVE FALSE
  <2> SUFFICES ASSUME T = {}, NEW j \in 1..n PROVE d[Ring(c, h, j)].off >= j
    OBVIOUS
  <2>1. n - j \in Nat /\ n - j < n /\ n - (n - j) = j
    OBVIOUS
  <2>2. Ring(c, h, j) \in Idx(c) /\ d[Ring(c, h, j)].off \in Nat
    BY RingStep DEF Buckets
  <2>3. n - j \notin T
    OBVIOUS
  <2> QED
    BY <2>1, <2>2, <2>3
<1>1. PICK k \in T : \A l \in T : k <= l
  BY Least
<1>2. k \in Nat /\ k < n /\ d[Ring(c, h, n - k)].off < n - k
  OBVIOUS
<1>3. k # 0
  <2>1. n - 0 = n /\ d[Ring(c, h, n)].off \in Nat
    BY RingStep DEF Buckets
  <2> QED
    BY <1>2, <2>1
<1>4. k - 1 \in Nat /\ k - 1 < n /\ k - 1 \notin T /\ n - (k - 1) = (n - k) + 1 /\ n - k \in 1..c /\ n - k < c
  BY <1>1, <1>2, <1>3
<1>5. Ring(c, h, n - k) \in Idx(c) /\ Ring(c, h, (n - k) + 1) = Step(c, Ring(c, h, n - k))
      /\ Ring(c, h, (n - k) + 1) \in Idx(c)
  BY <1>4, RingStep
<1>6. d[Ring(c, h, (n - k) + 1)].off \in Nat /\ d[Ring(c, h, n - k)].off \in Nat
  BY <1>5 DEF Buckets
<1>7. d[Ring(c, h, (n - k) + 1)].off >= (n - k) + 1
  BY <1>4, <1>6
<1>8. d[Step(c, Ring(c, h, n - k))].off <= d[Ring(c, h, n - k)].off + 1
  BY <1>5 DEF Near, Idx
<1> QED
  BY <1>2, <1>5, <1>6, <1>7, <1>8

-----------------------------------------------------------------------------
(* The loop of a0_map_put.                                                 *)

Hands == [off : Nat, key : Keys, val : Int, idx : Nat]

Entry(h) == [off |-> h.off, key |-> h.key, val |-> h.val]

(* The bucket in hand is at its distance, not farther from its first       *)
(* choice by more than one than the entry before it, and an entry with its *)
(* key is still ahead.                                                     *)
Held(c, d, h) ==
  /\ h \in Hands
  /\ h.off \in 1..c
  /\ h.idx = Ring(c, Hash[h.key] % c, h.off)
  /\ \A p \in Idx(c) : Step(c, p) = h.idx => d[p].off + 1 >= h.off
  /\ \A i \in Occ(c, d) : d[i].key = h.key => d[i].off >= h.off

\* Bucket i becomes b.
Becomes(c, d, e, i, b) ==
  e \in [Idx(c) -> Buckets] /\ e[i] = b /\ \A j \in Idx(c) : j # i => e[j] = d[j]

LEMMA Becoming ==
  ASSUME NEW c, NEW d \in [Idx(c) -> Buckets], NEW i \in Idx(c), NEW b \in Buckets
  PROVE  Becomes(c, d, [d EXCEPT ![i] = b], i, b)
BY DEF Becomes

Fresh(c, d, h) == \A i \in Occ(c, d) : d[i].key # h.key

\* Where the bucket in hand would be put, there is no entry with its key.
LEMMA PlaceFresh ==
  ASSUME NEW c \in Nat, c >= 2, NEW d \in [Idx(c) -> Buckets], Sits(c, d), Near(c, d, -1),
         NEW h, Held(c, d, h), d[h.idx].off < h.off
  PROVE  Fresh(c, d, h) /\ h.idx \in Idx(c)
<1> DEFINE home == Hash[h.key] % c
<1>1. h.key \in Keys /\ h.off \in 1..c /\ home \in Idx(c) /\ h.idx = Ring(c, home, h.off)
  BY Homes DEF Held, Hands
<1>2. h.idx \in Idx(c) /\ d[h.idx].off \in Nat
  BY <1>1, RingStep DEF Buckets
<1>3. ASSUME NEW i \in Occ(c, d), d[i].key = h.key PROVE FALSE
  <2>1. d[i].off \in 1..c /\ Ring(c, home, d[i].off) = i /\ d[i].off >= h.off
    BY <1>3 DEF Sits, Held
  <2>2. \A j \in 1..d[i].off : d[Ring(c, home, j)].off >= j
    <3> HIDE DEF home
    <3> QED BY <1>1, <2>1, Path
  <2>3. d[Ring(c, home, h.off)].off >= h.off
    BY <1>1, <2>1, <2>2
  <2> QED
    BY <1>1, <1>2, <2>3
<1> QED
  BY <1>2, <1>3 DEF Fresh

\* Putting it there keeps the order.
LEMMA PlaceOrder ==
  ASSUME NEW c \in Nat, c >= 2, NEW d \in [Idx(c) -> Buckets],
         Sits(c, d), Near(c, d, -1), Unique(c, d),
         NEW h, Held(c, d, h), d[h.idx].off < h.off,
         NEW e, Becomes(c, d, e, h.idx, Entry(h))
  PROVE  /\ Sits(c, e) /\ Near(c, e, -1) /\ Unique(c, e)
         /\ Occ(c, e) = Occ(c, d) \cup {h.idx}
<1>1. Fresh(c, d, h) /\ h.idx \in Idx(c)
  BY PlaceFresh
<1>2. /\ h.key \in Keys /\ h.off \in 1..c /\ h.val \in Int
      /\ h.idx = Ring(c, Hash[h.key] % c, h.off)
      /\ \A p \in Idx(c) : Step(c, p) = h.idx => d[p].off + 1 >= h.off
  BY DEF Held, Hands
<1>3. Entry(h) \in Buckets /\ Entry(h).off = h.off /\ Entry(h).key = h.key /\ Entry(h).val = h.val
  BY <1>2 DEF Entry, Buckets
<1>4. e \in [Idx(c) -> Buckets] /\ e[h.idx] = Entry(h) /\ \A i \in Idx(c) : i # h.idx => e[i] = d[i]
  BY DEF Becomes
<1>5. \A i \in Idx(c) : d[i].off \in Nat
  BY DEF Buckets
<1>6. Occ(c, e) = Occ(c, d) \cup {h.idx}
  BY <1>1, <1>2, <1>3, <1>4 DEF Occ
<1>7. Sits(c, e)
  <2> SUFFICES ASSUME NEW i \in Occ(c, e)
               PROVE  /\ e[i].key \in Keys /\ e[i].off \in 1..c
                      /\ Ring(c, Hash[e[i].key] % c, e[i].off) = i
    BY DEF Sits
  <2>1. CASE i = h.idx
    BY <1>2, <1>3, <1>4, <2>1
  <2>2. CASE i # h.idx
    BY <1>4, <1>6, <2>2 DEF Sits, Occ
  <2> QED
    BY <2>1, <2>2
<1>8. Unique(c, e)
  <2> SUFFICES ASSUME NEW i \in Occ(c, e), NEW j \in Occ(c, e), e[i].key = e[j].key PROVE i = j
    BY DEF Unique
  <2>1. CASE i = h.idx \/ j = h.idx
    BY <1>1, <1>3, <1>4, <1>6, <2>1 DEF Fresh, Occ
  <2>2. CASE i # h.idx /\ j # h.idx
    BY <1>4, <1>6, <2>2 DEF Unique, Occ
  <2> QED
    BY <2>1, <2>2
<1>9. Near(c, e, -1)
  <2> SUFFICES ASSUME NEW i \in Idx(c) PROVE e[Step(c, i)].off <= e[i].off + 1
    BY DEF Near
  <2>0. Step(c, i) \in Idx(c) /\ Step(c, i) # i /\ i # -1
    BY StepIn
  <2>1. Step(c, i) \in Idx(c) /\ Step(c, i) # i /\ d[Step(c, i)].off <= d[i].off + 1
    BY <2>0 DEF Near
  <2>2. CASE Step(c, i) = h.idx
    BY <1>2, <1>3, <1>4, <1>5, <2>1, <2>2
  <2>3. CASE i = h.idx
    BY <1>2, <1>3, <1>4, <1>5, <2>1, <2>3
  <2>4. CASE i # h.idx /\ Step(c, i) # h.idx
    BY <1>4, <2>1, <2>4
  <2> QED
    BY <2>2, <2>3, <2>4
<1> QED
  BY <1>4, <1>6, <1>7, <1>8, <1>9

\* The entry whose place was taken goes on in its stead.
LEMMA SwapHeld ==
  ASSUME NEW c \in Nat, c >= 2, NEW d \in [Idx(c) -> Buckets],
         Sits(c, d), Near(c, d, -1), Unique(c, d),
         NEW h, Held(c, d, h), d[h.idx].off < h.off, d[h.idx].off # 0,
         NEW e, Becomes(c, d, e, h.idx, Entry(h)),
         NEW g, g = [off |-> d[h.idx].off + 1, key |-> d[h.idx].key, val |-> d[h.idx].val,
                     idx |-> Step(c, h.idx)]
  PROVE  Held(c, e, g) /\ Fresh(c, e, g)
<1>1. Fresh(c, d, h) /\ h.idx \in Idx(c)
  BY PlaceFresh
<1>2. /\ h.key \in Keys /\ h.off \in 1..c
      /\ Occ(c, e) = Occ(c, d) \cup {h.idx}
  <2>1. Occ(c, e) = Occ(c, d) \cup {h.idx}
    BY PlaceOrder
  <2> QED
    BY <2>1 DEF Held, Hands
<1>3. e[h.idx] = Entry(h) /\ \A i \in Idx(c) : i # h.idx => e[i] = d[i]
  BY DEF Becomes
<1>4. h.idx \in Occ(c, d) /\ d[h.idx] \in Buckets
  BY <1>1 DEF Occ
<1>5. /\ d[h.idx].key \in Keys /\ d[h.idx].off \in 1..c
      /\ Ring(c, Hash[d[h.idx].key] % c, d[h.idx].off) = h.idx
  BY <1>4 DEF Sits
<1>6. g.off = d[h.idx].off + 1 /\ g.key = d[h.idx].key /\ g.val = d[h.idx].val /\ g.idx = Step(c, h.idx)
  OBVIOUS
<1>7. d[h.idx].off < c /\ g.off \in 1..c
  BY <1>2, <1>5, <1>6
<1>8. Hash[g.key] % c \in Idx(c)
  BY <1>5, <1>6, Homes
<1>9. g.idx = Ring(c, Hash[g.key] % c, g.off) /\ g.idx \in Nat
  <2> DEFINE home == Hash[g.key] % c
  <2>1. home \in Idx(c) /\ Ring(c, home, d[h.idx].off) = h.idx
    BY <1>5, <1>6, <1>8
  <2> HIDE DEF home
  <2>2. Ring(c, home, d[h.idx].off + 1) = Step(c, h.idx)
    <3> DEFINE j == d[h.idx].off
    <3>1. j \in 1..c /\ j < c /\ Ring(c, home, j) = h.idx
      BY <1>5, <1>7, <2>1
    <3> HIDE DEF j
    <3>2. Ring(c, home, j + 1) = Step(c, h.idx)
      BY <2>1, <3>1, RingNext
    <3> QED
      BY <3>2 DEF j
  <2>3. Step(c, h.idx) \in Nat
    BY <1>1 DEF Step, Idx
  <2> QED
    BY <1>6, <2>2, <2>3 DEF home
<1>10. g \in Hands
  BY <1>4, <1>5, <1>9 DEF Hands, Buckets
<1>11. Fresh(c, e, g)
  <2> SUFFICES ASSUME NEW i \in Occ(c, e), e[i].key = g.key PROVE FALSE
    BY DEF Fresh
  <2>1. CASE i = h.idx
    BY <1>1, <1>3, <1>4, <1>6, <2>1 DEF Fresh, Entry
  <2>2. CASE i # h.idx
    <3>1. i \in Occ(c, d) /\ d[i].key = d[h.idx].key
      BY <1>2, <1>3, <1>6, <2>2 DEF Occ
    <3> QED
      BY <1>4, <2>2, <3>1 DEF Unique
  <2> QED
    BY <2>1, <2>2
<1>12. \A p \in Idx(c) : Step(c, p) = g.idx => e[p].off + 1 >= g.off
  <2> SUFFICES ASSUME NEW p \in Idx(c), Step(c, p) = g.idx PROVE e[p].off + 1 >= g.off
    OBVIOUS
  <2>1. p = h.idx
    BY <1>1, <1>6, StepFacts
  <2> QED
    BY <1>2, <1>3, <1>5, <1>6, <2>1 DEF Entry
<1> QED
  BY <1>7, <1>9, <1>10, <1>11, <1>12 DEF Held, Fresh

\* As long as there is an empty bucket, the search goes on within the table.
LEMMA OnHeld ==
  ASSUME NEW c \in Nat, c >= 2, NEW d \in [Idx(c) -> Buckets], Sits(c, d), Near(c, d, -1),
         NEW h, Held(c, d, h), d[h.idx].off >= h.off, d[h.idx].key # h.key,
         NEW z \in Idx(c), d[z].off = 0,
         NEW g, g = [off |-> h.off + 1, key |-> h.key, val |-> h.val, idx |-> Step(c, h.idx)]
  PROVE  Held(c, d, g)
<1> DEFINE home == Hash[h.key] % c
<1>1. /\ h.key \in Keys /\ h.off \in 1..c /\ h.val \in Int /\ home \in Idx(c)
      /\ h.idx = Ring(c, home, h.off)
  BY Homes DEF Held, Hands
<1> HIDE DEF home
<1>2. h.idx \in Idx(c)
  BY <1>1, RingStep
<1>3. \A i \in Idx(c) : d[i].off \in Nat
  BY DEF Buckets
<1>4. h.off < c
  <2> SUFFICES ASSUME h.off = c PROVE FALSE
    BY <1>1
  <2>1. \A j \in 1..c : d[Ring(c, home, j)].off >= j
    BY <1>1, Path
  <2>2. PICK j \in 1..c : Ring(c, home, j) = z
    BY <1>1, RingOnto
  <2> QED
    BY <2>1, <2>2
<1>5. g.off = h.off + 1 /\ g.key = h.key /\ g.val = h.val /\ g.idx = Step(c, h.idx)
  OBVIOUS
<1>6. g.idx = Ring(c, home, g.off) /\ g.off \in 1..c
  BY <1>1, <1>4, <1>5, RingStep
<1>7. g \in Hands
  <2>1. Step(c, h.idx) \in Nat
    BY <1>2 DEF Step, Idx
  <2> QED
    BY <1>1, <2>1 DEF Hands
<1>8. \A p \in Idx(c) : Step(c, p) = g.idx => d[p].off + 1 >= g.off
  <2> SUFFICES ASSUME NEW p \in Idx(c), Step(c, p) = g.idx PROVE d[p].off + 1 >= g.off
    OBVIOUS
  <2>1. p = h.idx
    BY <1>2, <1>5, StepFacts
  <2> QED
    BY <1>1, <1>3, <1>5, <2>1
<1>9. ASSUME NEW i \in Occ(c, d), d[i].key = g.key PROVE d[i].off >= g.off
  <2>1. d[i].off >= h.off /\ d[i].off \in 1..c /\ Ring(c, home, d[i].off) = i
    BY <1>5, <1>9 DEF Held, Sits, home
  <2>2. d[i].off # h.off
    BY <1>1, <1>5, <1>9, <2>1
  <2> QED
    BY <1>1, <1>5, <2>1, <2>2
<1> QED
  BY <1>5, <1>6, <1>7, <1>8, <1>9 DEF Held, home

-----------------------------------------------------------------------------
(* What the buckets hold.                                                  *)

\* They hold the function g.
Stores(c, d, g) ==
  /\ \A i \in Occ(c, d) : d[i].key \in DOMAIN g /\ d[i].val = g[d[i].key]
  /\ \A k \in DOMAIN g : \E i \in Occ(c, d) : d[i].key = k

\* They will when the bucket in hand is put.
StoresBut(c, d, h, g) ==
  /\ h.key \in DOMAIN g /\ g[h.key] = h.val
  /\ \A i \in Occ(c, d) : d[i].key \in DOMAIN g /\ (d[i].key # h.key => d[i].val = g[d[i].key])
  /\ \A k \in DOMAIN g : k = h.key \/ \E i \in Occ(c, d) : d[i].key = k

LEMMA PlaceStores ==
  ASSUME NEW c \in Nat, c >= 2, NEW d \in [Idx(c) -> Buckets],
         Sits(c, d), Near(c, d, -1), Unique(c, d),
         NEW h, Held(c, d, h), d[h.idx].off = 0,
         NEW e, Becomes(c, d, e, h.idx, Entry(h)), NEW g, StoresBut(c, d, h, g)
  PROVE  Stores(c, e, g)
<1>0. d[h.idx].off < h.off
  BY DEF Held
<1>1. Fresh(c, d, h) /\ h.idx \in Idx(c) /\ Occ(c, e) = Occ(c, d) \cup {h.idx}
  BY <1>0, PlaceFresh, PlaceOrder
<1>2. e[h.idx].key = h.key /\ e[h.idx].val = h.val /\ \A i \in Idx(c) : i # h.idx => e[i] = d[i]
  BY DEF Becomes, Entry
<1>3. h.idx \notin Occ(c, d) /\ \A i \in Occ(c, d) : i \in Idx(c) /\ e[i] = d[i]
  BY <1>2 DEF Occ
<1>4. ASSUME NEW i \in Occ(c, e) PROVE e[i].key \in DOMAIN g /\ e[i].val = g[e[i].key]
  BY <1>1, <1>2, <1>3 DEF StoresBut, Fresh
<1>5. ASSUME NEW k \in DOMAIN g PROVE \E i \in Occ(c, e) : e[i].key = k
  BY <1>1, <1>2, <1>3 DEF StoresBut
<1> QED
  BY <1>4, <1>5 DEF Stores

LEMMA SwapStores ==
  ASSUME NEW c \in Nat, c >= 2, NEW d \in [Idx(c) -> Buckets],
         Sits(c, d), Near(c, d, -1), Unique(c, d),
         NEW h, Held(c, d, h), d[h.idx].off < h.off, d[h.idx].off # 0,
         NEW e, Becomes(c, d, e, h.idx, Entry(h)), NEW g, StoresBut(c, d, h, g),
         NEW n, n.key = d[h.idx].key, n.val = d[h.idx].val
  PROVE  StoresBut(c, e, n, g)
<1>1. Fresh(c, d, h) /\ h.idx \in Idx(c) /\ Occ(c, e) = Occ(c, d) \cup {h.idx}
  BY PlaceFresh, PlaceOrder
<1>2. e[h.idx].key = h.key /\ e[h.idx].val = h.val /\ \A i \in Idx(c) : i # h.idx => e[i] = d[i]
  BY DEF Becomes, Entry
<1>3. h.idx \in Occ(c, d) /\ Occ(c, e) = Occ(c, d) /\ \A i \in Occ(c, d) : i \in Idx(c)
  BY <1>1 DEF Occ
<1>4. n.key \in DOMAIN g /\ g[n.key] = n.val
  BY <1>1, <1>3 DEF StoresBut, Fresh
<1>5. ASSUME NEW i \in Occ(c, e)
      PROVE  e[i].key \in DOMAIN g /\ (e[i].key # n.key => e[i].val = g[e[i].key])
  <2>1. CASE i = h.idx
    BY <1>2, <2>1 DEF StoresBut
  <2>2. CASE i # h.idx
    BY <1>1, <1>2, <1>3, <2>2 DEF StoresBut, Fresh
  <2> QED
    BY <2>1, <2>2
<1>6. ASSUME NEW k \in DOMAIN g, k # n.key PROVE \E i \in Occ(c, e) : e[i].key = k
  <2>1. CASE k = h.key
    BY <1>2, <1>3, <2>1
  <2>2. CASE k # h.key
    <3>1. PICK i \in Occ(c, d) : d[i].key = k
      BY <2>2 DEF StoresBut
    <3>2. i # h.idx /\ e[i] = d[i]
      BY <1>2, <1>3, <1>6, <3>1
    <3> QED
      BY <1>3, <3>1, <3>2
  <2> QED
    BY <2>1, <2>2
<1> QED
  BY <1>4, <1>5, <1>6 DEF StoresBut

\* A new value moves nothing.
LEMMA ValueOrder ==
  ASSUME NEW c \in Nat, c >= 2, NEW d \in [Idx(c) -> Buckets], NEW i \in Idx(c),
         NEW e, NEW b, Becomes(c, d, e, i, b), b.off = d[i].off, b.key = d[i].key
  PROVE  /\ Occ(c, e) = Occ(c, d)
         /\ Sits(c, d) => Sits(c, e)
         /\ Unique(c, d) => Unique(c, e)
         /\ Near(c, d, -1) => Near(c, e, -1)
<1>1. \A j \in Idx(c) : e[j].off = d[j].off /\ e[j].key = d[j].key
  BY DEF Becomes
<1>2. Occ(c, e) = Occ(c, d) /\ \A j \in Occ(c, d) : j \in Idx(c)
  BY <1>1 DEF Occ
<1>3. Sits(c, d) => Sits(c, e)
  BY <1>1, <1>2 DEF Sits
<1>4. Unique(c, d) => Unique(c, e)
  BY <1>1, <1>2 DEF Unique
<1>5. ASSUME Near(c, d, -1) PROVE Near(c, e, -1)
  <2> SUFFICES ASSUME NEW j \in Idx(c), j # -1 PROVE e[Step(c, j)].off <= e[j].off + 1
    BY DEF Near
  <2>1. Step(c, j) \in Idx(c)
    BY StepIn
  <2>2. d[Step(c, j)].off <= d[j].off + 1
    BY <1>5 DEF Near
  <2> QED
    BY <1>1, <2>1, <2>2
<1> QED
  BY <1>2, <1>3, <1>4, <1>5

\* They hold g but for the key k.
Others(c, d, k, g) ==
  /\ \A j \in Occ(c, d) : d[j].key # k => d[j].key \in DOMAIN g /\ d[j].val = g[d[j].key]
  /\ \A l \in DOMAIN g : l = k \/ \E j \in Occ(c, d) : d[j].key = l

LEMMA ValueStores ==
  ASSUME NEW c, NEW d, NEW i \in Occ(c, d), Unique(c, d),
         NEW e, NEW b, Becomes(c, d, e, i, b), b.off = d[i].off, b.key = d[i].key,
         NEW g, b.key \in DOMAIN g, g[b.key] = b.val, Others(c, d, b.key, g)
  PROVE  Stores(c, e, g)
<1>1. i \in Idx(c) /\ e[i] = b /\ \A j \in Idx(c) : j # i => e[j] = d[j]
  BY DEF Becomes, Occ
<1>2. Occ(c, e) = Occ(c, d) /\ \A j \in Occ(c, d) : j \in Idx(c)
  BY <1>1 DEF Occ
<1>3. ASSUME NEW j \in Occ(c, e) PROVE e[j].key \in DOMAIN g /\ e[j].val = g[e[j].key]
  <2>1. CASE j = i
    BY <1>1, <2>1
  <2>2. CASE j # i
    BY <1>1, <1>2, <2>2 DEF Unique, Others
  <2> QED
    BY <2>1, <2>2
<1>4. ASSUME NEW k \in DOMAIN g PROVE \E j \in Occ(c, e) : e[j].key = k
  <2>1. CASE k = b.key
    BY <1>1, <1>2, <2>1
  <2>2. CASE k # b.key
    <3>1. PICK j \in Occ(c, d) : d[j].key = k
      BY <2>2 DEF Others
    <3>2. e[j] = d[j]
      BY <1>1, <1>2, <2>2, <3>1
    <3> QED
      BY <1>2, <3>1, <3>2
  <2> QED
    BY <2>1, <2>2
<1> QED
  BY <1>3, <1>4 DEF Stores

-----------------------------------------------------------------------------
(* Deletion.                                                               *)

(* An empty bucket whose follower may be too far from its first choice,    *)
(* but not by more than one place.                                         *)
Gap(c, d, z) ==
  /\ z \in Idx(c)
  /\ d[z].off = 0
  /\ Near(c, d, z)
  /\ \A p \in Idx(c) : Step(c, p) = z => d[Step(c, z)].off <= d[p].off + 2

LEMMA DeleteOrder ==
  ASSUME NEW c \in Nat, c >= 2, NEW d \in [Idx(c) -> Buckets],
         Sits(c, d), Near(c, d, -1), Unique(c, d), NEW i \in Occ(c, d),
         NEW e, Becomes(c, d, e, i, EmptyBucket)
  PROVE  /\ Sits(c, e) /\ Unique(c, e) /\ Gap(c, e, i)
         /\ Occ(c, e) = Occ(c, d) \ {i}
<1>1. i \in Idx(c) /\ e[i] = EmptyBucket /\ e[i].off = 0 /\ \A j \in Idx(c) : j # i => e[j] = d[j]
  BY DEF Becomes, Occ, EmptyBucket
<1>2. Occ(c, e) = Occ(c, d) \ {i} /\ \A j \in Occ(c, e) : e[j] = d[j] /\ j \in Occ(c, d)
  BY <1>1 DEF Occ
<1>3. Sits(c, e)
  BY <1>2 DEF Sits
<1>4. Unique(c, e)
  BY <1>2 DEF Unique
<1>5. \A j \in Idx(c) : d[j].off \in Nat /\ d[Step(c, j)].off <= d[j].off + 1
                        /\ Step(c, j) \in Idx(c) /\ Step(c, j) # j
  BY StepIn DEF Near, Buckets
<1>6. Near(c, e, i)
  <2> SUFFICES ASSUME NEW j \in Idx(c), j # i PROVE e[Step(c, j)].off <= e[j].off + 1
    BY DEF Near
  <2>1. CASE Step(c, j) = i
    BY <1>1, <1>5, <2>1
  <2>2. CASE Step(c, j) # i
    BY <1>1, <1>5, <2>2
  <2> QED
    BY <2>1, <2>2
<1>7. ASSUME NEW p \in Idx(c), Step(c, p) = i PROVE e[Step(c, i)].off <= e[p].off + 2
  <2>1. p # i /\ Step(c, i) # i /\ Step(c, i) \in Idx(c)
    BY <1>1, <1>5, <1>7
  <2>2. d[i].off <= d[p].off + 1 /\ d[Step(c, i)].off <= d[i].off + 1
    BY <1>1, <1>5, <1>7
  <2> QED
    BY <1>1, <1>5, <2>1, <2>2
<1> QED
  BY <1>1, <1>2, <1>3, <1>4, <1>6, <1>7 DEF Gap

LEMMA DeleteStores ==
  ASSUME NEW c, NEW d, Unique(c, d), NEW i \in Occ(c, d),
         NEW e, Becomes(c, d, e, i, EmptyBucket), Occ(c, e) = Occ(c, d) \ {i},
         NEW g, NEW k, k = d[i].key, Others(c, d, k, g)
  PROVE  Stores(c, e, Drop(g, k))
<1>1. \A j \in Occ(c, e) : j \in Occ(c, d) /\ j # i /\ e[j] = d[j]
  BY DEF Becomes, Occ
<1>2. DOMAIN Drop(g, k) = DOMAIN g \ {k} /\ \A l \in DOMAIN g \ {k} : Drop(g, k)[l] = g[l]
  BY DEF Drop
<1>3. ASSUME NEW j \in Occ(c, e)
      PROVE  e[j].key \in DOMAIN Drop(g, k) /\ e[j].val = Drop(g, k)[e[j].key]
  <2>1. d[j].key # k
    BY <1>1 DEF Unique
  <2> QED
    BY <1>1, <1>2, <2>1 DEF Others
<1>4. ASSUME NEW l \in DOMAIN Drop(g, k) PROVE \E j \in Occ(c, e) : e[j].key = l
  <2>1. PICK j \in Occ(c, d) : d[j].key = l /\ l # k
    BY <1>2 DEF Others
  <2>2. j \in Occ(c, e)
    BY <2>1
  <2> QED
    BY <1>1, <2>1, <2>2
<1> QED
  BY <1>3, <1>4 DEF Stores

\* The follower moves back.
LEMMA ShiftOrder ==
  ASSUME NEW c \in Nat, c >= 2, NEW d \in [Idx(c) -> Buckets],
         Sits(c, d), Unique(c, d), NEW z, Gap(c, d, z),
         NEW n, n = Step(c, z), d[n].off > 1,
         NEW e \in [Idx(c) -> Buckets],
         e[z].off = d[n].off - 1, e[z].key = d[n].key, e[z].val = d[n].val, e[n].off = 0,
         \A j \in Idx(c) : j # z /\ j # n => e[j] = d[j]
  PROVE  /\ Sits(c, e) /\ Unique(c, e) /\ Gap(c, e, n)
         /\ n \in Occ(c, d) /\ z \notin Occ(c, d)
         /\ Occ(c, e) = (Occ(c, d) \cup {z}) \ {n}
         /\ \A g : Stores(c, d, g) => Stores(c, e, g)
<1>1. z \in Idx(c) /\ d[z].off = 0 /\ n \in Idx(c) /\ n # z
  BY StepIn DEF Gap
<1>2. \A j \in Idx(c) : d[j].off \in Nat /\ e[j].off \in Nat
  BY DEF Buckets
<1>3. n \in Occ(c, d) /\ z \notin Occ(c, d) /\ z \in Occ(c, e) /\ n \notin Occ(c, e)
  BY <1>1, <1>2 DEF Occ
<1>4. Occ(c, e) = (Occ(c, d) \cup {z}) \ {n}
  BY <1>1, <1>2, <1>3 DEF Occ
<1>5. \A j \in Occ(c, e) : j # z => j \in Occ(c, d) /\ j # n /\ e[j] = d[j]
  BY <1>3, <1>4 DEF Occ
<1>6. Sits(c, e)
  <2> SUFFICES ASSUME NEW i \in Occ(c, e)
               PROVE  /\ e[i].key \in Keys /\ e[i].off \in 1..c
                      /\ Ring(c, Hash[e[i].key] % c, e[i].off) = i
    BY DEF Sits
  <2>1. CASE i = z
    <3> DEFINE home == Hash[d[n].key] % c
               o == d[n].off - 1
    <3>1. d[n].key \in Keys /\ d[n].off \in 1..c /\ Ring(c, home, d[n].off) = n
      BY <1>3 DEF Sits
    <3>2. home \in Idx(c) /\ o \in 1..c /\ o < c /\ o + 1 = d[n].off
      BY <3>1, Homes
    <3> HIDE DEF home, o
    <3>3. Ring(c, home, o) \in Idx(c)
      BY <3>2, RingStep
    <3>4. Step(c, Ring(c, home, o)) = Step(c, z)
      <4>1. Ring(c, home, o + 1) = Step(c, Ring(c, home, o))
        BY <3>2, RingNext
      <4> QED
        BY <3>1, <3>2, <4>1
    <3>5. Ring(c, home, o) = z
      BY <1>1, <3>3, <3>4, StepFacts
    <3> QED
      BY <2>1, <3>1, <3>2, <3>5 DEF home, o
  <2>2. CASE i # z
    BY <1>5, <2>2 DEF Sits
  <2> QED
    BY <2>1, <2>2
<1>7. Unique(c, e)
  <2> SUFFICES ASSUME NEW i \in Occ(c, e), NEW j \in Occ(c, e), e[i].key = e[j].key PROVE i = j
    BY DEF Unique
  <2>1. CASE i = z
    BY <1>3, <1>5, <2>1 DEF Unique
  <2>2. CASE j = z
    BY <1>3, <1>5, <2>2 DEF Unique
  <2>3. CASE i # z /\ j # z
    BY <1>5, <2>3 DEF Unique
  <2> QED
    BY <2>1, <2>2, <2>3
<1>8. \A j \in Idx(c) : j # z => d[Step(c, j)].off <= d[j].off + 1
  BY DEF Gap, Near
<1>9. \A j \in Idx(c) : /\ Step(c, j) \in Idx(c) /\ Step(c, j) # j
                        /\ Step(c, j) = n => j = z
  BY <1>1, StepFacts
<1>10. Near(c, e, n)
  <2> SUFFICES ASSUME NEW j \in Idx(c), j # n PROVE e[Step(c, j)].off <= e[j].off + 1
    BY DEF Near
  <2>1. CASE j = z
    BY <1>2, <2>1
  <2>2. CASE j # z /\ Step(c, j) = z
    <3>1. d[n].off <= d[j].off + 2
      BY <2>2 DEF Gap
    <3> QED
      BY <1>1, <1>2, <2>2, <3>1
  <2>3. CASE j # z /\ Step(c, j) # z
    BY <1>8, <1>9, <2>3
  <2> QED
    BY <2>1, <2>2, <2>3
<1>11. ASSUME NEW p \in Idx(c), Step(c, p) = n PROVE e[Step(c, n)].off <= e[p].off + 2
  <2>1. p = z
    BY <1>9, <1>11
  <2>2. Step(c, n) \in Idx(c) /\ Step(c, n) # n /\ d[Step(c, n)].off <= d[n].off + 1
    BY <1>1, <1>8, <1>9
  <2>3. CASE Step(c, n) = z
    BY <1>1, <1>2, <2>1, <2>3
  <2>4. CASE Step(c, n) # z
    BY <1>1, <1>2, <2>1, <2>2, <2>4
  <2> QED
    BY <2>3, <2>4
<1>12. ASSUME NEW g, Stores(c, d, g) PROVE Stores(c, e, g)
  <2>1. ASSUME NEW i \in Occ(c, e) PROVE e[i].key \in DOMAIN g /\ e[i].val = g[e[i].key]
    BY <1>3, <1>5, <1>12 DEF Stores
  <2>2. ASSUME NEW k \in DOMAIN g PROVE \E i \in Occ(c, e) : e[i].key = k
    <3>1. PICK j \in Occ(c, d) : d[j].key = k
      BY <1>12 DEF Stores
    <3>2. CASE j = n
      BY <1>3, <3>1, <3>2
    <3>3. CASE j # n
      <4>1. j \in Occ(c, e) /\ j # z
        BY <1>3, <1>4, <3>3
      <4> QED
        BY <1>5, <3>1, <4>1
    <3> QED
      BY <3>2, <3>3
  <2> QED
    BY <2>1, <2>2 DEF Stores
<1> QED
  BY <1>1, <1>3, <1>4, <1>6, <1>7, <1>10, <1>11, <1>12 DEF Gap

LEMMA ShiftEnds ==
  ASSUME NEW c \in Nat, c >= 2, NEW d \in [Idx(c) -> Buckets], NEW z, Gap(c, d, z),
         ~(d[Step(c, z)].off > 1)
  PROVE  Near(c, d, -1)
<1>1. z \in Idx(c) /\ d[z].off = 0 /\ Step(c, z) \in Idx(c)
  BY StepIn DEF Gap
<1>2. d[Step(c, z)].off \in Nat
  BY <1>1 DEF Buckets
<1> QED
  BY <1>1, <1>2 DEF Gap, Near

-----------------------------------------------------------------------------
(* The inductive invariant.                                                *)

Sound(m) ==
  /\ m = [cap |-> m.cap, size |-> m.size, data |-> m.data]
  /\ m.cap \in Nat /\ m.cap % 2 = 0
  /\ m.data \in [Idx(m.cap) -> Buckets]
  /\ Sits(m.cap, m.data)
  /\ Unique(m.cap, m.data)
  /\ m.size = Cardinality(Occ(m.cap, m.data))

Ordered(m) == Near(m.cap, m.data, -1)

Holds(m, g) == Stores(m.cap, m.data, g)
HoldsBut(m, h, g) == Held(m.cap, m.data, h) /\ StoresBut(m.cap, m.data, h, g)

\* While the table grows: the buckets of the old one that the iterator has passed.
Passed(m, i) == {j \in Occ(m.cap, m.data) : j < i}
Moved(m, i, g) == [k \in {m.data[j].key : j \in Passed(m, i)} |-> g[k]]

Growing(m, o, i, g) ==
  /\ Sound(o) /\ Ordered(o) /\ Holds(o, g) /\ o.size * 2 <= o.cap
  /\ i \in Nat
  /\ m.cap = IF o.cap = 0 THEN 4 ELSE o.cap * 2

Calls == [key : Keys, val : Int, then : {"idle", "count"}]

MapInv ==
  /\ pc \in {"idle", "grow", "regrow", "place", "shift", "count"}
  /\ Sound(table)
  /\ pc # "shift" => Ordered(table)
  /\ pc = "shift" => Gap(table.cap, table.data, hole)
  /\ pc \in {"idle", "shift", "count"} => Holds(table, content) /\ table.size * 2 <= table.cap
  /\ pc \in {"place", "grow", "regrow", "count"} => call \in Calls
  /\ pc \in {"place", "count"} => call.key \in DOMAIN content
  /\ pc = "place" => HoldsBut(table, hand, content) /\ table.size * 2 < table.cap
  /\ pc \in {"grow", "regrow"} => Growing(table, old, iter, content)
  /\ pc = "grow" => /\ Holds(table, Moved(old, iter, content))
                    /\ table.size = Cardinality(Passed(old, iter))
  /\ pc = "regrow" => /\ HoldsBut(table, hand, Moved(old, iter, content))
                      /\ Fresh(table.cap, table.data, hand)
                      /\ table.size + 1 = Cardinality(Passed(old, iter))

-----------------------------------------------------------------------------
(* Facts about a table.                                                    *)

LEMMA OccFinite ==
  ASSUME NEW c \in Nat, NEW d
  PROVE  /\ IsFiniteSet(Occ(c, d)) /\ Cardinality(Occ(c, d)) \in Nat
         /\ Cardinality(Occ(c, d)) < c => \E z \in Idx(c) : d[z].off = 0
<1>1. IsFiniteSet(Idx(c)) /\ Cardinality(Idx(c)) = c
  <2>1. 0 \in Int /\ c - 1 \in Int
    OBVIOUS
  <2>2. IsFiniteSet(0..(c - 1)) /\ Cardinality(0..(c - 1)) = IF 0 > c - 1 THEN 0 ELSE (c - 1) - 0 + 1
    BY <2>1, FS_Interval
  <2> QED
    BY <2>2 DEF Idx
<1>2. Occ(c, d) \in SUBSET Idx(c)
  BY DEF Occ
<1>3. IsFiniteSet(Occ(c, d)) /\ Cardinality(Occ(c, d)) \in Nat
  BY <1>1, <1>2, FS_Subset, FS_CardinalityType
<1>4. ASSUME Cardinality(Occ(c, d)) < c PROVE \E z \in Idx(c) : d[z].off = 0
  <2>1. Occ(c, d) # Idx(c)
    BY <1>1, <1>3, <1>4
  <2> QED
    BY <1>2, <2>1 DEF Occ
<1> QED
  BY <1>3, <1>4

LEMMA TableFacts ==
  ASSUME NEW m, Sound(m)
  PROVE  /\ m.cap \in Nat /\ m.cap % 2 = 0 /\ m.data \in [Idx(m.cap) -> Buckets]
         /\ m.size \in Nat
         /\ Idx(m.cap) # {} => m.cap >= 2
         /\ m.cap # 0 => m.cap >= 2
         /\ m.size < m.cap => \E z \in Idx(m.cap) : m.data[z].off = 0
<1>1. m.cap \in Nat /\ m.cap % 2 = 0 /\ m.data \in [Idx(m.cap) -> Buckets]
      /\ m.size = Cardinality(Occ(m.cap, m.data))
  BY DEF Sound
<1>2. Cardinality(Occ(m.cap, m.data)) \in Nat
      /\ (Cardinality(Occ(m.cap, m.data)) < m.cap => \E z \in Idx(m.cap) : m.data[z].off = 0)
  BY <1>1, OccFinite
<1>3. m.cap # 0 => m.cap >= 2
  BY <1>1
<1>4. m.cap = 0 => Idx(m.cap) = {}
  BY DEF Idx
<1> QED
  BY <1>1, <1>2, <1>3, <1>4

\* The search finds the entry of a key where it is, and nothing else.
LEMMA HitsAre ==
  ASSUME NEW m, Sound(m), Ordered(m), NEW key \in Keys, NEW i \in Occ(m.cap, m.data),
         m.data[i].key = key
  PROVE  m.data[i].off \in Hits(m, key)
<1> DEFINE c == m.cap
           d == m.data
           n == d[i].off
           home == Home(m, key)
<1>1. c \in Nat \ {0} /\ c \in Nat /\ d \in [Idx(c) -> Buckets]
  BY TableFacts DEF Occ
<1>2. n \in 1..c /\ Ring(c, home, n) = i /\ home \in Idx(c)
  BY <1>1, HomeIs DEF Sound, Sits, Home
<1>3. Near(c, d, -1)
  BY DEF Ordered
<1>4. \A j \in 1..c : Nth(m, key, j) = Ring(c, home, j) /\ Nth(m, key, j) \in Idx(c)
  BY <1>1, NthIs
<1>5. \A j \in 1..n : d[Ring(c, home, j)].off >= j
  <2>1. d[Ring(c, home, n)].off >= n
    BY <1>2
  <2> HIDE DEF c, d, n, home
  <2> QED
    BY <1>1, <1>2, <1>3, <2>1, Path
<1>6. \A j \in 1..n : j <= d[Nth(m, key, j)].off
  <2> SUFFICES ASSUME NEW j \in 1..n PROVE j <= d[Nth(m, key, j)].off
    OBVIOUS
  <2>1. Nth(m, key, j) = Ring(c, home, j) /\ d[Nth(m, key, j)].off \in Nat
    BY <1>1, <1>2, <1>4 DEF Buckets
  <2>2. d[Ring(c, home, j)].off >= j
    BY <1>5
  <2> QED
    BY <1>2, <2>1, <2>2
<1>7. d[Nth(m, key, n)].key = key
  BY <1>2, <1>4
<1> QED
  BY <1>2, <1>6, <1>7 DEF Hits

LEMMA HitSound ==
  ASSUME NEW m, Sound(m), NEW key \in Keys, NEW n \in Hits(m, key)
  PROVE  Nth(m, key, n) \in Occ(m.cap, m.data) /\ m.data[Nth(m, key, n)].key = key
<1>1. n \in 1..m.cap /\ n <= m.data[Nth(m, key, n)].off /\ m.data[Nth(m, key, n)].key = key
  BY DEF Hits
<1>2. m.cap \in Nat \ {0} /\ m.data \in [Idx(m.cap) -> Buckets]
  BY <1>1, TableFacts
<1>3. Nth(m, key, n) \in Idx(m.cap)
  BY <1>1, <1>2, NthIs
<1> QED
  BY <1>1, <1>3 DEF Occ

LEMMA FindIs ==
  ASSUME NEW m, Sound(m), NEW key \in Keys, Hits(m, key) # {}
  PROVE  /\ a0_map_find(m, key) \in Occ(m.cap, m.data)
         /\ m.data[a0_map_find(m, key)].key = key
<1> DEFINE S == Hits(m, key)
           n == CHOOSE d \in S : \A e \in S : d <= e
<1>1. S \in SUBSET Nat
  BY DEF Hits
<1>2. \E d \in S : \A e \in S : d <= e
  <2> HIDE DEF S
  <2> QED BY <1>1, Least DEF S
<1>3. n \in S
  BY <1>2
<1> QED
  <2> HIDE DEF n
  <2>1. Nth(m, key, n) \in Occ(m.cap, m.data) /\ m.data[Nth(m, key, n)].key = key
    BY <1>3, HitSound
  <2> QED
    BY <2>1 DEF a0_map_find, n

LEMMA HasIs ==
  ASSUME NEW m, Sound(m), Ordered(m), NEW key \in Keys
  PROVE  a0_map_has(m, key) <=> \E i \in Occ(m.cap, m.data) : m.data[i].key = key
<1>1. ASSUME a0_map_has(m, key) PROVE \E i \in Occ(m.cap, m.data) : m.data[i].key = key
  BY <1>1, FindIs DEF a0_map_has
<1>2. ASSUME NEW i \in Occ(m.cap, m.data), m.data[i].key = key PROVE a0_map_has(m, key)
  <2>1. Hits(m, key) # {}
    BY <1>2, HitsAre
  <2>2. m.cap \in Nat /\ m.size = Cardinality(Occ(m.cap, m.data))
    BY DEF Sound
  <2>3. IsFiniteSet(Occ(m.cap, m.data)) /\ Occ(m.cap, m.data) # {}
    BY <2>2, OccFinite
  <2>4. m.size # 0
    BY <2>2, <2>3, FS_EmptySet
  <2> QED
    BY <2>1, <2>4 DEF a0_map_has
<1> QED
  BY <1>1, <1>2

-----------------------------------------------------------------------------
(* Table n is table m with size s, and with b in bucket i.                 *)

Rewritten(m, n, i, b, s) ==
  /\ n = [cap |-> m.cap, size |-> s, data |-> n.data]
  /\ n.cap = m.cap /\ n.size = s
  /\ Becomes(m.cap, m.data, n.data, i, b)

LEMMA Record ==
  ASSUME NEW c, NEW s, NEW d, NEW i, NEW b, NEW m, m = [cap |-> c, size |-> s, data |-> d], NEW n
  PROVE  /\ [m EXCEPT !.data[i] = b] = [cap |-> c, size |-> s, data |-> [d EXCEPT ![i] = b]]
         /\ [m EXCEPT !.size = n] = [cap |-> c, size |-> n, data |-> d]
OBVIOUS

Sized(m, i, b, n) == [m EXCEPT !.data[i] = b, !.size = n]

LEMMA Record2 ==
  ASSUME NEW m, m = [cap |-> m.cap, size |-> m.size, data |-> m.data], NEW i, NEW b, NEW n
  PROVE  Sized(m, i, b, n) = [cap |-> m.cap, size |-> n, data |-> [m.data EXCEPT ![i] = b]]
<1>1. PICK m1 : m1 = [m EXCEPT !.data[i] = b]
  OBVIOUS
<1>2. m1 = [cap |-> m.cap, size |-> m.size, data |-> [m.data EXCEPT ![i] = b]]
  BY <1>1, Record
<1>3. [m1 EXCEPT !.size = n] = [cap |-> m.cap, size |-> n, data |-> [m.data EXCEPT ![i] = b]]
  BY <1>2, Record
<1>4. Sized(m, i, b, n) = [m1 EXCEPT !.size = n]
  BY <1>1, Zenon DEF Sized
<1> QED
  BY <1>3, <1>4, Zenon

LEMMA Rewriting ==
  ASSUME NEW m, Sound(m), NEW i \in Idx(m.cap), NEW b \in Buckets
  PROVE  /\ Rewritten(m, [m EXCEPT !.data[i] = b], i, b, m.size)
         /\ \A n : Rewritten(m, Sized(m, i, b, n), i, b, n)
<1>1. Becomes(m.cap, m.data, [m.data EXCEPT ![i] = b], i, b)
  BY Becoming DEF Sound
<1>2. m = [cap |-> m.cap, size |-> m.size, data |-> m.data]
  BY DEF Sound
<1>3. [m EXCEPT !.data[i] = b] = [cap |-> m.cap, size |-> m.size, data |-> [m.data EXCEPT ![i] = b]]
  BY <1>2, Record
<1>4. ASSUME NEW n PROVE Rewritten(m, Sized(m, i, b, n), i, b, n)
  <2>1. Sized(m, i, b, n) = [cap |-> m.cap, size |-> n, data |-> [m.data EXCEPT ![i] = b]]
    BY <1>2, Record2
  <2> QED
    BY <1>1, <2>1 DEF Rewritten
<1>5. Rewritten(m, [m EXCEPT !.data[i] = b], i, b, m.size)
  BY <1>1, <1>3 DEF Rewritten
<1> QED
  BY <1>4, <1>5

LEMMA RewritingVal ==
  ASSUME NEW m, Sound(m), NEW i \in Idx(m.cap), NEW v \in Int
  PROVE  Rewritten(m, [m EXCEPT !.data[i].val = v], i,
                   [off |-> m.data[i].off, key |-> m.data[i].key, val |-> v], m.size)
<1> DEFINE b == [off |-> m.data[i].off, key |-> m.data[i].key, val |-> v]
<1>1. m.data[i] \in Buckets /\ m.data \in [Idx(m.cap) -> Buckets]
  BY DEF Sound
<1>2. b \in Buckets /\ [m.data[i] EXCEPT !.val = v] = b
  BY <1>1 DEF Buckets
<1>3. [m EXCEPT !.data[i].val = v] = [m EXCEPT !.data[i] = b]
  BY <1>2 DEF Sound
<1> QED
  <2> HIDE DEF b
  <2>1. Rewritten(m, [m EXCEPT !.data[i] = b], i, b, m.size)
    BY <1>2, Rewriting
  <2> QED
    BY <1>3, <2>1 DEF b

LEMMA StillSound ==
  ASSUME NEW m, Sound(m), NEW n, NEW i, NEW b, NEW s, Rewritten(m, n, i, b, s),
         Sits(m.cap, n.data), Unique(m.cap, n.data), s = Cardinality(Occ(m.cap, n.data))
  PROVE  Sound(n)
<1>1. n.cap = m.cap /\ n.size = s /\ n.data \in [Idx(m.cap) -> Buckets]
      /\ n = [cap |-> n.cap, size |-> n.size, data |-> n.data]
  BY DEF Rewritten, Becomes
<1>2. m.cap \in Nat /\ m.cap % 2 = 0
  BY DEF Sound
<1> QED
  BY <1>1, <1>2 DEF Sound

LEMMA HandFacts ==
  ASSUME NEW m, Sound(m), NEW h, Held(m.cap, m.data, h)
  PROVE  /\ m.cap \in Nat /\ m.cap >= 2 /\ m.data \in [Idx(m.cap) -> Buckets]
         /\ h.idx \in Idx(m.cap) /\ Entry(h) \in Buckets
         /\ m.data[h.idx].off \in Nat /\ h.off \in Nat /\ h.off > 0 /\ h.key \in Keys
<1>1. /\ h.off \in 1..m.cap /\ h.key \in Keys /\ h.val \in Int
      /\ h.idx = Ring(m.cap, Hash[h.key] % m.cap, h.off)
  BY DEF Held, Hands
<1>2. m.cap \in Nat /\ m.cap >= 2 /\ m.data \in [Idx(m.cap) -> Buckets]
  BY <1>1, TableFacts
<1>3. Hash[h.key] % m.cap \in Idx(m.cap)
  BY <1>1, <1>2, Homes
<1>4. h.idx \in Idx(m.cap)
  BY <1>1, <1>2, <1>3, RingStep
<1>5. Entry(h) \in Buckets /\ h.off \in Nat /\ h.off > 0
  BY <1>1, <1>2 DEF Entry, Buckets
<1> QED
  BY <1>1, <1>2, <1>4, <1>5 DEF Buckets

LEMMA PutTable ==
  ASSUME NEW m, Sound(m), Ordered(m), NEW h, Held(m.cap, m.data, h), m.data[h.idx].off < h.off,
         NEW n, NEW s, Rewritten(m, n, h.idx, Entry(h), s),
         s = IF m.data[h.idx].off = 0 THEN m.size + 1 ELSE m.size
  PROVE  Sound(n) /\ Ordered(n)
<1> DEFINE c == m.cap
           d == m.data
           e == n.data
<1>1. /\ c \in Nat /\ c >= 2 /\ d \in [Idx(c) -> Buckets] /\ Sits(c, d) /\ Near(c, d, -1)
      /\ Unique(c, d) /\ Becomes(c, d, e, h.idx, Entry(h)) /\ m.size = Cardinality(Occ(c, d))
      /\ Held(c, d, h) /\ d[h.idx].off < h.off /\ h.idx \in Idx(c) /\ n.cap = c
  BY HandFacts DEF Sound, Ordered, Rewritten
<1>2. s = IF d[h.idx].off = 0 THEN m.size + 1 ELSE m.size
  OBVIOUS
<1> HIDE DEF c, d, e
<1>3. Sits(c, e) /\ Near(c, e, -1) /\ Unique(c, e) /\ Occ(c, e) = Occ(c, d) \cup {h.idx}
  BY <1>1, PlaceOrder
<1>4. s = Cardinality(Occ(c, e))
  <2>1. IsFiniteSet(Occ(c, d))
    BY <1>1, OccFinite
  <2>2. h.idx \in Occ(c, d) <=> d[h.idx].off # 0
    BY <1>1 DEF Occ
  <2>3. Cardinality(Occ(c, d) \cup {h.idx})
          = IF h.idx \in Occ(c, d) THEN Cardinality(Occ(c, d)) ELSE Cardinality(Occ(c, d)) + 1
    BY <2>1, FS_AddElement
  <2> QED
    BY <1>1, <1>2, <1>3, <2>2, <2>3
<1>5. Sound(n)
  BY <1>3, <1>4, StillSound DEF c, e
<1> QED
  BY <1>1, <1>3, <1>5 DEF Ordered, c, e

LEMMA ValTable ==
  ASSUME NEW m, Sound(m), Ordered(m), NEW i \in Idx(m.cap),
         NEW n, NEW b, Rewritten(m, n, i, b, m.size), b.off = m.data[i].off, b.key = m.data[i].key
  PROVE  Sound(n) /\ Ordered(n) /\ Occ(m.cap, n.data) = Occ(m.cap, m.data)
<1> DEFINE c == m.cap
           d == m.data
           e == n.data
<1>1. /\ c \in Nat /\ c >= 2 /\ d \in [Idx(c) -> Buckets] /\ Sits(c, d) /\ Near(c, d, -1)
      /\ Unique(c, d) /\ Becomes(c, d, e, i, b) /\ m.size = Cardinality(Occ(c, d)) /\ n.cap = c
      /\ b.off = d[i].off /\ b.key = d[i].key /\ i \in Idx(c)
  BY TableFacts DEF Sound, Ordered, Rewritten
<1> HIDE DEF c, d, e
<1>2. Sits(c, e) /\ Near(c, e, -1) /\ Unique(c, e) /\ Occ(c, e) = Occ(c, d)
  BY <1>1, ValueOrder
<1>3. Sound(n)
  BY <1>1, <1>2, StillSound DEF c, d, e
<1> QED
  BY <1>1, <1>2, <1>3 DEF Ordered, c, d, e

LEMMA DelTable ==
  ASSUME NEW m, Sound(m), Ordered(m), NEW i \in Occ(m.cap, m.data),
         NEW n, Rewritten(m, n, i, EmptyBucket, m.size - 1)
  PROVE  Sound(n) /\ Gap(n.cap, n.data, i) /\ n.size < m.size
         /\ Occ(m.cap, n.data) = Occ(m.cap, m.data) \ {i}
<1> DEFINE c == m.cap
           d == m.data
           e == n.data
<1>1. /\ c \in Nat /\ c >= 2 /\ d \in [Idx(c) -> Buckets] /\ Sits(c, d) /\ Near(c, d, -1)
      /\ Unique(c, d) /\ Becomes(c, d, e, i, EmptyBucket) /\ m.size = Cardinality(Occ(c, d))
      /\ n.cap = c /\ n.size = m.size - 1 /\ i \in Occ(c, d) /\ m.size \in Nat
  BY TableFacts DEF Sound, Ordered, Rewritten, Occ
<1> HIDE DEF c, d, e
<1>2. Sits(c, e) /\ Unique(c, e) /\ Gap(c, e, i) /\ Occ(c, e) = Occ(c, d) \ {i}
  BY <1>1, DeleteOrder
<1>3. m.size - 1 = Cardinality(Occ(c, e))
  BY <1>1, <1>2, OccFinite, FS_RemoveElement
<1>4. Sound(n)
  BY <1>2, <1>3, StillSound DEF c, e
<1>5. n.size < m.size
  BY <1>1
<1> QED
  BY <1>1, <1>2, <1>4, <1>5 DEF c, d, e

LEMMA Record3 ==
  ASSUME NEW m, m = [cap |-> m.cap, size |-> m.size, data |-> m.data], NEW i, NEW b, NEW j, NEW b2,
         NEW n, n = [m EXCEPT !.data[i] = b, !.data[j] = b2]
  PROVE  n = [cap |-> m.cap, size |-> m.size, data |-> [[m.data EXCEPT ![i] = b] EXCEPT ![j] = b2]]
<1>1. PICK m1 : m1 = [m EXCEPT !.data[i] = b]
  OBVIOUS
<1>2. m1 = [cap |-> m.cap, size |-> m.size, data |-> [m.data EXCEPT ![i] = b]]
  BY <1>1, Record
<1>3. [m1 EXCEPT !.data[j] = b2]
        = [cap |-> m.cap, size |-> m.size, data |-> [[m.data EXCEPT ![i] = b] EXCEPT ![j] = b2]]
  BY <1>2, Record
<1>4. n = [m1 EXCEPT !.data[j] = b2]
  BY <1>1, Zenon
<1> QED
  BY <1>3, <1>4, Zenon

Shifted(m, z, j) ==
  [m EXCEPT !.data[z] = [m.data[j] EXCEPT !.off = @ - 1], !.data[j] = EmptyBucket]

LEMMA ShiftTable ==
  ASSUME NEW m, Sound(m), NEW z, Gap(m.cap, m.data, z), NEW j, j = Step(m.cap, z), m.data[j].off > 1,
         NEW n, n = Shifted(m, z, j)
  PROVE  /\ Sound(n) /\ Gap(n.cap, n.data, j) /\ n.cap = m.cap /\ n.size = m.size
         /\ \A g : Holds(m, g) => Holds(n, g)
<1> DEFINE c == m.cap
           d == m.data
           e == n.data
           b == [d[j] EXCEPT !.off = @ - 1]
<1>1. /\ c \in Nat /\ c % 2 = 0 /\ d \in [Idx(c) -> Buckets] /\ Sits(c, d) /\ Unique(c, d)
      /\ m.size = Cardinality(Occ(c, d)) /\ m = [cap |-> c, size |-> m.size, data |-> d]
      /\ Gap(c, d, z) /\ j = Step(c, z) /\ d[j].off > 1
  BY DEF Sound
<1>2. z \in Idx(c) /\ c >= 2
  BY TableFacts DEF Gap
<1>3. j \in Idx(c) /\ j # z
  BY <1>1, <1>2, StepIn
<1>4. /\ b \in Buckets /\ EmptyBucket \in Buckets /\ EmptyBucket.off = 0
      /\ b.off = d[j].off - 1 /\ b.key = d[j].key /\ b.val = d[j].val
  BY <1>1, <1>3 DEF Buckets, EmptyBucket
<1>5. n = [cap |-> c, size |-> m.size, data |-> [[d EXCEPT ![z] = b] EXCEPT ![j] = EmptyBucket]]
  BY <1>1, Record3 DEF Shifted
<1>6. n.cap = c /\ n.size = m.size /\ n = [cap |-> n.cap, size |-> n.size, data |-> e]
      /\ e = [[d EXCEPT ![z] = b] EXCEPT ![j] = EmptyBucket]
  BY <1>5
<1> HIDE DEF b
<1>7. /\ e \in [Idx(c) -> Buckets] /\ e[z] = b /\ e[j] = EmptyBucket
      /\ \A x \in Idx(c) : x # z /\ x # j => e[x] = d[x]
  BY <1>1, <1>2, <1>3, <1>4, <1>6
<1> HIDE DEF c, d, e
<1>8. /\ e[z].off = d[j].off - 1 /\ e[z].key = d[j].key /\ e[z].val = d[j].val /\ e[j].off = 0
  BY <1>4, <1>7
<1>9. /\ Sits(c, e) /\ Unique(c, e) /\ Gap(c, e, j)
      /\ j \in Occ(c, d) /\ z \notin Occ(c, d)
      /\ Occ(c, e) = (Occ(c, d) \cup {z}) \ {j}
      /\ \A g : Stores(c, d, g) => Stores(c, e, g)
  BY <1>1, <1>2, <1>7, <1>8, ShiftOrder
<1>10. m.size = Cardinality(Occ(c, e))
  <2>1. IsFiniteSet(Occ(c, d)) /\ Cardinality(Occ(c, d)) \in Nat
    BY <1>1, OccFinite
  <2>2. IsFiniteSet(Occ(c, d) \cup {z}) /\ Cardinality(Occ(c, d) \cup {z}) = Cardinality(Occ(c, d)) + 1
    BY <1>9, <2>1, FS_AddElement
  <2>3. Cardinality((Occ(c, d) \cup {z}) \ {j}) = Cardinality(Occ(c, d) \cup {z}) - 1
    BY <1>9, <2>2, FS_RemoveElement
  <2> QED
    BY <1>1, <1>9, <2>1, <2>2, <2>3
<1>11. Sound(n)
  BY <1>1, <1>6, <1>7, <1>9, <1>10 DEF Sound, e
<1> QED
  BY <1>6, <1>9, <1>11 DEF Holds, c, d, e

-----------------------------------------------------------------------------
(* The bucket of a new entry.                                              *)

LEMMA NewHeld ==
  ASSUME NEW m, Sound(m), m.size * 2 < m.cap, NEW key \in Keys, NEW val \in Int
  PROVE  /\ Held(m.cap, m.data, NewBucket(m, key, val))
         /\ NewBucket(m, key, val).key = key /\ NewBucket(m, key, val).val = val
<1> DEFINE c == m.cap
           d == m.data
           h == NewBucket(m, key, val)
<1>1. c \in Nat /\ c >= 2 /\ c # 0 /\ d \in [Idx(c) -> Buckets] /\ Sits(c, d)
  BY TableFacts DEF Sound
<1>2. h.off = 1 /\ h.key = key /\ h.val = val /\ h.idx = Hash[key] % c
      /\ h = [off |-> 1, key |-> key, val |-> val, idx |-> Hash[key] % c]
  BY DEF NewBucket, Home
<1>3. Hash[key] % c \in Idx(c)
  BY <1>1, Homes
<1> HIDE DEF c, d, h
<1>4. h \in Hands /\ h.off \in 1..c
  BY <1>1, <1>2, <1>3 DEF Hands, Idx
<1>5. h.idx = Ring(c, Hash[h.key] % c, h.off)
  BY <1>1, <1>2, <1>3, RingStep
<1>6. ASSUME NEW p \in Idx(c) PROVE d[p].off + 1 >= h.off
  BY <1>1, <1>2 DEF Buckets
<1>7. ASSUME NEW i \in Occ(c, d) PROVE d[i].off >= h.off
  BY <1>1, <1>2 DEF Sits
<1> QED
  BY <1>2, <1>4, <1>5, <1>6, <1>7 DEF Held, c, d, h

LEMMA NewStores ==
  ASSUME NEW m, Sound(m), m.size * 2 < m.cap, NEW key \in Keys, NEW val \in Int, NEW g, Holds(m, g)
  PROVE  HoldsBut(m, NewBucket(m, key, val), Put(g, key, val))
<1>1. /\ Held(m.cap, m.data, NewBucket(m, key, val))
      /\ NewBucket(m, key, val).key = key /\ NewBucket(m, key, val).val = val
  BY NewHeld
<1>2. StoresBut(m.cap, m.data, NewBucket(m, key, val), Put(g, key, val))
  <2> DEFINE h == NewBucket(m, key, val)
             f == Put(g, key, val)
  <2>1. h.key = key /\ h.val = val
    BY <1>1
  <2>2. DOMAIN f = DOMAIN g \cup {key} /\ f[key] = val /\ \A k \in DOMAIN g : k # key => f[k] = g[k]
    BY DEF Put
  <2> HIDE DEF h, f
  <2>3. StoresBut(m.cap, m.data, h, f)
    BY <2>1, <2>2 DEF Holds, Stores, StoresBut
  <2> QED
    BY <2>3 DEF h, f
<1> QED
  BY <1>1, <1>2 DEF HoldsBut

LEMMA NewTableSound ==
  ASSUME NEW c \in Nat, c % 2 = 0
  PROVE  /\ Sound(NewTable(c)) /\ Ordered(NewTable(c))
         /\ Occ(c, NewTable(c).data) = {}
         /\ NewTable(c).cap = c /\ NewTable(c).size = 0
<1> DEFINE m == NewTable(c)
           d == m.data
<1>1. m = [cap |-> c, size |-> 0, data |-> [i \in Idx(c) |-> EmptyBucket]]
  BY DEF NewTable, Idx
<1>2. m.cap = c /\ m.size = 0 /\ m = [cap |-> m.cap, size |-> m.size, data |-> d]
      /\ d = [i \in Idx(c) |-> EmptyBucket]
  BY <1>1
<1> HIDE DEF m
<1>3. EmptyBucket \in Buckets /\ EmptyBucket.off = 0
  BY DEF EmptyBucket, Buckets
<1>4. d \in [Idx(c) -> Buckets] /\ \A i \in Idx(c) : d[i].off = 0
  BY <1>2, <1>3
<1> HIDE DEF d
<1>5. Occ(c, d) = {}
  BY <1>4 DEF Occ
<1>6. Sits(c, d) /\ Unique(c, d)
  BY <1>5 DEF Sits, Unique
<1>7. Near(c, d, -1)
  <2> SUFFICES ASSUME NEW i \in Idx(c) PROVE d[Step(c, i)].off <= d[i].off + 1
    BY DEF Near
  <2>1. Step(c, i) \in Idx(c)
    BY DEF Step, Idx
  <2> QED
    BY <1>4, <2>1
<1>8. Cardinality(Occ(c, d)) = 0
  BY <1>5, FS_EmptySet
<1> QED
  BY <1>2, <1>4, <1>5, <1>6, <1>7, <1>8 DEF Sound, Ordered, d, m

-----------------------------------------------------------------------------
(* Growing: the new table holds the entries that the iterator has passed.  *)

LEMMA RestIs ==
  ASSUME NEW o, Sound(o), NEW i \in Nat
  PROVE  Rest(o, i) = Occ(o.cap, o.data) \ Passed(o, i)
<1>1. o.cap \in Nat
  BY DEF Sound
<1> QED
  BY <1>1 DEF Rest, Passed, Occ, Idx

LEMMA PassedFinite ==
  ASSUME NEW o, Sound(o), NEW i
  PROVE  /\ IsFiniteSet(Passed(o, i)) /\ Cardinality(Passed(o, i)) \in Nat
         /\ Cardinality(Passed(o, i)) <= o.size
<1>1. o.cap \in Nat /\ o.size = Cardinality(Occ(o.cap, o.data))
  BY DEF Sound
<1>2. IsFiniteSet(Occ(o.cap, o.data))
  BY <1>1, OccFinite
<1>3. Passed(o, i) \in SUBSET Occ(o.cap, o.data)
  BY DEF Passed
<1> QED
  BY <1>1, <1>2, <1>3, FS_Subset, FS_CardinalityType

LEMMA GrowRoom ==
  ASSUME NEW m, Sound(m), NEW o, NEW i, NEW g, Growing(m, o, i, g)
  PROVE  /\ Cardinality(Passed(o, i)) \in Nat /\ Cardinality(Passed(o, i)) * 2 < m.cap
         /\ o.size * 2 < m.cap /\ m.cap \in Nat
<1>1. Sound(o) /\ o.size * 2 <= o.cap /\ m.cap = IF o.cap = 0 THEN 4 ELSE o.cap * 2
  BY DEF Growing
<1>2. o.cap \in Nat /\ o.size \in Nat /\ m.cap \in Nat
  BY <1>1, TableFacts
<1>3. Cardinality(Passed(o, i)) \in Nat /\ Cardinality(Passed(o, i)) <= o.size
  BY <1>1, PassedFinite
<1>4. o.size * 2 < m.cap
  BY <1>1, <1>2
<1> QED
  BY <1>2, <1>3, <1>4

LEMMA GrowStart ==
  ASSUME NEW m, NEW o, Sound(o), Occ(m.cap, m.data) = {}, NEW g
  PROVE  Holds(m, Moved(o, 0, g)) /\ Cardinality(Passed(o, 0)) = 0
<1>1. Passed(o, 0) = {}
  <2>1. \A j \in Idx(o.cap) : ~(j < 0)
    BY DEF Idx
  <2> QED
    BY <2>1 DEF Passed, Occ
<1>2. Holds(m, Moved(o, 0, g))
  BY <1>1 DEF Holds, Stores, Moved
<1> QED
  BY <1>1, <1>2, FS_EmptySet

LEMMA GrowOne ==
  ASSUME NEW m, Sound(m), NEW o, NEW i, NEW g, Growing(m, o, i, g), Holds(m, Moved(o, i, g)),
         m.size = Cardinality(Passed(o, i)),
         NEW j \in Rest(o, i), \A l \in Rest(o, i) : j <= l,
         NEW h, h = NewBucket(m, o.data[j].key, o.data[j].val)
  PROVE  /\ Growing(m, o, j + 1, g) /\ m.size * 2 < m.cap
         /\ HoldsBut(m, h, Moved(o, j + 1, g)) /\ Fresh(m.cap, m.data, h)
         /\ m.size + 1 = Cardinality(Passed(o, j + 1))
<1>1. /\ Sound(o) /\ Holds(o, g) /\ i \in Nat /\ o.cap \in Nat /\ o.data \in [Idx(o.cap) -> Buckets]
      /\ Sits(o.cap, o.data) /\ Unique(o.cap, o.data)
  BY DEF Growing, Sound
<1>2. m.size * 2 < m.cap /\ m.size \in Nat
  BY GrowRoom
<1>3. Rest(o, i) = Occ(o.cap, o.data) \ Passed(o, i)
  BY <1>1, RestIs
<1>4. j \in Occ(o.cap, o.data) /\ j \notin Passed(o, i) /\ j \in Nat /\ i <= j
  BY <1>1, <1>3 DEF Passed, Occ, Idx
<1>5. Passed(o, j + 1) = Passed(o, i) \cup {j}
  <2>1. ASSUME NEW l \in Passed(o, j + 1) PROVE l \in Passed(o, i) \cup {j}
    <3>1. l \in Occ(o.cap, o.data) /\ l \in Nat /\ l < j + 1
      BY <1>1 DEF Passed, Occ, Idx
    <3>2. l \notin Passed(o, i) => j <= l
      BY <1>3, <3>1
    <3> QED
      BY <1>4, <3>1, <3>2
  <2>2. ASSUME NEW l \in Passed(o, i) \cup {j} PROVE l \in Passed(o, j + 1)
    <3>1. l \in Occ(o.cap, o.data) /\ l \in Nat /\ (l < i \/ l = j)
      BY <1>1, <1>4 DEF Passed, Occ, Idx
    <3> QED
      BY <1>1, <1>4, <3>1 DEF Passed
  <2> QED
    BY <2>1, <2>2
<1>6. m.size + 1 = Cardinality(Passed(o, j + 1))
  BY <1>1, <1>4, <1>5, PassedFinite, FS_AddElement
<1>7. o.data[j].key \in Keys /\ o.data[j].val \in Int
  BY <1>1, <1>4 DEF Sits, Buckets, Occ
<1>8. Held(m.cap, m.data, h) /\ h.key = o.data[j].key /\ h.val = o.data[j].val
  BY <1>2, <1>7, NewHeld
<1>9. o.data[j].val = g[o.data[j].key]
  BY <1>1, <1>4 DEF Holds, Stores
<1> DEFINE P == Moved(o, i, g)
           Q == Moved(o, j + 1, g)
           key == o.data[j].key
<1>10. DOMAIN P = {o.data[l].key : l \in Passed(o, i)} /\ \A k \in DOMAIN P : P[k] = g[k]
  BY DEF Moved
<1>11. DOMAIN Q = {o.data[l].key : l \in Passed(o, j + 1)} /\ \A k \in DOMAIN Q : Q[k] = g[k]
  BY DEF Moved
<1>12. key \notin DOMAIN P
  <2>1. ASSUME NEW l \in Passed(o, i), o.data[l].key = key PROVE FALSE
    <3>1. l \in Occ(o.cap, o.data) /\ l # j
      BY <1>4 DEF Passed
    <3> QED
      BY <1>1, <1>4, <2>1, <3>1 DEF Unique
  <2> QED
    BY <1>10, <2>1
<1>13. DOMAIN Q = DOMAIN P \cup {key}
  BY <1>5, <1>10, <1>11
<1> HIDE DEF P, Q, key
<1>14. Stores(m.cap, m.data, P)
  BY DEF Holds, P
<1>15. h.key = key /\ h.val = g[key]
  BY <1>8, <1>9 DEF key
<1>16. StoresBut(m.cap, m.data, h, Q)
  BY <1>10, <1>11, <1>13, <1>14, <1>15 DEF StoresBut, Stores
<1>17. Fresh(m.cap, m.data, h)
  BY <1>12, <1>14, <1>15 DEF Fresh, Stores
<1>18. Growing(m, o, j + 1, g)
  BY <1>4 DEF Growing
<1> QED
  BY <1>2, <1>6, <1>8, <1>16, <1>17, <1>18 DEF HoldsBut, Q

LEMMA GrowAll ==
  ASSUME NEW m, Sound(m), NEW o, NEW i, NEW g, Growing(m, o, i, g), Holds(m, Moved(o, i, g)),
         m.size = Cardinality(Passed(o, i)), Rest(o, i) = {}
  PROVE  Holds(m, g) /\ m.size * 2 < m.cap
<1>1. Sound(o) /\ Holds(o, g) /\ i \in Nat
  BY DEF Growing
<1>2. m.size * 2 < m.cap
  BY GrowRoom
<1>3. Passed(o, i) = Occ(o.cap, o.data)
  BY <1>1, RestIs DEF Passed
<1> DEFINE P == Moved(o, i, g)
<1>4. DOMAIN P = {o.data[l].key : l \in Occ(o.cap, o.data)} /\ \A k \in DOMAIN P : P[k] = g[k]
  BY <1>3 DEF Moved
<1>5. DOMAIN P = DOMAIN g
  BY <1>1, <1>4 DEF Holds, Stores
<1>6. Stores(m.cap, m.data, P)
  BY DEF Holds
<1> HIDE DEF P
<1>7. Stores(m.cap, m.data, g)
  BY <1>4, <1>5, <1>6 DEF Stores
<1> QED
  BY <1>2, <1>7 DEF Holds

-----------------------------------------------------------------------------
(* Every step preserves the invariant.                                     *)

LEMMA ToRest ==
  ASSUME pc' \in {"idle", "count"}, Sound(table'), Ordered(table'), Holds(table', content'),
         table'.size * 2 <= table'.cap,
         pc' = "count" => call' \in Calls /\ call'.key \in DOMAIN content'
  PROVE  MapInv'
BY DEF MapInv

LEMMA ToPlace ==
  ASSUME pc' = "place", Sound(table'), Ordered(table'), HoldsBut(table', hand', content'),
         table'.size * 2 < table'.cap, call' \in Calls, call'.key \in DOMAIN content'
  PROVE  MapInv'
BY DEF MapInv

LEMMA ToGrow ==
  ASSUME pc' = "grow", Sound(table'), Ordered(table'), call' \in Calls,
         Growing(table', old', iter', content'), Holds(table', Moved(old', iter', content')),
         table'.size = Cardinality(Passed(old', iter'))
  PROVE  MapInv'
BY DEF MapInv

LEMMA ToRegrow ==
  ASSUME pc' = "regrow", Sound(table'), Ordered(table'), call' \in Calls,
         Growing(table', old', iter', content'), HoldsBut(table', hand', Moved(old', iter', content')),
         Fresh(table'.cap, table'.data, hand'), table'.size + 1 = Cardinality(Passed(old', iter'))
  PROVE  MapInv'
BY DEF MapInv

LEMMA ToShift ==
  ASSUME pc' = "shift", Sound(table'), Gap(table'.cap, table'.data, hole'),
         Holds(table', content'), table'.size * 2 <= table'.cap
  PROVE  MapInv'
BY DEF MapInv

LEMMA InitStep ==
  ASSUME MapInit
  PROVE  MapInv
<1>1. Sound(NewTable(0)) /\ Ordered(NewTable(0)) /\ Occ(0, NewTable(0).data) = {}
      /\ NewTable(0).cap = 0 /\ NewTable(0).size = 0
  BY NewTableSound
<1>2. pc = "idle" /\ table = NewTable(0) /\ content = [k \in {} |-> 0]
  BY DEF MapInit, a0_map_init
<1>3. Holds(table, content)
  BY <1>1, <1>2 DEF Holds, Stores
<1> QED
  BY <1>1, <1>2, <1>3 DEF MapInv

LEMMA StartStep ==
  ASSUME MapInv, NEW key \in Keys, NEW val \in Int, NEW then \in {"idle", "count"},
         StartPut(key, val, then)
  PROVE  MapInv'
<1>1. /\ pc = "idle" /\ Sound(table) /\ Ordered(table) /\ Holds(table, content)
      /\ table.size * 2 <= table.cap
  BY DEF MapInv, StartPut
<1>2. call' \in Calls /\ call'.key = key
  BY DEF StartPut, Calls
<1>3. CASE table.size * 2 >= table.cap
  <2>1. table.cap \in Nat /\ table.size \in Nat
    BY <1>1, TableFacts
  <2> DEFINE c == IF table.cap = 0 THEN 4 ELSE table.cap * 2
  <2>2. pc' = "grow" /\ old' = table /\ iter' = 0 /\ table' = NewTable(c) /\ content' = content
    BY <1>3, <2>1 DEF StartPut
  <2>3. c \in Nat /\ c % 2 = 0
    BY <2>1
  <2> HIDE DEF c
  <2>4. Sound(table') /\ Ordered(table') /\ Occ(table'.cap, table'.data) = {}
        /\ table'.cap = c /\ table'.size = 0
    BY <2>2, <2>3, NewTableSound
  <2>5. Holds(table', Moved(table, 0, content)) /\ Cardinality(Passed(table, 0)) = 0
    BY <1>1, <2>4, GrowStart
  <2>6. Growing(table', table, 0, content)
    BY <1>1, <2>4 DEF Growing, c
  <2> QED
    BY <1>2, <2>2, <2>4, <2>5, <2>6, ToGrow
<1>4. CASE ~(table.size * 2 >= table.cap)
  <2>1. table.cap \in Nat /\ table.size \in Nat
    BY <1>1, TableFacts
  <2>2. table.size * 2 < table.cap
    BY <1>4, <2>1
  <2>3. /\ pc' = "place" /\ table' = table /\ hand' = NewBucket(table, key, val)
        /\ content' = Put(content, key, val)
    BY <1>4 DEF StartPut
  <2>4. HoldsBut(table, NewBucket(table, key, val), Put(content, key, val))
    BY <1>1, <2>2, NewStores
  <2>5. key \in DOMAIN Put(content, key, val)
    BY DEF Put
  <2> QED
    BY <1>1, <1>2, <2>2, <2>3, <2>4, <2>5, ToPlace
<1> QED
  BY <1>3, <1>4

LEMMA GrowNextStep ==
  ASSUME MapInv, GrowNext
  PROVE  MapInv'
<1>1. /\ Sound(table) /\ Ordered(table) /\ call \in Calls /\ Growing(table, old, iter, content)
      /\ Holds(table, Moved(old, iter, content)) /\ table.size = Cardinality(Passed(old, iter))
  BY DEF MapInv, GrowNext
<1>2. PICK i \in Rest(old, iter) :
        /\ \A j \in Rest(old, iter) : i <= j
        /\ iter' = i + 1
        /\ hand' = NewBucket(table, old.data[i].key, old.data[i].val)
  BY DEF GrowNext
<1>3. /\ Growing(table, old, i + 1, content) /\ table.size * 2 < table.cap
      /\ HoldsBut(table, hand', Moved(old, i + 1, content)) /\ Fresh(table.cap, table.data, hand')
      /\ table.size + 1 = Cardinality(Passed(old, i + 1))
  BY <1>1, <1>2, GrowOne
<1>4. table.size \in Nat /\ table.cap \in Nat
  BY <1>1, TableFacts
<1>5. pc' = "regrow" /\ UNCHANGED <<table, call, old, content>>
  BY <1>3, <1>4 DEF GrowNext
<1> QED
  BY <1>1, <1>2, <1>3, <1>5, ToRegrow

LEMMA GrowDoneStep ==
  ASSUME MapInv, GrowDone
  PROVE  MapInv'
<1>1. /\ Sound(table) /\ Ordered(table) /\ call \in Calls /\ Growing(table, old, iter, content)
      /\ Holds(table, Moved(old, iter, content)) /\ table.size = Cardinality(Passed(old, iter))
      /\ Rest(old, iter) = {}
  BY DEF MapInv, GrowDone
<1>2. Holds(table, content) /\ table.size * 2 < table.cap
  BY <1>1, GrowAll
<1>3. /\ pc' = "place" /\ table' = table /\ call' = call
      /\ hand' = NewBucket(table, call.key, call.val) /\ content' = Put(content, call.key, call.val)
  BY DEF GrowDone
<1>4. call.key \in Keys /\ call.val \in Int
  BY <1>1 DEF Calls
<1>5. HoldsBut(table, NewBucket(table, call.key, call.val), Put(content, call.key, call.val))
  BY <1>1, <1>2, <1>4, NewStores
<1>6. call.key \in DOMAIN Put(content, call.key, call.val)
  BY DEF Put
<1> QED
  BY <1>1, <1>2, <1>3, <1>5, <1>6, ToPlace

-----------------------------------------------------------------------------
(* The loop of a0_map_put.                                                 *)

LEMMA PlacingFacts ==
  ASSUME MapInv, Placing
  PROVE  /\ Sound(table) /\ Ordered(table) /\ call \in Calls
         /\ Held(table.cap, table.data, hand) /\ InHand = Entry(hand)
         /\ hand.idx \in Idx(table.cap) /\ Entry(hand) \in Buckets
         /\ table.cap \in Nat /\ table.cap >= 2 /\ table.cap % 2 = 0 /\ table.size \in Nat
         /\ table.data \in [Idx(table.cap) -> Buckets]
         /\ Here.off \in Nat /\ hand.off \in Nat /\ hand.off > 0
         /\ table.size * 2 < table.cap
         /\ \E g : /\ HoldsBut(table, hand, g)
                   /\ pc = "place" => g = content
                   /\ pc = "regrow" => g = Moved(old, iter, content)
<1>1. Sound(table) /\ Ordered(table) /\ call \in Calls
  BY DEF MapInv, Placing
<1>2. \E g : /\ HoldsBut(table, hand, g)
             /\ pc = "place" => g = content
             /\ pc = "regrow" => g = Moved(old, iter, content)
  BY DEF MapInv, Placing
<1>3. Held(table.cap, table.data, hand)
  BY <1>2 DEF HoldsBut
<1>4. table.size \in Nat /\ table.cap \in Nat /\ table.cap % 2 = 0
  BY <1>1, TableFacts
<1>5. table.size * 2 < table.cap
  <2>1. CASE pc = "place"
    BY <2>1 DEF MapInv
  <2>2. CASE pc = "regrow"
    <3>1. Growing(table, old, iter, content) /\ table.size + 1 = Cardinality(Passed(old, iter))
      BY <2>2 DEF MapInv
    <3>2. Cardinality(Passed(old, iter)) \in Nat /\ Cardinality(Passed(old, iter)) * 2 < table.cap
      BY <1>1, <3>1, GrowRoom
    <3> QED
      BY <1>4, <3>1, <3>2
  <2> QED
    BY <2>1, <2>2 DEF Placing
<1>6. /\ table.cap >= 2 /\ table.data \in [Idx(table.cap) -> Buckets]
      /\ hand.idx \in Idx(table.cap) /\ Entry(hand) \in Buckets
      /\ table.data[hand.idx].off \in Nat /\ hand.off \in Nat /\ hand.off > 0
  BY <1>1, <1>3, HandFacts
<1> QED
  BY <1>1, <1>2, <1>3, <1>4, <1>5, <1>6 DEF InHand, Entry, Here

\* The put has ended, with the table that holds g.
LEMMA PlacedStep ==
  ASSUME MapInv, Placing, Placed, Sound(table'), Ordered(table'), table'.cap = table.cap,
         NEW g, Holds(table', g), pc = "place" => g = content,
         pc = "regrow" => g = Moved(old, iter, content) /\ table'.size = table.size + 1,
         table'.size * 2 <= table.cap
  PROVE  MapInv'
<1>1. CASE pc = "place"
  <2>1. call \in Calls /\ call.key \in DOMAIN content
    BY <1>1 DEF MapInv
  <2>2. pc' = call.then /\ content' = content /\ (pc' # "idle" => call' = call)
    BY <1>1 DEF Placed
  <2>3. call.then \in {"idle", "count"}
    BY <2>1 DEF Calls
  <2> QED
    BY <1>1, <2>1, <2>2, <2>3, ToRest
<1>2. CASE pc = "regrow"
  <2>1. /\ call \in Calls /\ Growing(table, old, iter, content)
        /\ table.size + 1 = Cardinality(Passed(old, iter))
    BY <1>2 DEF MapInv
  <2>2. pc' = "grow" /\ content' = content /\ call' = call /\ old' = old /\ iter' = iter
    BY <1>2 DEF Placed
  <2>3. Growing(table', old, iter, content)
    BY <2>1 DEF Growing
  <2> QED
    BY <1>2, <2>1, <2>2, <2>3, ToGrow
<1> QED
  BY <1>1, <1>2 DEF Placing

LEMMA PutEmptyStep ==
  ASSUME MapInv, PutEmpty
  PROVE  MapInv'
<1>1. Placing /\ Placed /\ Here.off = 0
      /\ table' = [table EXCEPT !.data[hand.idx] = InHand, !.size = @ + 1]
  BY DEF PutEmpty
<1>2. /\ Sound(table) /\ Ordered(table) /\ Held(table.cap, table.data, hand) /\ InHand = Entry(hand)
      /\ hand.idx \in Idx(table.cap) /\ Entry(hand) \in Buckets
      /\ table.cap \in Nat /\ table.cap >= 2 /\ table.cap % 2 = 0 /\ table.size \in Nat
      /\ table.data \in [Idx(table.cap) -> Buckets]
      /\ hand.off \in Nat /\ hand.off > 0 /\ table.size * 2 < table.cap
  BY <1>1, PlacingFacts
<1>3. PICK g : /\ HoldsBut(table, hand, g)
               /\ pc = "place" => g = content
               /\ pc = "regrow" => g = Moved(old, iter, content)
  BY <1>1, PlacingFacts
<1>4. table' = Sized(table, hand.idx, Entry(hand), table.size + 1)
  BY <1>1, <1>2, Zenon DEF Sized
<1>5. Rewritten(table, table', hand.idx, Entry(hand), table.size + 1)
  BY <1>2, <1>4, Rewriting
<1>6. table.data[hand.idx].off = 0 /\ table.data[hand.idx].off < hand.off
  BY <1>1, <1>2 DEF Here
<1>7. Sound(table') /\ Ordered(table')
  BY <1>2, <1>5, <1>6, PutTable
<1>8. table'.cap = table.cap /\ table'.size = table.size + 1
      /\ Becomes(table.cap, table.data, table'.data, hand.idx, Entry(hand))
  BY <1>5 DEF Rewritten
<1>9. Holds(table', g)
  <2> DEFINE c == table.cap
             d == table.data
             e == table'.data
  <2>1. /\ c \in Nat /\ c >= 2 /\ d \in [Idx(c) -> Buckets] /\ Sits(c, d) /\ Near(c, d, -1)
        /\ Unique(c, d) /\ Held(c, d, hand) /\ d[hand.idx].off = 0
        /\ Becomes(c, d, e, hand.idx, Entry(hand)) /\ StoresBut(c, d, hand, g)
    BY <1>2, <1>3, <1>6, <1>8 DEF Sound, Ordered, HoldsBut
  <2> HIDE DEF c, d, e
  <2>2. Stores(c, e, g)
    BY <2>1, PlaceStores
  <2> QED
    BY <1>8, <2>2 DEF Holds, c, e
<1>10. table'.size * 2 <= table.cap
  BY <1>2, <1>8
<1> QED
  BY <1>1, <1>3, <1>7, <1>8, <1>9, <1>10, PlacedStep

LEMMA PutSameStep ==
  ASSUME MapInv, PutSame
  PROVE  MapInv'
<1>1. Placing /\ Placed /\ Here.off # 0 /\ Here.key = hand.key
      /\ table' = [table EXCEPT !.data[hand.idx].val = hand.val]
  BY DEF PutSame
<1>2. /\ Sound(table) /\ Ordered(table) /\ Held(table.cap, table.data, hand)
      /\ hand.idx \in Idx(table.cap) /\ table.cap \in Nat /\ table.size \in Nat
      /\ table.size * 2 < table.cap
  BY <1>1, PlacingFacts
<1>3. PICK g : /\ HoldsBut(table, hand, g)
               /\ pc = "place" => g = content
               /\ pc = "regrow" => g = Moved(old, iter, content)
  BY <1>1, PlacingFacts
<1>4. hand.idx \in Occ(table.cap, table.data) /\ table.data[hand.idx].key = hand.key
  BY <1>1, <1>2 DEF Occ, Here
<1>5. pc # "regrow"
  <2>1. pc = "regrow" => Fresh(table.cap, table.data, hand)
    BY DEF MapInv
  <2> QED
    BY <1>4, <2>1 DEF Fresh
<1> DEFINE b == [off |-> table.data[hand.idx].off, key |-> table.data[hand.idx].key, val |-> hand.val]
<1>6. b.off = table.data[hand.idx].off /\ b.key = table.data[hand.idx].key /\ b.val = hand.val
  OBVIOUS
<1>7. Rewritten(table, table', hand.idx, b, table.size)
  <2>1. hand.val \in Int
    BY <1>2 DEF Held, Hands
  <2> QED
    BY <1>1, <1>2, <2>1, RewritingVal
<1> HIDE DEF b
<1>8. Sound(table') /\ Ordered(table')
  BY <1>2, <1>6, <1>7, ValTable
<1>9. table'.cap = table.cap /\ table'.size = table.size
      /\ Becomes(table.cap, table.data, table'.data, hand.idx, b)
  BY <1>7 DEF Rewritten
<1>10. Holds(table', g)
  <2> DEFINE c == table.cap
             d == table.data
             e == table'.data
  <2>1. /\ Unique(c, d) /\ hand.idx \in Occ(c, d) /\ StoresBut(c, d, hand, g)
        /\ Becomes(c, d, e, hand.idx, b) /\ b.off = d[hand.idx].off /\ b.key = d[hand.idx].key
        /\ b.key = hand.key /\ b.val = hand.val
    BY <1>2, <1>3, <1>4, <1>6, <1>9 DEF Sound, HoldsBut
  <2> HIDE DEF c, d, e
  <2>2. b.key \in DOMAIN g /\ g[b.key] = b.val /\ Others(c, d, b.key, g)
    BY <2>1 DEF StoresBut, Others
  <2>3. Stores(c, e, g)
    BY <2>1, <2>2, ValueStores
  <2> QED
    BY <1>9, <2>3 DEF Holds, c, e
<1>11. table'.size * 2 <= table.cap
  BY <1>2, <1>9
<1> QED
  BY <1>1, <1>3, <1>5, <1>8, <1>9, <1>10, <1>11, PlacedStep

\* The search goes on, with a bucket in hand that completes g.
LEMMA OnwardStep ==
  ASSUME MapInv, Placing, UNCHANGED <<pc, call, old, iter, content>>,
         Sound(table'), Ordered(table'), table'.cap = table.cap, table'.size = table.size,
         NEW g, HoldsBut(table', hand', g), pc = "place" => g = content,
         pc = "regrow" => g = Moved(old, iter, content) /\ Fresh(table'.cap, table'.data, hand')
  PROVE  MapInv'
<1>1. CASE pc = "place"
  <2>1. call \in Calls /\ call.key \in DOMAIN content /\ table.size * 2 < table.cap
    BY <1>1 DEF MapInv
  <2> QED
    BY <1>1, <2>1, ToPlace
<1>2. CASE pc = "regrow"
  <2>1. /\ call \in Calls /\ Growing(table, old, iter, content)
        /\ table.size + 1 = Cardinality(Passed(old, iter))
    BY <1>2 DEF MapInv
  <2>2. Growing(table', old, iter, content)
    BY <2>1 DEF Growing
  <2>3. HoldsBut(table', hand', Moved(old', iter', content')) /\ Growing(table', old', iter', content')
        /\ table'.size + 1 = Cardinality(Passed(old', iter'))
    BY <1>2, <2>1, <2>2
  <2> QED
    BY <1>2, <2>1, <2>3, ToRegrow
<1> QED
  BY <1>1, <1>2 DEF Placing

LEMMA PutSwapStep ==
  ASSUME MapInv, PutSwap
  PROVE  MapInv'
<1>1. /\ Placing /\ Here.off # 0 /\ Here.key # hand.key /\ hand.off > Here.off
      /\ table' = [table EXCEPT !.data[hand.idx] = InHand]
      /\ hand' = Onward(Here) /\ UNCHANGED <<pc, call, old, iter, content>>
  BY DEF PutSwap
<1>2. /\ Sound(table) /\ Ordered(table) /\ Held(table.cap, table.data, hand) /\ InHand = Entry(hand)
      /\ hand.idx \in Idx(table.cap) /\ Entry(hand) \in Buckets
      /\ table.cap \in Nat /\ table.cap >= 2 /\ table.cap # 0
      /\ table.data \in [Idx(table.cap) -> Buckets]
      /\ Here.off \in Nat /\ hand.off \in Nat
  BY <1>1, PlacingFacts
<1>3. PICK g : /\ HoldsBut(table, hand, g)
               /\ pc = "place" => g = content
               /\ pc = "regrow" => g = Moved(old, iter, content)
  BY <1>1, PlacingFacts
<1>4. Rewritten(table, table', hand.idx, Entry(hand), table.size)
  BY <1>1, <1>2, Rewriting
<1>5. table.data[hand.idx].off # 0 /\ table.data[hand.idx].off < hand.off
  BY <1>1, <1>2 DEF Here
<1>6. Sound(table') /\ Ordered(table')
  BY <1>2, <1>4, <1>5, PutTable
<1>7. table'.cap = table.cap /\ table'.size = table.size
      /\ Becomes(table.cap, table.data, table'.data, hand.idx, Entry(hand))
  BY <1>4 DEF Rewritten
<1>8. After(table, hand.idx) = Step(table.cap, hand.idx)
  BY <1>2, AfterIs
<1> DEFINE c == table.cap
           d == table.data
           e == table'.data
           n == hand'
<1>9. n = [off |-> d[hand.idx].off + 1, key |-> d[hand.idx].key, val |-> d[hand.idx].val,
           idx |-> Step(c, hand.idx)]
  BY <1>1, <1>8 DEF Onward, Here
<1>10. n.key = d[hand.idx].key /\ n.val = d[hand.idx].val
  BY <1>9
<1>11. /\ c \in Nat /\ c >= 2 /\ d \in [Idx(c) -> Buckets] /\ Sits(c, d) /\ Near(c, d, -1)
       /\ Unique(c, d) /\ Held(c, d, hand) /\ d[hand.idx].off # 0 /\ d[hand.idx].off < hand.off
       /\ Becomes(c, d, e, hand.idx, Entry(hand)) /\ StoresBut(c, d, hand, g)
  BY <1>2, <1>3, <1>5, <1>7 DEF Sound, Ordered, HoldsBut
<1>12. Held(c, e, n) /\ Fresh(c, e, n) /\ StoresBut(c, e, n, g)
  <2> HIDE DEF c, d, e, n
  <2>1. Held(c, e, n) /\ Fresh(c, e, n)
    BY <1>9, <1>11, SwapHeld
  <2>2. StoresBut(c, e, n, g)
    BY <1>10, <1>11, SwapStores
  <2> QED
    BY <2>1, <2>2
<1>13. HoldsBut(table', hand', g) /\ Fresh(table'.cap, table'.data, hand')
  BY <1>7, <1>12 DEF HoldsBut
<1> QED
  BY <1>1, <1>3, <1>6, <1>7, <1>13, OnwardStep

LEMMA PutOnStep ==
  ASSUME MapInv, PutOn
  PROVE  MapInv'
<1>1. /\ Placing /\ Here.off # 0 /\ Here.key # hand.key /\ hand.off <= Here.off
      /\ hand' = Onward(hand) /\ UNCHANGED <<table, pc, call, old, iter, content>>
  BY DEF PutOn
<1>2. /\ Sound(table) /\ Ordered(table) /\ Held(table.cap, table.data, hand)
      /\ hand.idx \in Idx(table.cap)
      /\ table.cap \in Nat /\ table.cap >= 2 /\ table.cap # 0 /\ table.size \in Nat
      /\ table.size * 2 < table.cap
      /\ table.data \in [Idx(table.cap) -> Buckets]
      /\ Here.off \in Nat /\ hand.off \in Nat
  BY <1>1, PlacingFacts
<1>3. PICK g : /\ HoldsBut(table, hand, g)
               /\ pc = "place" => g = content
               /\ pc = "regrow" => g = Moved(old, iter, content)
  BY <1>1, PlacingFacts
<1>4. After(table, hand.idx) = Step(table.cap, hand.idx)
  BY <1>2, AfterIs
<1>5. PICK z \in Idx(table.cap) : table.data[z].off = 0
  BY <1>2, TableFacts
<1> DEFINE c == table.cap
           d == table.data
           n == hand'
<1>6. n = [off |-> hand.off + 1, key |-> hand.key, val |-> hand.val, idx |-> Step(c, hand.idx)]
  BY <1>1, <1>4 DEF Onward
<1>7. n.key = hand.key /\ n.val = hand.val
  BY <1>6
<1>8. /\ c \in Nat /\ c >= 2 /\ d \in [Idx(c) -> Buckets] /\ Sits(c, d) /\ Near(c, d, -1)
      /\ Held(c, d, hand) /\ d[hand.idx].off >= hand.off /\ d[hand.idx].key # hand.key
      /\ z \in Idx(c) /\ d[z].off = 0
  BY <1>1, <1>2, <1>5 DEF Sound, Ordered, Here
<1>9. Held(c, d, n)
  <2> HIDE DEF c, d, n
  <2> QED
    BY <1>6, <1>8, OnHeld
<1>10. StoresBut(c, d, n, g)
  BY <1>3, <1>7 DEF HoldsBut, StoresBut
<1>11. pc = "regrow" => Fresh(c, d, n)
  <2>1. pc = "regrow" => Fresh(c, d, hand)
    BY DEF MapInv
  <2> QED
    BY <1>7, <2>1 DEF Fresh
<1>12. HoldsBut(table', hand', g) /\ (pc = "regrow" => Fresh(table'.cap, table'.data, hand'))
  BY <1>1, <1>9, <1>10, <1>11 DEF HoldsBut
<1> QED
  BY <1>1, <1>2, <1>3, <1>12, OnwardStep

-----------------------------------------------------------------------------
(* Deletion and counting.                                                  *)

LEMMA IdleFacts ==
  ASSUME MapInv, pc \in {"idle", "count"}
  PROVE  /\ Sound(table) /\ Ordered(table) /\ Holds(table, content)
         /\ table.size * 2 <= table.cap /\ table.cap \in Nat /\ table.size \in Nat
<1>1. Sound(table)
  BY DEF MapInv
<1> QED
  BY <1>1, TableFacts DEF MapInv

LEMMA FoundFacts ==
  ASSUME MapInv, pc \in {"idle", "count"}, NEW key \in Keys, key \in DOMAIN content, NEW i, i = a0_map_find(table, key)
  PROVE  /\ i \in Occ(table.cap, table.data) /\ i \in Idx(table.cap)
         /\ table.data[i].key = key /\ table.data[i].val = content[key]
         /\ Others(table.cap, table.data, key, content)
<1>1. Sound(table) /\ Ordered(table) /\ Holds(table, content)
  BY IdleFacts
<1>2. PICK j \in Occ(table.cap, table.data) : table.data[j].key = key
  BY <1>1 DEF Holds, Stores
<1>3. Hits(table, key) # {}
  BY <1>1, <1>2, HitsAre
<1>4. i \in Occ(table.cap, table.data) /\ table.data[i].key = key
  BY <1>1, <1>3, FindIs
<1>5. table.data[i].val = content[key]
  BY <1>1, <1>4 DEF Holds, Stores
<1>6. Others(table.cap, table.data, key, content)
  BY <1>1 DEF Holds, Stores, Others
<1> QED
  BY <1>4, <1>5, <1>6 DEF Occ

LEMMA HasKey ==
  ASSUME MapInv, pc = "idle", NEW key \in Keys
  PROVE  a0_map_has(table, key) <=> key \in DOMAIN content
<1>1. Sound(table) /\ Ordered(table) /\ Holds(table, content)
  BY IdleFacts
<1>2. a0_map_has(table, key) <=> \E i \in Occ(table.cap, table.data) : table.data[i].key = key
  BY <1>1, HasIs
<1> QED
  BY <1>1, <1>2 DEF Holds, Stores

LEMMA CountedStep ==
  ASSUME MapInv, pc \in {"idle", "count"}, NEW key \in Keys, key \in DOMAIN content,
         NEW n \in Int, Counted(key, n)
  PROVE  MapInv'
<1>1. PICK i : i = a0_map_find(table, key)
  OBVIOUS
<1>2. /\ i \in Occ(table.cap, table.data) /\ i \in Idx(table.cap)
      /\ table.data[i].key = key /\ table.data[i].val = content[key]
      /\ Others(table.cap, table.data, key, content)
  BY <1>1, FoundFacts
<1>3. Sound(table) /\ Ordered(table) /\ table.size * 2 <= table.cap
  BY IdleFacts
<1>4. /\ pc' = "idle" /\ content' = Put(content, key, content[key] + n)
      /\ table' = [table EXCEPT !.data[i].val = table.data[i].val + n]
  BY <1>1 DEF Counted, Add
<1>5. table.data[i].val \in Int /\ table.data[i].val + n \in Int
  BY <1>2, <1>3 DEF Sound, Buckets
<1> DEFINE b == [off |-> table.data[i].off, key |-> table.data[i].key, val |-> table.data[i].val + n]
<1>6. b.off = table.data[i].off /\ b.key = table.data[i].key /\ b.val = content[key] + n /\ b.key = key
  BY <1>2
<1>7. Rewritten(table, table', i, b, table.size)
  BY <1>2, <1>3, <1>4, <1>5, RewritingVal
<1> HIDE DEF b
<1>8. Sound(table') /\ Ordered(table')
  BY <1>2, <1>3, <1>6, <1>7, ValTable
<1>9. table'.cap = table.cap /\ table'.size = table.size
      /\ Becomes(table.cap, table.data, table'.data, i, b)
  BY <1>7 DEF Rewritten
<1>10. Holds(table', content')
  <2> DEFINE c == table.cap
             d == table.data
             e == table'.data
             f == content'
  <2>1. DOMAIN f = DOMAIN content \cup {key} /\ f[key] = content[key] + n
        /\ \A k \in DOMAIN content : k # key => f[k] = content[k]
    BY <1>4 DEF Put
  <2>2. /\ Unique(c, d) /\ i \in Occ(c, d) /\ Becomes(c, d, e, i, b)
        /\ b.off = d[i].off /\ b.key = d[i].key /\ Others(c, d, key, content)
    BY <1>2, <1>3, <1>6, <1>9 DEF Sound
  <2> HIDE DEF c, d, e, f
  <2>3. b.key \in DOMAIN f /\ f[b.key] = b.val /\ Others(c, d, b.key, f)
    BY <1>6, <2>1, <2>2 DEF Others
  <2>4. Stores(c, e, f)
    BY <2>2, <2>3, ValueStores
  <2> QED
    BY <1>9, <2>4 DEF Holds, c, e, f
<1> QED
  BY <1>3, <1>4, <1>8, <1>9, <1>10, ToRest

\* Bucket i, of key, is deleted; its value does not matter.
LEMMA DeletedStep ==
  ASSUME MapInv, pc = "idle", NEW key \in Keys, key \in DOMAIN content,
         NEW i, i = a0_map_find(table, key),
         Rewritten(table, table', i, EmptyBucket, table.size - 1),
         hole' = i, pc' = "shift", content' = Drop(content, key)
  PROVE  MapInv'
<1>1. /\ i \in Occ(table.cap, table.data) /\ table.data[i].key = key
      /\ Others(table.cap, table.data, key, content)
  BY FoundFacts
<1>2. /\ Sound(table) /\ Ordered(table) /\ table.size * 2 <= table.cap
      /\ table.cap \in Nat /\ table.size \in Nat
  BY IdleFacts
<1>3. Sound(table') /\ Gap(table'.cap, table'.data, i) /\ table'.size < table.size
      /\ Occ(table.cap, table'.data) = Occ(table.cap, table.data) \ {i}
  BY <1>1, <1>2, DelTable
<1>4. table'.cap = table.cap /\ Becomes(table.cap, table.data, table'.data, i, EmptyBucket)
  BY DEF Rewritten
<1>5. Holds(table', content')
  <2> DEFINE c == table.cap
             d == table.data
             e == table'.data
  <2>1. /\ Unique(c, d) /\ i \in Occ(c, d) /\ Becomes(c, d, e, i, EmptyBucket)
        /\ Occ(c, e) = Occ(c, d) \ {i} /\ key = d[i].key /\ Others(c, d, key, content)
    BY <1>1, <1>2, <1>3, <1>4 DEF Sound
  <2> HIDE DEF c, d, e
  <2>2. Stores(c, e, Drop(content, key))
    BY <2>1, DeleteStores
  <2> QED
    BY <1>4, <2>2 DEF Holds, c, e
<1>6. table'.size \in Nat
  BY <1>3, TableFacts
<1>7. table'.size * 2 <= table'.cap
  BY <1>2, <1>3, <1>4, <1>6
<1> QED
  BY <1>3, <1>5, <1>7, ToShift

LEMMA DelStep ==
  ASSUME MapInv, NEW key \in Keys, a0_map_del(key)
  PROVE  MapInv'
<1>1. PICK i : i = a0_map_find(table, key)
  OBVIOUS
<1>2. /\ pc = "idle" /\ a0_map_has(table, key) /\ content' = Drop(content, key)
      /\ hole' = i /\ pc' = "shift"
      /\ table' = [table EXCEPT !.data[i] = EmptyBucket, !.size = @ - 1]
  BY <1>1, Zenon DEF a0_map_del, a0_map_del_bucket
<1>3. key \in DOMAIN content
  BY <1>2, HasKey
<1>4. Sound(table) /\ i \in Idx(table.cap)
  BY <1>1, <1>2, <1>3, IdleFacts, FoundFacts
<1>5. table' = Sized(table, i, EmptyBucket, table.size - 1)
  BY <1>2, Zenon DEF Sized
<1>6. EmptyBucket \in Buckets
  BY DEF EmptyBucket, Buckets
<1>7. Rewritten(table, table', i, EmptyBucket, table.size - 1)
  BY <1>4, <1>5, <1>6, Rewriting
<1> QED
  BY <1>1, <1>2, <1>3, <1>7, DeletedStep

LEMMA IncStep ==
  ASSUME MapInv, NEW key \in Keys, a0_ref_cnt_inc(key)
  PROVE  MapInv'
<1>1. CASE a0_map_has(table, key) /\ Counted(key, 1)
  <2>1. pc = "idle" /\ key \in DOMAIN content
    BY <1>1, HasKey DEF a0_ref_cnt_inc
  <2> QED
    BY <1>1, <2>1, CountedStep
<1>2. CASE StartPut(key, 0, "count")
  BY <1>2, StartStep
<1> QED
  BY <1>1, <1>2 DEF a0_ref_cnt_inc

LEMMA CountStep ==
  ASSUME MapInv, Count
  PROVE  MapInv'
<1>1. pc = "count" /\ Counted(call.key, 1)
  BY DEF Count
<1>2. call \in Calls /\ call.key \in DOMAIN content
  BY <1>1 DEF MapInv
<1>3. call.key \in Keys
  BY <1>2 DEF Calls
<1> DEFINE key == call.key
<1>4. key \in Keys /\ key \in DOMAIN content /\ Counted(key, 1)
  BY <1>1, <1>2, <1>3
<1> HIDE DEF key
<1> QED
  BY <1>1, <1>4, CountedStep

LEMMA DecStep ==
  ASSUME MapInv, NEW key \in Keys, a0_ref_cnt_dec(key)
  PROVE  MapInv'
<1>1. pc = "idle" /\ a0_map_has(table, key)
  BY DEF a0_ref_cnt_dec
<1>2. key \in DOMAIN content
  BY <1>1, HasKey
<1>3. CASE Counted(key, -1)
  BY <1>1, <1>2, <1>3, CountedStep
<1>4. CASE ~Counted(key, -1)
  <2>1. PICK i : i = a0_map_find(table, key)
    OBVIOUS
  <2>2. PICK m : m = Add(table, key, -1)
    OBVIOUS
  <2>3. /\ content' = Drop(content, key) /\ hole' = i /\ pc' = "shift"
        /\ table' = [m EXCEPT !.data[i] = EmptyBucket, !.size = @ - 1]
    BY <1>4, <2>1, <2>2, Zenon DEF a0_ref_cnt_dec, a0_map_del_bucket
  <2>4. i \in Occ(table.cap, table.data) /\ i \in Idx(table.cap)
    BY <1>1, <1>2, <2>1, FoundFacts
  <2>5. Sound(table) /\ Ordered(table)
    BY <1>1, IdleFacts
  <2>6. m = [table EXCEPT !.data[i].val = table.data[i].val + (-1)]
    BY <2>1, <2>2 DEF Add
  <2>7. table.data[i].val + (-1) \in Int
    BY <2>4, <2>5 DEF Sound, Buckets
  <2> DEFINE b == [off |-> table.data[i].off, key |-> table.data[i].key,
                   val |-> table.data[i].val + (-1)]
  <2>8. b.off = table.data[i].off /\ b.key = table.data[i].key
    OBVIOUS
  <2>9. Rewritten(table, m, i, b, table.size)
    BY <2>4, <2>5, <2>6, <2>7, RewritingVal
  <2> HIDE DEF b
  <2>10. Sound(m)
    BY <2>4, <2>5, <2>8, <2>9, ValTable
  <2>11. m.cap = table.cap /\ m.size = table.size /\ Becomes(table.cap, table.data, m.data, i, b)
    BY <2>9 DEF Rewritten
  <2>12. EmptyBucket \in Buckets
    BY DEF EmptyBucket, Buckets
  <2>13. table' = Sized(m, i, EmptyBucket, m.size - 1)
    BY <2>3, Zenon DEF Sized
  <2>14. Rewritten(m, table', i, EmptyBucket, m.size - 1)
    BY <2>4, <2>10, <2>11, <2>12, <2>13, Rewriting
  <2>15. Becomes(table.cap, table.data, table'.data, i, EmptyBucket)
    BY <2>11, <2>14 DEF Rewritten, Becomes
  <2>16. Rewritten(table, table', i, EmptyBucket, table.size - 1)
    BY <2>11, <2>14, <2>15 DEF Rewritten
  <2> QED
    BY <1>1, <1>2, <2>1, <2>3, <2>16, DeletedStep
<1> QED
  BY <1>3, <1>4

LEMMA ShiftStep ==
  ASSUME MapInv, Shift
  PROVE  MapInv'
<1>1. /\ Sound(table) /\ Gap(table.cap, table.data, hole) /\ Holds(table, content)
      /\ table.size * 2 <= table.cap
  BY DEF MapInv, Shift
<1>2. PICK j : j = After(table, hole)
  OBVIOUS
<1>3. /\ pc' = "shift" /\ content' = content /\ hole' = j /\ table.data[j].off > 1
      /\ table' = Shifted(table, hole, j)
  <2>1. pc' = "shift" /\ content' = content /\ hole' = j /\ table.data[j].off > 1
    BY <1>2 DEF Shift, Follows
  <2>2. table' = Shifted(table, hole, j)
    BY <1>2, Zenon DEF Shift, Shifted
  <2> QED
    BY <2>1, <2>2, Zenon
<1>4. hole \in Idx(table.cap)
  BY <1>1 DEF Gap
<1>5. table.cap \in Nat \ {0}
  BY <1>1, <1>4, TableFacts
<1>6. j = Step(table.cap, hole)
  BY <1>2, <1>4, <1>5, AfterIs
<1>7. /\ Sound(table') /\ Gap(table'.cap, table'.data, j)
      /\ table'.cap = table.cap /\ table'.size = table.size
      /\ Holds(table, content) => Holds(table', content)
  BY <1>1, <1>3, <1>6, ShiftTable
<1> QED
  BY <1>1, <1>3, <1>7, ToShift

LEMMA ShiftDoneStep ==
  ASSUME MapInv, ShiftDone
  PROVE  MapInv'
<1>1. /\ Sound(table) /\ Gap(table.cap, table.data, hole) /\ Holds(table, content)
      /\ table.size * 2 <= table.cap
  BY DEF MapInv, ShiftDone
<1>2. pc' = "idle" /\ table' = table /\ content' = content /\ ~(table.data[After(table, hole)].off > 1)
  BY DEF ShiftDone, Follows
<1>3. hole \in Idx(table.cap)
  BY <1>1 DEF Gap
<1>4. table.cap \in Nat \ {0} /\ table.cap >= 2 /\ table.data \in [Idx(table.cap) -> Buckets]
  BY <1>1, <1>3, TableFacts
<1>5. After(table, hole) = Step(table.cap, hole)
  BY <1>3, <1>4, AfterIs
<1>6. Ordered(table)
  <2> DEFINE c == table.cap
             d == table.data
  <2>1. c \in Nat /\ c >= 2 /\ d \in [Idx(c) -> Buckets] /\ Gap(c, d, hole) /\ ~(d[Step(c, hole)].off > 1)
    BY <1>1, <1>2, <1>4, <1>5
  <2> HIDE DEF c, d
  <2>2. Near(c, d, -1)
    BY <2>1, ShiftEnds
  <2> QED
    BY <2>2 DEF Ordered, c, d
<1> QED
  BY <1>1, <1>2, <1>6, ToRest

LEMMA MapStep ==
  ASSUME MapInv, [MapNext]_mapvars
  PROVE  MapInv'
<1>1. ASSUME NEW key \in Keys, NEW val \in 1..MaxVal, a0_map_put(key, val) PROVE MapInv'
  <2>1. val \in Int /\ StartPut(key, val, "idle")
    BY <1>1, MapAssumption DEF a0_map_put
  <2> QED
    BY <2>1, StartStep
<1>2. ASSUME NEW key \in Keys, a0_map_del(key) \/ a0_ref_cnt_inc(key) \/ a0_ref_cnt_dec(key)
      PROVE  MapInv'
  BY <1>2, DelStep, IncStep, DecStep
<1>3. CASE GrowNext \/ GrowDone
  BY <1>3, GrowNextStep, GrowDoneStep
<1>4. CASE PutEmpty \/ PutSame \/ PutSwap \/ PutOn
  BY <1>4, PutEmptyStep, PutSameStep, PutSwapStep, PutOnStep
<1>5. CASE Shift \/ ShiftDone \/ Count
  BY <1>5, ShiftStep, ShiftDoneStep, CountStep
<1>6. CASE UNCHANGED mapvars
  BY <1>6 DEF mapvars, MapInv
<1> QED
  BY <1>1, <1>2, <1>3, <1>4, <1>5, <1>6 DEF MapNext

-----------------------------------------------------------------------------
(* What the invariant means between the calls.                             *)

\* As many entries as keys.
LEMMA SizeIs ==
  ASSUME NEW m, Sound(m), NEW g, Holds(m, g)
  PROVE  m.size = Cardinality(DOMAIN g)
<1> DEFINE S == Occ(m.cap, m.data)
           f == [i \in S |-> m.data[i].key]
<1>1. IsFiniteSet(S) /\ m.size = Cardinality(S)
  BY OccFinite DEF Sound
<1>2. f \in [S -> DOMAIN g]
  BY DEF Holds, Stores
<1>3. \A i, j \in S : f[i] = f[j] => i = j
  BY DEF Sound, Unique
<1>4. \A k \in DOMAIN g : \E i \in S : f[i] = k
  BY DEF Holds, Stores
<1>5. f \in Bijection(S, DOMAIN g)
  <2> HIDE DEF S, f
  <2> QED
    BY <1>2, <1>3, <1>4, Fun_IsBij
<1> QED
  BY <1>1, <1>5, FS_Bijection DEF ExistsBijection

LEMMA InvMeans ==
  ASSUME MapInv
  PROVE  MapIsFunction
<1> SUFFICES ASSUME pc = "idle"
             PROVE  /\ \A key \in Keys : a0_map_has(table, key) <=> key \in DOMAIN content
                    /\ \A key \in DOMAIN content : a0_map_get(table, key) = content[key]
                    /\ \A i, j \in Rest(table, 0) : table.data[i].key = table.data[j].key => i = j
                    /\ {table.data[i].key : i \in Rest(table, 0)} = DOMAIN content
                    /\ a0_map_size(table) = Cardinality(DOMAIN content)
  BY DEF MapIsFunction
<1>1. Sound(table) /\ Ordered(table) /\ Holds(table, content)
  BY IdleFacts
<1>2. \A key \in Keys : a0_map_has(table, key) <=> key \in DOMAIN content
  BY HasKey
<1>3. ASSUME NEW key \in DOMAIN content PROVE a0_map_get(table, key) = content[key]
  <2>1. PICK j \in Occ(table.cap, table.data) : table.data[j].key = key
    BY <1>1 DEF Holds, Stores
  <2>2. key \in Keys
    BY <1>1, <2>1 DEF Sound, Sits
  <2> QED
    BY <1>3, <2>2, FoundFacts DEF a0_map_get
<1>4. Rest(table, 0) = Occ(table.cap, table.data)
  <2>1. Rest(table, 0) = Occ(table.cap, table.data) \ Passed(table, 0)
    BY <1>1, RestIs
  <2>2. Passed(table, 0) = {}
    BY DEF Passed, Occ, Idx
  <2> QED
    BY <2>1, <2>2
<1>5. \A i, j \in Rest(table, 0) : table.data[i].key = table.data[j].key => i = j
  BY <1>1, <1>4 DEF Sound, Unique
<1>6. {table.data[i].key : i \in Rest(table, 0)} = DOMAIN content
  BY <1>1, <1>4 DEF Holds, Stores
<1>7. a0_map_size(table) = Cardinality(DOMAIN content)
  BY <1>1, SizeIs DEF a0_map_size
<1> QED
  BY <1>2, <1>3, <1>5, <1>6, <1>7

(* For every set of keys, every hash of them and every sequence of puts,   *)
(* deletions and counts, the table of map.c answers as a function between  *)
(* the calls: a key is found exactly if it was put and not deleted, with   *)
(* its last value, the iterator returns every entry once, and the size is  *)
(* the number of the keys.                                                 *)
THEOREM MapFunction == MapSpec => []MapIsFunction
<1>1. MapInit => MapInv
  BY InitStep
<1>2. MapInv /\ [MapNext]_mapvars => MapInv'
  BY MapStep
<1>3. MapInv => MapIsFunction
  BY InvMeans
<1> QED
  BY <1>1, <1>2, <1>3, PTL DEF MapSpec

(* While the table is copied into one of twice its capacity, the put of an *)
(* entry never finds that one full: a0_map_grow does not call itself, and  *)
(* every search for a place meets an empty bucket, because less than half  *)
(* of the buckets are in use.                                              *)
THEOREM MapHasRoom ==
  MapSpec => [](pc # "nested" /\ (Placing => table.size * 2 < table.cap))
<1>1. MapInit => MapInv
  BY InitStep
<1>2. MapInv /\ [MapNext]_mapvars => MapInv'
  BY MapStep
<1>3. MapInv => pc # "nested" /\ (Placing => table.size * 2 < table.cap)
  BY PlacingFacts DEF MapInv
<1> QED
  BY <1>1, <1>2, <1>3, PTL DEF MapSpec

-----------------------------------------------------------------------------
(* Times.                                                                  *)

Timespecs == [sec : Int, nsec : 0..(NS_PER_SEC - 1)]

LEMMA Divides ==
  ASSUME NEW n \in Nat \ {0}, NEW a \in Nat
  PROVE  a \div n \in Nat /\ n * (a \div n) <= a /\ a < n * (a \div n) + n
OBVIOUS

\* Division towards zero leaves a remainder of the sign of the dividend.
LEMMA Remainder ==
  ASSUME NEW n \in Nat \ {0}, NEW a \in Int
  PROVE  /\ Quot(a, n) \in Int /\ Rem(a, n) \in Int
         /\ a = n * Quot(a, n) + Rem(a, n)
         /\ Rem(a, n) < n /\ -n < Rem(a, n)
<1>1. CASE a >= 0
  <2> DEFINE q == a \div n
  <2>1. q \in Nat /\ n * q <= a /\ a < n * q + n
    BY <1>1, Divides
  <2>2. Quot(a, n) = q
    BY <1>1 DEF Quot
  <2> HIDE DEF q
  <2> QED
    BY <2>1, <2>2 DEF Rem
<1>2. CASE a < 0
  <2> DEFINE b == -a
             q == b \div n
  <2>0. b \in Nat
    BY <1>2
  <2>1. q \in Nat /\ n * q <= b /\ b < n * q + n
    <3> HIDE DEF b
    <3> QED
      BY <2>0, Divides
  <2>2. Quot(a, n) = -q
    BY <1>2 DEF Quot
  <2> HIDE DEF q
  <2> QED
    BY <1>2, <2>1, <2>2 DEF Rem
<1> QED
  BY <1>1, <1>2

(* a0_clock_add is exact and its result normalised, whatever is added and  *)
(* however many nanoseconds a second has: the borrow and the carry of      *)
(* clock.h are enough for negative differences as well.                    *)
THEOREM ClockAddExact ==
  ASSUME NEW ts \in Timespecs, NEW n \in Int
  PROVE  a0_clock_add(ts, n) \in Timespecs /\ Nanos(a0_clock_add(ts, n)) = Nanos(ts) + n
<1> DEFINE ns == NS_PER_SEC
           q == Quot(n, ns)
           r == Rem(n, ns)
           s == ts.sec
           t == ts.nsec
           sum == a0_clock_add(ts, n)
<1>1. ns \in Nat \ {0}
  BY TimeAssumption
<1>2. q \in Int /\ r \in Int /\ n = ns * q + r /\ r < ns /\ -ns < r
  <2> HIDE DEF ns
  <2> QED
    BY <1>1, Remainder
<1>3. s \in Int /\ t \in 0..(ns - 1)
  BY DEF Timespecs
<1>4. /\ t + r >= ns => sum = [sec |-> s + q + 1, nsec |-> t + r - ns]
      /\ ~(t + r >= ns) /\ t + r < 0 => sum = [sec |-> s + q - 1, nsec |-> t + r + ns]
      /\ ~(t + r >= ns) /\ ~(t + r < 0) => sum = [sec |-> s + q, nsec |-> t + r]
  <2>1. ASSUME t + r >= ns PROVE sum = [sec |-> s + q + 1, nsec |-> t + r - ns]
    BY <1>1, <1>2, <1>3, <2>1 DEF a0_clock_add
  <2>2. ASSUME ~(t + r >= ns), t + r < 0 PROVE sum = [sec |-> s + q - 1, nsec |-> t + r + ns]
    BY <1>1, <1>2, <1>3, <2>2 DEF a0_clock_add
  <2>3. ASSUME ~(t + r >= ns), ~(t + r < 0) PROVE sum = [sec |-> s + q, nsec |-> t + r]
    BY <1>1, <1>2, <1>3, <2>3 DEF a0_clock_add
  <2> QED
    BY <2>1, <2>2, <2>3
<1>5. Nanos(ts) = s * ns + t /\ Nanos(sum) = sum.sec * ns + sum.nsec
  BY DEF Nanos
<1>6. Timespecs = [sec : Int, nsec : 0..(ns - 1)]
  BY DEF Timespecs
<1> HIDE DEF ns, q, r, s, t, sum
<1>7. CASE t + r >= ns
  <2>1. sum = [sec |-> s + q + 1, nsec |-> t + r - ns]
    BY <1>4, <1>7
  <2>2. sum.sec = s + q + 1 /\ sum.nsec = t + r - ns
    BY <2>1
  <2>3. t + r - ns \in 0..(ns - 1) /\ s + q + 1 \in Int
    BY <1>1, <1>2, <1>3, <1>7
  <2>4. (s + q + 1) * ns + (t + r - ns) = (s * ns + t) + (ns * q + r)
    BY <1>1, <1>2, <1>3
  <2> QED
    BY <1>2, <1>5, <1>6, <2>1, <2>2, <2>3, <2>4 DEF sum
<1>8. CASE t + r < 0
  <2>1. sum = [sec |-> s + q - 1, nsec |-> t + r + ns]
    BY <1>1, <1>2, <1>3, <1>4, <1>8
  <2>2. sum.sec = s + q - 1 /\ sum.nsec = t + r + ns
    BY <2>1
  <2>3. t + r + ns \in 0..(ns - 1) /\ s + q - 1 \in Int
    BY <1>1, <1>2, <1>3, <1>8
  <2>4. (s + q - 1) * ns + (t + r + ns) = (s * ns + t) + (ns * q + r)
    BY <1>1, <1>2, <1>3
  <2> QED
    BY <1>2, <1>5, <1>6, <2>1, <2>2, <2>3, <2>4 DEF sum
<1>9. CASE ~(t + r >= ns) /\ ~(t + r < 0)
  <2>1. sum = [sec |-> s + q, nsec |-> t + r]
    BY <1>4, <1>9
  <2>2. sum.sec = s + q /\ sum.nsec = t + r
    BY <2>1
  <2>3. t + r \in 0..(ns - 1) /\ s + q \in Int
    BY <1>1, <1>2, <1>3, <1>9
  <2>4. (s + q) * ns + (t + r) = (s * ns + t) + (ns * q + r)
    BY <1>1, <1>2, <1>3
  <2> QED
    BY <1>2, <1>5, <1>6, <2>1, <2>2, <2>3, <2>4 DEF sum
<1> QED
  BY <1>7, <1>8, <1>9

(* a0_clock_convert moves a time to another clock by exactly its distance  *)
(* from the present.                                                       *)
THEOREM ClockConvertExact ==
  ASSUME NEW orig_ts \in Timespecs, NEW orig_now \in Timespecs, NEW target_now \in Timespecs
  PROVE  /\ a0_clock_convert(orig_ts, orig_now, target_now) \in Timespecs
         /\ Nanos(a0_clock_convert(orig_ts, orig_now, target_now)) - Nanos(target_now)
              = Nanos(orig_ts) - Nanos(orig_now)
<1> DEFINE n == (orig_ts.sec - orig_now.sec) * NS_PER_SEC + (orig_ts.nsec - orig_now.nsec)
           ts == a0_clock_convert(orig_ts, orig_now, target_now)
<1>1. /\ NS_PER_SEC \in Int /\ orig_ts.sec \in Int /\ orig_now.sec \in Int /\ target_now.sec \in Int
      /\ orig_ts.nsec \in Int /\ orig_now.nsec \in Int /\ target_now.nsec \in Int
  BY TimeAssumption DEF Timespecs
<1>2. n \in Int /\ n = Nanos(orig_ts) - Nanos(orig_now)
      /\ Nanos(target_now) \in Int /\ Nanos(orig_ts) \in Int /\ Nanos(orig_now) \in Int
  BY <1>1 DEF Nanos
<1>3. ts = a0_clock_add(target_now, n)
  BY DEF a0_clock_convert
<1> HIDE DEF n, ts
<1>4. ts \in Timespecs /\ Nanos(ts) = Nanos(target_now) + n
  BY <1>2, <1>3, ClockAddExact
<1> QED
  BY <1>2, <1>4 DEF ts

-----------------------------------------------------------------------------
(* A loop that goes back to the last star.                                 *)

\* The first g elements of the pattern are cut to end at r.
Reaches(n, m, stars, fits, g, r) ==
  \E pos \in [0..n -> 0..m] : pos[g] = r /\ Cut(g, stars, fits, pos)

(* Where the loops of a0_pathglob_match and a0_pathglob_pattern_match are, *)
(* g elements of the pattern and r of the text behind them: since the last *)
(* star, element sg, every element fitted; what the star has taken by now  *)
(* can be cut; and if the text fits at all, it fits with a star that takes *)
(* at least that much.                                                     *)
Since(n, m, stars, fits, g, r, sg, sr) ==
  /\ g \in 0..n /\ r \in 0..m /\ sg \in 0..g /\ sr \in 0..r
  /\ r - sr = g - sg
  /\ sg = 0 => sr = 0
  /\ sg # 0 => sg \in stars
  /\ \A i \in sg + 1..g : i \notin stars /\ <<i, sr + (i - sg)>> \in fits
  /\ Reaches(n, m, stars, fits, sg, sr)
  /\ Fit(n, m, stars, fits) =>
       \E pos \in [0..n -> 0..m] : pos[n] = m /\ Cut(n, stars, fits, pos) /\ pos[sg] >= sr

\* Elements that are no stars take one each.
LEMMA Straight ==
  ASSUME NEW n \in Nat, NEW m \in Nat, NEW stars, NEW fits, NEW pos \in [0..n -> 0..m],
         Cut(n, stars, fits, pos), NEW g \in 0..n, NEW k \in 0..g,
         \A i \in k + 1..g : i \notin stars
  PROVE  pos[g] = pos[k] + (g - k)
<1> DEFINE T == {d \in Nat : k + d <= g /\ pos[k + d] # pos[k] + d}
<1>1. SUFFICES T = {}
  <2> SUFFICES ASSUME T = {} PROVE pos[g] = pos[k] + (g - k)
    OBVIOUS
  <2>1. g - k \in Nat /\ k + (g - k) = g /\ k + (g - k) <= g
    OBVIOUS
  <2> QED
    BY <2>1
<1>2. SUFFICES ASSUME NEW d \in T, \A e \in T : d <= e PROVE FALSE
  BY Least
<1>3. d # 0
  <2>1. k + 0 = k /\ pos[k] \in Int
    OBVIOUS
  <2> QED
    BY <2>1
<1>4. d - 1 \in Nat /\ d \in Nat /\ d >= 1 /\ k + (d - 1) = (k + d) - 1 /\ k + d <= g /\ k + d \in 1..n /\ k + d \in k + 1..g
  BY <1>2, <1>3
<1>5. d - 1 \notin T
  <2> HIDE DEF T
  <2> QED
    BY <1>2, <1>4
<1>6. pos[(k + d) - 1] = pos[k] + (d - 1)
  BY <1>4, <1>5
<1>7. pos[k + d] = pos[(k + d) - 1] + 1
  BY <1>4 DEF Cut
<1>8. pos[k] \in Int
  OBVIOUS
<1> QED
  BY <1>2, <1>4, <1>6, <1>7, <1>8

\* No element ends before one that precedes it.
LEMMA Upward ==
  ASSUME NEW n \in Nat, NEW m \in Nat, NEW stars, NEW fits, NEW pos \in [0..n -> 0..m],
         Cut(n, stars, fits, pos), NEW k \in 0..n, NEW g \in k..n
  PROVE  pos[k] <= pos[g]
<1> DEFINE T == {d \in Nat : k + d <= n /\ pos[k + d] < pos[k]}
<1>1. SUFFICES T = {}
  <2> SUFFICES ASSUME T = {} PROVE pos[k] <= pos[g]
    OBVIOUS
  <2>1. g - k \in Nat /\ k + (g - k) = g /\ k + (g - k) <= n
    OBVIOUS
  <2>2. pos[k] \in Int /\ pos[g] \in Int
    OBVIOUS
  <2>3. g - k \notin T
    OBVIOUS
  <2>4. ~ (pos[g] < pos[k])
    BY <2>1, <2>3
  <2> QED
    BY <2>2, <2>4
<1>2. SUFFICES ASSUME NEW d \in T, \A e \in T : d <= e PROVE FALSE
  BY Least
<1>3. d # 0
  <2>1. k + 0 = k /\ pos[k] \in Int
    OBVIOUS
  <2> QED
    BY <2>1
<1>4. d - 1 \in Nat /\ d \in Nat /\ d >= 1 /\ k + (d - 1) = (k + d) - 1 /\ k + d <= n /\ k + d \in 1..n
  BY <1>2, <1>3
<1>5. d - 1 \notin T
  <2> HIDE DEF T
  <2> QED
    BY <1>2, <1>4
<1>6. pos[k] \in Int /\ pos[k + d] \in Int /\ pos[(k + d) - 1] \in Int
  BY <1>4
<1>7. pos[(k + d) - 1] >= pos[k]
  BY <1>4, <1>5, <1>6
<1>8. pos[k + d] >= pos[(k + d) - 1]
  <2>1. IF k + d \in stars THEN pos[(k + d) - 1] <= pos[k + d] ELSE pos[k + d] = pos[(k + d) - 1] + 1
    BY <1>4 DEF Cut
  <2> QED
    BY <1>6, <2>1
<1> QED
  BY <1>2, <1>4, <1>6, <1>7, <1>8

\* Where the elements since the last star end, in a cut of the whole.
LEMMA EndsHere ==
  ASSUME NEW n \in Nat, NEW m \in Nat, NEW stars, NEW fits, NEW g, NEW r, NEW sg, NEW sr,
         Since(n, m, stars, fits, g, r, sg, sr),
         NEW pos \in [0..n -> 0..m], Cut(n, stars, fits, pos)
  PROVE  pos[g] \in 0..m /\ pos[sg] \in 0..m /\ pos[g] - pos[sg] = r - sr
<1>1. g \in 0..n /\ sg \in 0..g /\ r \in 0..m /\ sr \in 0..r /\ r - sr = g - sg
  BY DEF Since
<1>2. \A i \in sg + 1..g : i \notin stars
  BY DEF Since
<1>3. pos[g] = pos[sg] + (g - sg)
  BY <1>1, <1>2, Straight
<1>4. g \in 0..n /\ sg \in 0..n
  BY <1>1
<1>5. pos[g] = pos[sg] + (g - sg) /\ pos[g] \in 0..m /\ pos[sg] \in 0..m
  BY <1>3, <1>4
<1> QED
  BY <1>1, <1>5

\* A cut that ends at r, extended up to g.
LEMMA ReachesHere ==
  ASSUME NEW n \in Nat, NEW m \in Nat, NEW stars, NEW fits, NEW g, NEW r, NEW sg, NEW sr,
         Since(n, m, stars, fits, g, r, sg, sr)
  PROVE  Reaches(n, m, stars, fits, g, r)
<1>1. g \in 0..n /\ sg \in 0..g /\ r \in 0..m /\ sr \in 0..r /\ r - sr = g - sg
  BY DEF Since
<1>2. PICK pos \in [0..n -> 0..m] : pos[sg] = sr /\ Cut(sg, stars, fits, pos)
  BY DEF Since, Reaches
<1> DEFINE new == [i \in 0..n |-> IF i <= sg THEN pos[i] ELSE IF i <= g THEN sr + (i - sg) ELSE m]
<1>3. new \in [0..n -> 0..m]
  BY <1>1
<1>4. new[g] = r /\ new[0] = pos[0]
  BY <1>1, <1>2
<1>5. ASSUME NEW i \in 1..g
      PROVE  IF i \in stars THEN new[i - 1] <= new[i] ELSE new[i] = new[i - 1] + 1 /\ <<i, new[i]>> \in fits
  <2>1. CASE i <= sg
    <3>1. i \in 1..sg /\ i - 1 \in 0..n /\ i \in 0..n /\ new[i] = pos[i] /\ new[i - 1] = pos[i - 1]
      BY <1>1, <2>1
    <3> QED
      BY <1>2, <3>1 DEF Cut
  <2>2. CASE i > sg
    <3>1. i \in sg + 1..g /\ i - 1 \in 0..n /\ i \in 0..n /\ new[i] = sr + (i - sg)
      BY <1>1, <2>2
    <3>2. i \notin stars /\ <<i, sr + (i - sg)>> \in fits
      BY <3>1 DEF Since
    <3>3. new[i - 1] = sr + ((i - 1) - sg)
      BY <1>1, <1>2, <2>2, <3>1
    <3> HIDE DEF new
    <3>4. new[i] = new[i - 1] + 1
      BY <1>1, <3>1, <3>3
    <3> QED
      BY <3>1, <3>2, <3>4
  <2> QED
    BY <1>1, <2>1, <2>2
<1>6. Cut(g, stars, fits, new)
  <2> HIDE DEF new
  <2>1. new[0] = 0
    BY <1>2, <1>4 DEF Cut
  <2> QED
    BY <1>5, <2>1 DEF Cut
<1> HIDE DEF new
<1> QED
  BY <1>3, <1>4, <1>6 DEF Reaches

\* A cut up to g, and only stars behind it.
LEMMA StarsEnd ==
  ASSUME NEW n \in Nat, NEW m \in Nat, NEW stars, NEW fits, NEW g \in 0..n, NEW r \in 0..m,
         Reaches(n, m, stars, fits, g, r), \A i \in g + 1..n : i \in stars, g = n => r = m
  PROVE  Fit(n, m, stars, fits)
<1>1. PICK pos \in [0..n -> 0..m] : pos[g] = r /\ Cut(g, stars, fits, pos)
  BY DEF Reaches
<1> DEFINE new == [i \in 0..n |-> IF i <= g THEN pos[i] ELSE m]
<1>2. new \in [0..n -> 0..m]
  OBVIOUS
<1>3. new[0] = pos[0] /\ new[n] = m
  BY <1>1
<1>4. ASSUME NEW i \in 1..n
      PROVE  IF i \in stars THEN new[i - 1] <= new[i] ELSE new[i] = new[i - 1] + 1 /\ <<i, new[i]>> \in fits
  <2>1. CASE i <= g
    <3>1. i \in 1..g /\ i - 1 \in 0..n /\ i \in 0..n /\ new[i] = pos[i] /\ new[i - 1] = pos[i - 1]
      BY <2>1
    <3> QED
      BY <1>1, <3>1 DEF Cut
  <2>2. CASE i > g
    <3>1. i \in g + 1..n /\ i - 1 \in 0..n /\ i \in 0..n /\ new[i] = m
      BY <2>2
    <3>2. i \in stars
      BY <3>1
    <3>3. new[i - 1] \in 0..m
      BY <1>2, <3>1
    <3> HIDE DEF new
    <3> QED
      BY <3>1, <3>2, <3>3
  <2> QED
    BY <2>1, <2>2
<1>5. Cut(n, stars, fits, new)
  <2> HIDE DEF new
  <2>1. new[0] = 0
    BY <1>1, <1>3 DEF Cut
  <2> QED
    BY <1>4, <2>1 DEF Cut
<1> HIDE DEF new
<1> QED
  BY <1>2, <1>3, <1>5 DEF Fit

LEMMA SinceStart ==
  ASSUME NEW n \in Nat, NEW m \in Nat, NEW stars, NEW fits
  PROVE  Since(n, m, stars, fits, 0, 0, 0, 0)
<1>1. Reaches(n, m, stars, fits, 0, 0)
  <2> DEFINE pos == [i \in 0..n |-> 0]
  <2>1. pos \in [0..n -> 0..m] /\ pos[0] = 0
    OBVIOUS
  <2>2. Cut(0, stars, fits, pos)
    BY <2>1 DEF Cut
  <2> QED
    BY <2>1, <2>2 DEF Reaches
<1>2. ASSUME Fit(n, m, stars, fits)
      PROVE  \E pos \in [0..n -> 0..m] : pos[n] = m /\ Cut(n, stars, fits, pos) /\ pos[0] >= 0
  <2>1. PICK pos \in [0..n -> 0..m] : pos[n] = m /\ Cut(n, stars, fits, pos)
    BY <1>2 DEF Fit
  <2>2. pos[0] >= 0
    BY <2>1 DEF Cut
  <2> QED
    BY <2>1, <2>2
<1> QED
  BY <1>1, <1>2 DEF Since

\* A star is met.
LEMMA SinceStar ==
  ASSUME NEW n \in Nat, NEW m \in Nat, NEW stars, NEW fits, NEW g, NEW r, NEW sg, NEW sr,
         Since(n, m, stars, fits, g, r, sg, sr), g < n, g + 1 \in stars
  PROVE  Since(n, m, stars, fits, g + 1, r, g + 1, r)
<1>1. g \in 0..n /\ sg \in 0..g /\ r \in 0..m /\ sr \in 0..r /\ r - sr = g - sg
  BY DEF Since
<1>2. Reaches(n, m, stars, fits, g + 1, r)
  <2>1. PICK pos \in [0..n -> 0..m] : pos[g] = r /\ Cut(g, stars, fits, pos)
    BY ReachesHere DEF Reaches
  <2> DEFINE new == [pos EXCEPT ![g + 1] = r]
  <2>2. new \in [0..n -> 0..m] /\ new[g + 1] = r /\ new[g] = r /\ \A i \in 0..g : new[i] = pos[i]
    BY <1>1, <2>1
  <2> HIDE DEF new
  <2>3. ASSUME NEW i \in 1..g + 1
        PROVE  IF i \in stars THEN new[i - 1] <= new[i] ELSE new[i] = new[i - 1] + 1 /\ <<i, new[i]>> \in fits
    <3>1. CASE i = g + 1
      <4>1. i - 1 = g /\ new[i] = r /\ new[i - 1] = r /\ i \in stars
        BY <1>1, <2>2, <3>1
      <4> QED
        BY <1>1, <4>1
    <3>2. CASE i # g + 1
      <4>1. i \in 1..g /\ i \in 0..g /\ i - 1 \in 0..g
        BY <1>1, <3>2
      <4>2. new[i] = pos[i] /\ new[i - 1] = pos[i - 1]
        BY <2>2, <4>1
      <4> QED
        BY <2>1, <4>1, <4>2 DEF Cut
    <3> QED
      BY <3>1, <3>2
  <2>4. new[0] = 0
    BY <1>1, <2>1, <2>2 DEF Cut
  <2>5. Cut(g + 1, stars, fits, new)
    BY <2>3, <2>4 DEF Cut
  <2> QED
    BY <2>2, <2>5 DEF Reaches
<1>3. ASSUME Fit(n, m, stars, fits)
      PROVE  \E pos \in [0..n -> 0..m] : pos[n] = m /\ Cut(n, stars, fits, pos) /\ pos[g + 1] >= r
  <2>1. PICK pos \in [0..n -> 0..m] : pos[n] = m /\ Cut(n, stars, fits, pos) /\ pos[sg] >= sr
    BY <1>3 DEF Since
  <2>2. pos[g] \in 0..m /\ pos[sg] \in 0..m /\ pos[g] - pos[sg] = r - sr
    BY <2>1, EndsHere
  <2>3. g \in 0..n /\ g + 1 \in g..n /\ pos[g + 1] \in 0..m
    BY <1>1
  <2>4. pos[g] <= pos[g + 1]
    BY <2>1, <2>3, Upward
  <2>5. pos[g + 1] >= r
    BY <1>1, <2>1, <2>2, <2>3, <2>4
  <2> QED
    BY <2>1, <2>5
<1>4. g + 1 \in 0..n /\ r \in 0..m /\ g + 1 \in 0..g + 1 /\ r \in 0..r /\ r - r = (g + 1) - (g + 1) /\ g + 1 # 0
  BY <1>1
<1>5. \A i \in (g + 1) + 1..g + 1 : FALSE
  BY <1>1
<1> QED
  BY <1>2, <1>3, <1>4, <1>5 DEF Since

\* An element fits.
LEMMA SinceSame ==
  ASSUME NEW n \in Nat, NEW m \in Nat, NEW stars, NEW fits, NEW g, NEW r, NEW sg, NEW sr,
         Since(n, m, stars, fits, g, r, sg, sr), g < n, r < m,
         g + 1 \notin stars, <<g + 1, r + 1>> \in fits
  PROVE  Since(n, m, stars, fits, g + 1, r + 1, sg, sr)
<1>1. g \in 0..n /\ sg \in 0..g /\ r \in 0..m /\ sr \in 0..r /\ r - sr = g - sg
  BY DEF Since
<1>2. g + 1 \in 0..n /\ r + 1 \in 0..m /\ sg \in 0..g + 1 /\ sr \in 0..r + 1 /\ (r + 1) - sr = (g + 1) - sg
  BY <1>1
<1>3. ASSUME NEW i \in sg + 1..g + 1 PROVE i \notin stars /\ <<i, sr + (i - sg)>> \in fits
  <2>1. CASE i = g + 1
    <3>1. sr + (i - sg) = r + 1
      BY <1>1, <2>1
    <3> QED
      BY <2>1, <3>1
  <2>2. CASE i # g + 1
    <3>1. i \in sg + 1..g
      BY <1>1, <2>2
    <3> QED
      BY <3>1 DEF Since
  <2> QED
    BY <2>1, <2>2
<1> QED
  BY <1>2, <1>3 DEF Since

\* The next element is no star and does not fit, or there is none.
Stuck(n, stars, fits, g, r) == g = n \/ (g + 1 \notin stars /\ <<g + 1, r + 1>> \notin fits)

LEMMA NotHere ==
  ASSUME NEW n \in Nat, NEW m \in Nat, NEW stars, NEW fits, NEW g, NEW r, NEW sg, NEW sr,
         Since(n, m, stars, fits, g, r, sg, sr), r < m, Stuck(n, stars, fits, g, r),
         NEW pos \in [0..n -> 0..m], pos[n] = m, Cut(n, stars, fits, pos)
  PROVE  pos[sg] # sr
<1>1. g \in 0..n /\ sg \in 0..g /\ r \in 0..m /\ sr \in 0..r /\ r - sr = g - sg
  BY DEF Since
<1>2. pos[g] \in 0..m /\ pos[sg] \in 0..m /\ pos[g] - pos[sg] = r - sr
  BY EndsHere
<1>3. SUFFICES ASSUME pos[g] = r PROVE FALSE
  BY <1>1, <1>2
<1>4. g # n
  BY <1>1, <1>3
<1>5. g + 1 \in 1..n /\ (g + 1) - 1 = g
  BY <1>1, <1>4
<1>6. g + 1 \notin stars /\ <<g + 1, r + 1>> \notin fits
  BY <1>4 DEF Stuck
<1>7. pos[g + 1] = pos[g] + 1 /\ <<g + 1, pos[g + 1]>> \in fits
  BY <1>5, <1>6 DEF Cut
<1> QED
  BY <1>3, <1>6, <1>7

\* The last star takes one more.
LEMMA SinceBack ==
  ASSUME NEW n \in Nat, NEW m \in Nat, NEW stars, NEW fits, NEW g, NEW r, NEW sg, NEW sr,
         Since(n, m, stars, fits, g, r, sg, sr), r < m, Stuck(n, stars, fits, g, r), sg # 0
  PROVE  Since(n, m, stars, fits, sg, sr + 1, sg, sr + 1)
<1>1. /\ g \in 0..n /\ sg \in 0..g /\ r \in 0..m /\ sr \in 0..r /\ r - sr = g - sg
      /\ sg \in stars
  BY DEF Since
<1>2. Reaches(n, m, stars, fits, sg, sr + 1)
  <2>1. PICK pos \in [0..n -> 0..m] : pos[sg] = sr /\ Cut(sg, stars, fits, pos)
    BY DEF Since, Reaches
  <2> DEFINE new == [pos EXCEPT ![sg] = sr + 1]
  <2>2. sg \in 0..n /\ sg - 1 \in 0..n /\ sr + 1 \in 0..m /\ sg >= 1
    BY <1>1
  <2>3. new \in [0..n -> 0..m] /\ new[sg] = sr + 1 /\ \A i \in 0..n : i # sg => new[i] = pos[i]
    BY <2>2
  <2> HIDE DEF new
  <2>4. ASSUME NEW i \in 1..sg
        PROVE  IF i \in stars THEN new[i - 1] <= new[i] ELSE new[i] = new[i - 1] + 1 /\ <<i, new[i]>> \in fits
    <3>1. CASE i = sg
      <4>1. pos[sg - 1] <= pos[sg]
        BY <1>1, <3>1, <2>1 DEF Cut
      <4>2. new[sg - 1] = pos[sg - 1] /\ pos[sg - 1] \in 0..m
        BY <2>2, <2>3
      <4>3. new[sg - 1] <= new[sg]
        BY <1>1, <2>1, <2>3, <4>1, <4>2
      <4> QED
        BY <1>1, <3>1, <4>3
    <3>2. CASE i # sg
      <4>1. i \in 0..n /\ i - 1 \in 0..n /\ i - 1 # sg
        BY <1>1, <3>2
      <4>2. new[i] = pos[i] /\ new[i - 1] = pos[i - 1]
        BY <2>3, <3>2, <4>1
      <4> QED
        BY <2>1, <4>2 DEF Cut
    <3> QED
      BY <3>1, <3>2
  <2>5. new[0] = 0
    BY <1>1, <2>1, <2>2, <2>3 DEF Cut
  <2>6. Cut(sg, stars, fits, new)
    BY <2>4, <2>5 DEF Cut
  <2> QED
    BY <2>3, <2>6 DEF Reaches
<1>3. ASSUME Fit(n, m, stars, fits)
      PROVE  \E pos \in [0..n -> 0..m] : pos[n] = m /\ Cut(n, stars, fits, pos) /\ pos[sg] >= sr + 1
  <2>1. PICK pos \in [0..n -> 0..m] : pos[n] = m /\ Cut(n, stars, fits, pos) /\ pos[sg] >= sr
    BY <1>3 DEF Since
  <2>2. pos[sg] # sr
    BY <2>1, NotHere
  <2>3. pos[sg] \in 0..m
    BY <1>1
  <2>4. pos[sg] >= sr + 1
    BY <1>1, <2>1, <2>2, <2>3
  <2> QED
    BY <2>1, <2>4
<1>4. sg \in 0..n /\ sr + 1 \in 0..m /\ sg \in 0..sg /\ sr + 1 \in 0..sr + 1 /\ (sr + 1) - (sr + 1) = sg - sg
  BY <1>1
<1>5. \A i \in sg + 1..sg : FALSE
  BY <1>1
<1> QED
  BY <1>1, <1>2, <1>3, <1>4, <1>5 DEF Since

\* Without a star to go back to, the text does not fit.
LEMMA SinceFail ==
  ASSUME NEW n \in Nat, NEW m \in Nat, NEW stars, NEW fits, NEW g, NEW r, NEW sg, NEW sr,
         Since(n, m, stars, fits, g, r, sg, sr), r < m, Stuck(n, stars, fits, g, r), sg = 0
  PROVE  ~ Fit(n, m, stars, fits)
<1> SUFFICES ASSUME Fit(n, m, stars, fits) PROVE FALSE
  OBVIOUS
<1>1. PICK pos \in [0..n -> 0..m] : pos[n] = m /\ Cut(n, stars, fits, pos)
  BY DEF Fit
<1>2. pos[sg] # sr
  BY <1>1, NotHere
<1>3. pos[0] = 0 /\ sr = 0
  BY <1>1 DEF Cut, Since
<1> QED
  BY <1>2, <1>3

\* At the end of the text.
LEMMA SinceEnd ==
  ASSUME NEW n \in Nat, NEW m \in Nat, NEW stars, NEW fits, NEW g, NEW r, NEW sg, NEW sr,
         Since(n, m, stars, fits, g, r, sg, sr), r = m
  PROVE  Fit(n, m, stars, fits) <=> \A i \in g + 1..n : i \in stars
<1>1. g \in 0..n /\ sg \in 0..g /\ r \in 0..m /\ sr \in 0..r /\ r - sr = g - sg
  BY DEF Since
<1>2. ASSUME \A i \in g + 1..n : i \in stars PROVE Fit(n, m, stars, fits)
  BY <1>1, <1>2, ReachesHere, StarsEnd
<1>3. ASSUME Fit(n, m, stars, fits), NEW i \in g + 1..n PROVE i \in stars
  <2> SUFFICES ASSUME i \notin stars PROVE FALSE
    OBVIOUS
  <2>1. PICK pos \in [0..n -> 0..m] : pos[n] = m /\ Cut(n, stars, fits, pos) /\ pos[sg] >= sr
    BY <1>3 DEF Since
  <2>2. pos[g] \in 0..m /\ pos[sg] \in 0..m /\ pos[g] - pos[sg] = r - sr
    BY <2>1, EndsHere
  <2>3. i \in 1..n /\ g \in 0..n /\ i - 1 \in g..n /\ i - 1 \in 0..n /\ i \in 0..n
    BY <1>1, <1>3
  <2>4. pos[g] <= pos[i - 1]
    BY <2>1, <2>3, Upward
  <2>5. pos[i] = pos[i - 1] + 1
    BY <2>1, <2>3 DEF Cut
  <2>6. pos[i] \in 0..m /\ pos[i - 1] \in 0..m
    BY <2>3
  <2> QED
    BY <1>1, <2>1, <2>2, <2>4, <2>5, <2>6
<1> QED
  BY <1>2, <1>3

\* A star that is the last element takes the rest.
LEMMA SinceLast ==
  ASSUME NEW n \in Nat, NEW m \in Nat, NEW stars, NEW fits, NEW g, NEW r, NEW sg, NEW sr,
         Since(n, m, stars, fits, g, r, sg, sr), g + 1 = n, n \in stars
  PROVE  Fit(n, m, stars, fits)
<1>1. g \in 0..n /\ r \in 0..m
  BY DEF Since
<1>2. \A i \in g + 1..n : i \in stars
  BY <1>1
<1> QED
  BY <1>1, <1>2, ReachesHere, StarsEnd

-----------------------------------------------------------------------------
(* The parts of a pattern and of a path.                                   *)

\* A finite set of numbers has an order.
LEMMA Ascending ==
  ASSUME NEW S \in SUBSET Nat, IsFiniteSet(S)
  PROVE  \E f \in [1..Cardinality(S) -> S] : \A i, j \in DOMAIN f : i < j => f[i] < f[j]
<1> DEFINE Listed(R) == \E f \in [1..Cardinality(R) -> R] : \A i, j \in DOMAIN f : i < j => f[i] < f[j]
           T == {n \in Nat : \E R \in SUBSET Nat : IsFiniteSet(R) /\ Cardinality(R) = n /\ ~ Listed(R)}
<1>1. SUFFICES T = {}
  <2>1. Cardinality(S) \in Nat
    BY FS_CardinalityType
  <2> HIDE DEF Listed
  <2>2. Listed(S)
    BY <1>1, <2>1
  <2> QED
    BY <2>2 DEF Listed
<1>2. SUFFICES ASSUME NEW n \in T, \A k \in T : n <= k PROVE FALSE
  <2> HIDE DEF T
  <2>1. T \in SUBSET Nat
    BY DEF T
  <2> QED
    BY <1>2, <2>1, Least
<1>3. PICK R \in SUBSET Nat : IsFiniteSet(R) /\ Cardinality(R) = n /\ ~ Listed(R)
  BY <1>2
<1>4. n \in Nat
  BY <1>2
<1>5. R # {}
  <2> SUFFICES ASSUME R = {} PROVE FALSE
    OBVIOUS
  <2>1. Cardinality(R) = 0
    BY FS_EmptySet
  <2> DEFINE f == [i \in 1..Cardinality(R) |-> 0]
  <2>2. f \in [1..Cardinality(R) -> R] /\ DOMAIN f = {}
    BY <2>1
  <2> QED
    BY <1>3, <2>2
<1>6. PICK x \in R : \A y \in R : x <= y
  BY <1>5, Least
<1>7. IsFiniteSet(R \ {x}) /\ Cardinality(R \ {x}) = n - 1 /\ R \ {x} \in SUBSET Nat
  BY <1>3, FS_RemoveElement
<1>8. Cardinality(R \ {x}) \in Nat
  BY <1>7, FS_CardinalityType
<1>9. n - 1 \notin T
  <2> HIDE DEF T
  <2> QED
    BY <1>2, <1>4
<1>10. Listed(R \ {x})
  <2> HIDE DEF Listed
  <2> QED
    BY <1>7, <1>8, <1>9
<1>11. PICK f \in [1..n - 1 -> R \ {x}] : \A i, j \in DOMAIN f : i < j => f[i] < f[j]
  BY <1>7, <1>10
<1> DEFINE h == [i \in 1..n |-> IF i = 1 THEN x ELSE f[i - 1]]
<1>12. n >= 1
  BY <1>4, <1>7, <1>8
<1>13. \A i \in 2..n : i - 1 \in 1..n - 1 /\ h[i] = f[i - 1] /\ h[i] \in R /\ h[i] # x
  <2> TAKE i \in 2..n
  <2>1. i - 1 \in 1..n - 1 /\ i \in 1..n /\ i # 1
    BY <1>4
  <2>2. h[i] = f[i - 1] /\ f[i - 1] \in R \ {x}
    BY <2>1
  <2> QED
    BY <2>1, <2>2
<1>14. h[1] = x
  BY <1>4, <1>12
<1>15. h \in [1..n -> R]
  <2>1. ASSUME NEW i \in 1..n PROVE h[i] \in R
    <3>1. i = 1 \/ i \in 2..n
      BY <1>4
    <3> HIDE DEF h
    <3> QED
      BY <1>13, <1>14, <3>1
  <2> QED
    BY <2>1
<1>16. ASSUME NEW i \in 1..n, NEW j \in 1..n, i < j PROVE h[i] < h[j]
  <2> HIDE DEF h
  <2>1. j \in 2..n /\ h[j] \in R /\ h[j] # x /\ h[j] = f[j - 1] /\ j - 1 \in 1..n - 1
    BY <1>4, <1>13, <1>16
  <2>2. CASE i = 1
    <3>1. h[i] = x /\ x <= h[j] /\ x \in Nat /\ h[j] \in Nat
      BY <1>6, <1>14, <2>1, <2>2
    <3> QED
      BY <2>1, <3>1
  <2>3. CASE i # 1
    <3>1. i \in 2..n /\ i - 1 < j - 1
      BY <1>4, <1>16, <2>3
    <3>2. i - 1 \in DOMAIN f /\ j - 1 \in DOMAIN f /\ h[i] = f[i - 1]
      BY <1>13, <2>1, <3>1
    <3>3. f[i - 1] < f[j - 1]
      BY <1>11, <3>1, <3>2
    <3> QED
      BY <2>1, <3>2, <3>3
  <2> QED
    BY <2>2, <2>3
<1> HIDE DEF h
<1>17. DOMAIN h = 1..n
  BY <1>15
<1> QED
  BY <1>3, <1>15, <1>16, <1>17

LEMMA StartsAre ==
  ASSUME NEW s \in Seq(Char)
  PROVE  /\ Cardinality(Slashes(s)) \in Nat
         /\ Starts(s) \in [1..Cardinality(Slashes(s)) -> Slashes(s)]
<1>1. Slashes(s) \in SUBSET (1..Len(s)) /\ Len(s) \in Nat
  BY DEF Slashes
<1>2. IsFiniteSet(1..Len(s))
  BY <1>1, FS_Interval
<1>3. IsFiniteSet(Slashes(s))
  BY <1>1, <1>2, FS_Subset
<1>4. Slashes(s) \in SUBSET Nat
  BY <1>1
<1>5. Cardinality(Slashes(s)) \in Nat
  BY <1>3, FS_CardinalityType
<1>6. \E f \in [1..Cardinality(Slashes(s)) -> Slashes(s)] : \A i, j \in DOMAIN f : i < j => f[i] < f[j]
  BY <1>3, <1>4, Ascending
<1> QED
  BY <1>5, <1>6 DEF Starts

LEMMA PartEndIs ==
  ASSUME NEW s \in Seq(Char), NEW i \in Slashes(s)
  PROVE  PartEnd(s, i) \in i..Len(s) /\ \A j \in i + 1..PartEnd(s, i) : s[j] # "/"
<1> DEFINE E == Slashes(s) \cup {Len(s) + 1}
           F == {e \in E : e > i}
           P(e) == e > i /\ \A d \in Slashes(s) : d > i => e <= d
<1>1. Len(s) \in Nat /\ i \in 1..Len(s) /\ \A d \in Slashes(s) : d \in 1..Len(s)
  BY DEF Slashes
<1>2. F \in SUBSET Nat /\ Len(s) + 1 \in F
  <2>1. \A e \in E : e \in Nat
    BY <1>1
  <2>2. Len(s) + 1 \in E /\ Len(s) + 1 > i
    BY <1>1
  <2> HIDE DEF E
  <2> QED
    BY <2>1, <2>2
<1>3. PICK x \in F : \A y \in F : x <= y
  <2> HIDE DEF F
  <2> QED
    BY <1>2, Least
<1>4. x \in E /\ P(x)
  BY <1>3
<1> DEFINE c == CHOOSE e \in E : P(e)
<1>5. c \in E /\ P(c)
  <2> HIDE DEF E, P
  <2> QED
    BY <1>4
<1>6. PartEnd(s, i) = c - 1
  BY DEF PartEnd
<1> HIDE DEF c
<1>7. c \in Nat /\ c <= Len(s) + 1 /\ c > i
  BY <1>1, <1>5
<1>8. ASSUME NEW j \in i + 1..c - 1, s[j] = "/" PROVE FALSE
  <2>1. j \in 1..Len(s) /\ j > i /\ j < c
    BY <1>1, <1>7, <1>8
  <2>2. j \in Slashes(s)
    BY <1>8, <2>1 DEF Slashes
  <2> QED
    BY <1>5, <1>7, <2>1, <2>2
<1> QED
  BY <1>1, <1>6, <1>7, <1>8

NoStar(str) == \A j \in 1..Len(str) : str[j] # "*"
Whole(str) == str \in Seq(Char) /\ \A j \in 1..Len(str) : str[j] # "/"

\* What a0_pathglob_init makes of a pattern or a path.
Parsed(parts) ==
  /\ \E C : parts \in Seq(C)
  /\ \A i \in 1..Len(parts) :
       /\ Whole(parts[i].str)
       /\ parts[i].after \in {"/", End}
       /\ parts[i].type \in {"VERBATIM", "PATTERN", "RECURSIVE"}
       /\ parts[i].type = "VERBATIM" => NoStar(parts[i].str)
       /\ parts[i].type = "RECURSIVE" <=> i \in 1..Len(parts) - 1 /\ parts[i].str = <<"*", "*">>

LEMMA Parsing ==
  ASSUME NEW s \in Seq(Char)
  PROVE  Parsed(a0_pathglob_init(s))
<1> DEFINE starts == Starts(s)
           depth == Cardinality(Slashes(s))
           Str(n) == SubSeq(s, starts[n] + 1, PartEnd(s, starts[n]))
           has_star(n) == \E i \in 1..PartEnd(s, starts[n]) : s[i] = "*"
           parts == a0_pathglob_init(s)
<1>1. depth \in Nat /\ starts \in [1..depth -> Slashes(s)]
  BY StartsAre
<1>2. parts = [n \in 1..depth |->
                 [str |-> Str(n), after |-> IF n < depth THEN "/" ELSE End,
                  type |-> IF ~has_star(n) THEN "VERBATIM"
                           ELSE IF n < depth /\ Str(n) = <<"*", "*">> THEN "RECURSIVE"
                           ELSE "PATTERN"]]
  BY DEF a0_pathglob_init
<1>3. ASSUME NEW n \in 1..depth
      PROVE  /\ Whole(Str(n))
             /\ ~has_star(n) => NoStar(Str(n))
             /\ Str(n) = <<"*", "*">> => has_star(n)
  <2> DEFINE b == starts[n]
             e == PartEnd(s, b)
  <2>1. b \in Slashes(s) /\ b \in 1..Len(s) /\ Len(s) \in Nat
    BY <1>1 DEF Slashes
  <2>2. e \in b..Len(s) /\ \A j \in b + 1..e : s[j] # "/"
    BY <2>1, PartEndIs
  <2> HIDE DEF b, e
  <2> DEFINE t == SubSeq(s, b + 1, e)
  <2>3. t \in Seq(Char) /\ Len(t) = e - b /\ \A j \in 1..e - b : t[j] = s[b + j]
    BY <2>1, <2>2
  <2> HIDE DEF t
  <2>4. Whole(t)
    <3> SUFFICES ASSUME NEW j \in 1..Len(t) PROVE t[j] # "/"
      BY <2>3 DEF Whole
    <3>1. b + j \in b + 1..e /\ t[j] = s[b + j]
      BY <2>1, <2>2, <2>3
    <3> QED
      BY <2>2, <3>1
  <2>5. ASSUME NEW j \in 1..Len(t), t[j] = "*" PROVE \E i \in 1..e : s[i] = "*"
    <3>1. b + j \in 1..e /\ t[j] = s[b + j]
      BY <2>1, <2>2, <2>3
    <3> QED
      BY <2>5, <3>1
  <2>6. ~ (\E i \in 1..e : s[i] = "*") => NoStar(t)
    BY <2>5 DEF NoStar
  <2>7. ASSUME t = <<"*", "*">> PROVE \E i \in 1..e : s[i] = "*"
    <3>1. 1 \in 1..Len(t) /\ t[1] = "*"
      BY <2>7
    <3> QED
      BY <2>5, <3>1
  <2> QED
    BY <2>4, <2>6, <2>7 DEF t, b, e
<1> HIDE DEF starts, depth, Str, has_star, parts
<1>4. Len(parts) = depth /\ \E C : parts \in Seq(C)
  <2> DEFINE C == {parts[n] : n \in 1..depth}
  <2>1. parts \in [1..depth -> C]
    BY <1>2
  <2> HIDE DEF C
  <2>2. parts \in Seq(C) /\ Len(parts) = depth
    BY <1>1, <2>1
  <2> QED
    BY <2>2
<1>5. ASSUME NEW i \in 1..depth
      PROVE  /\ Whole(parts[i].str)
             /\ parts[i].after \in {"/", End}
             /\ parts[i].type \in {"VERBATIM", "PATTERN", "RECURSIVE"}
             /\ parts[i].type = "VERBATIM" => NoStar(parts[i].str)
             /\ parts[i].type = "RECURSIVE" <=> i \in 1..depth - 1 /\ parts[i].str = <<"*", "*">>
  <2>1. /\ parts[i].str = Str(i)
        /\ parts[i].after = IF i < depth THEN "/" ELSE End
        /\ parts[i].type = IF ~has_star(i) THEN "VERBATIM"
                           ELSE IF i < depth /\ Str(i) = <<"*", "*">> THEN "RECURSIVE" ELSE "PATTERN"
    BY <1>2
  <2>2. i \in 1..depth - 1 <=> i < depth
    BY <1>1
  <2> QED
    BY <1>3, <2>1, <2>2
<1>6. Parsed(parts)
  BY <1>4, <1>5 DEF Parsed
<1> QED
  BY <1>6 DEF parts

-----------------------------------------------------------------------------
(* The two loops.                                                          *)

CharStars(p) == {i \in 1..Len(p) : p[i] = "*"}
CharFits(p, t) == {q \in (1..Len(p)) \X (1..Len(t)) : p[q[1]] = t[q[2]]}
DirStars(parts) == {i \in 1..Len(parts) - 1 : parts[i].str = <<"*", "*">>}
DirFits(parts, path) ==
  {q \in (1..Len(parts)) \X (1..Len(path)) : Means(parts[q[1]].str, path[q[2]].str)}

SinceParts(g, r, sg, sr) == Since(Len(glob), Len(real), DirStars(glob), DirFits(glob, real), g, r, sg, sr)
SinceChars(p, t, c) == Since(Len(p), Len(t), CharStars(p), CharFits(p, t), c.g, c.r, c.star_g, c.star_r)

InParts == SinceParts(glob_idx, real_idx, star_g, star_r)
InChars ==
  /\ glob_idx < Len(glob) /\ real_idx < Len(real)
  /\ Part.type = "PATTERN"
  /\ chars \in [g : Nat, r : Nat, star_g : Nat, star_r : Nat]
  /\ SinceChars(Part.str, Text, chars)

GlobInv ==
  /\ Parsed(glob) /\ Parsed(real)
  /\ loop \in {"idle", "parts", "chars", "done"}
  /\ loop = "idle" => glob_idx = 0 /\ real_idx = 0 /\ star_g = 0 /\ star_r = 0
  /\ loop \in {"parts", "chars"} => InParts
  /\ loop = "chars" => InChars
  /\ loop = "done" => (out <=> PathMeans(glob, real))

LEMMA CharPair ==
  ASSUME NEW p, NEW t, NEW i \in 1..Len(p), NEW j \in 1..Len(t)
  PROVE  <<i, j>> \in CharFits(p, t) <=> p[i] = t[j]
BY DEF CharFits

LEMMA DirPair ==
  ASSUME NEW parts, NEW path, NEW i \in 1..Len(parts), NEW j \in 1..Len(path)
  PROVE  <<i, j>> \in DirFits(parts, path) <=> Means(parts[i].str, path[j].str)
BY DEF DirFits

LEMMA MeansIs ==
  ASSUME NEW p, NEW t
  PROVE  Means(p, t) <=> Fit(Len(p), Len(t), CharStars(p), CharFits(p, t))
BY DEF Means, CharStars, CharFits

LEMMA PathMeansIs ==
  ASSUME NEW parts, NEW path
  PROVE  PathMeans(parts, path) <=> Fit(Len(parts), Len(path), DirStars(parts), DirFits(parts, path))
BY DEF PathMeans, DirStars, DirFits

\* Without a star, a pattern means itself.
LEMMA MeansItself ==
  ASSUME NEW p \in Seq(Char), NEW t \in Seq(Char), NoStar(p)
  PROVE  Means(p, t) <=> p = t
<1>1. Len(p) \in Nat /\ Len(t) \in Nat
  OBVIOUS
<1>2. \A i : i \notin CharStars(p)
  BY DEF CharStars, NoStar
<1>3. ASSUME p = t PROVE Means(p, t)
  <2> DEFINE pos == [i \in 0..Len(p) |-> i]
  <2>1. pos \in [0..Len(p) -> 0..Len(t)] /\ pos[Len(p)] = Len(t) /\ pos[0] = 0
    BY <1>1, <1>3
  <2>2. ASSUME NEW i \in 1..Len(p)
        PROVE  pos[i] = pos[i - 1] + 1 /\ <<i, pos[i]>> \in CharFits(p, t)
    <3>1. pos[i] = i /\ pos[i - 1] = i - 1
      BY <1>1
    <3>2. <<i, i>> \in CharFits(p, t)
      BY <1>3, CharPair
    <3> HIDE DEF pos
    <3>3. pos[i] = pos[i - 1] + 1
      BY <1>1, <3>1
    <3> QED
      BY <3>1, <3>2, <3>3
  <2> HIDE DEF pos
  <2>3. Cut(Len(p), CharStars(p), CharFits(p, t), pos)
    BY <1>2, <2>1, <2>2 DEF Cut
  <2> QED
    BY <2>1, <2>3, MeansIs DEF Fit
<1>4. ASSUME Means(p, t) PROVE p = t
  <2>1. PICK pos \in [0..Len(p) -> 0..Len(t)] :
          pos[Len(p)] = Len(t) /\ Cut(Len(p), CharStars(p), CharFits(p, t), pos)
    BY <1>4, MeansIs DEF Fit
  <2>2. pos[0] = 0
    BY <2>1 DEF Cut
  <2>3. ASSUME NEW i \in 0..Len(p) PROVE pos[i] = i
    <3>1. 0 \in 0..i
      BY <1>1
    <3>2. pos[i] = pos[0] + (i - 0)
      BY <1>1, <1>2, <2>1, <3>1, Straight
    <3> QED
      BY <2>2, <3>2
  <2>4. Len(p) = Len(t)
    BY <1>1, <2>1, <2>3
  <2>5. ASSUME NEW i \in 1..Len(p) PROVE p[i] = t[i]
    <3>1. <<i, pos[i]>> \in CharFits(p, t)
      BY <1>2, <2>1 DEF Cut
    <3>2. pos[i] = i /\ i \in 1..Len(t)
      BY <1>1, <2>3, <2>4
    <3> QED
      BY <3>1, <3>2, CharPair
  <2> QED
    BY <2>4, <2>5
<1> QED
  BY <1>3, <1>4

LEMMA LenNat ==
  ASSUME NEW parts, Parsed(parts)
  PROVE  Len(parts) \in Nat
BY DEF Parsed

\* The end of a turn of the loop over the parts.
LEMMA SegmentKeeps ==
  ASSUME Parsed(glob), Parsed(real), InParts, real_idx < Len(real), NEW yes \in BOOLEAN,
         yes => /\ glob_idx < Len(glob) /\ glob_idx + 1 \notin DirStars(glob)
                /\ <<glob_idx + 1, real_idx + 1>> \in DirFits(glob, real),
         ~yes => Stuck(Len(glob), DirStars(glob), DirFits(glob, real), glob_idx, real_idx),
         Segment(yes)
  PROVE  GlobInv'
<1>1. Len(glob) \in Nat /\ Len(real) \in Nat
  BY LenNat
<1>2. CASE yes
  <2>1. /\ real_idx' = real_idx + 1 /\ glob_idx' = glob_idx + 1 /\ loop' = "parts"
        /\ glob' = glob /\ real' = real /\ star_g' = star_g /\ star_r' = star_r
    BY <1>2 DEF Segment
  <2>2. SinceParts(glob_idx + 1, real_idx + 1, star_g, star_r)
    BY <1>1, <1>2, SinceSame DEF InParts, SinceParts
  <2>3. InParts'
    BY <2>1, <2>2 DEF InParts, SinceParts
  <2> QED
    BY <2>1, <2>3 DEF GlobInv
<1>3. CASE ~yes /\ star_g = 0
  <2>1. loop' = "done" /\ out' = FALSE /\ glob' = glob /\ real' = real
    BY <1>3 DEF Segment, Answer
  <2>2. ~ PathMeans(glob, real)
    BY <1>1, <1>3, SinceFail, PathMeansIs DEF InParts, SinceParts
  <2>3. ~ PathMeans(glob, real)'
    BY <2>1, <2>2
  <2> QED
    BY <2>1, <2>3 DEF GlobInv
<1>4. CASE ~yes /\ star_g # 0
  <2>1. /\ star_r' = star_r + 1 /\ real_idx' = star_r + 1 /\ glob_idx' = star_g
        /\ loop' = "parts" /\ glob' = glob /\ real' = real /\ star_g' = star_g
    BY <1>4 DEF Segment, Back
  <2>2. SinceParts(star_g, star_r + 1, star_g, star_r + 1)
    BY <1>1, <1>4, SinceBack DEF InParts, SinceParts
  <2>3. InParts'
    BY <2>1, <2>2 DEF InParts, SinceParts
  <2> QED
    BY <2>1, <2>3 DEF GlobInv
<1> QED
  BY <1>2, <1>3, <1>4

\* The part at hand, and what it is compared with.
LEMMA AtPart ==
  ASSUME Parsed(glob), Parsed(real), InParts, glob_idx < Len(glob), real_idx < Len(real)
  PROVE  /\ glob_idx + 1 \in 1..Len(glob) /\ real_idx + 1 \in 1..Len(real)
         /\ Whole(Part.str) /\ Whole(Text)
         /\ Part.after \in {"/", End}
         /\ Part.type = "VERBATIM" => NoStar(Part.str)
         /\ Part.type = "RECURSIVE" <=> glob_idx + 1 \in DirStars(glob)
         /\ Part.type \in {"VERBATIM", "PATTERN", "RECURSIVE"}
         /\ <<glob_idx + 1, real_idx + 1>> \in DirFits(glob, real) <=> Means(Part.str, Text)
<1>1. Len(glob) \in Nat /\ Len(real) \in Nat /\ glob_idx \in 0..Len(glob) /\ real_idx \in 0..Len(real)
  BY LenNat DEF InParts, SinceParts, Since
<1>2. glob_idx + 1 \in 1..Len(glob) /\ real_idx + 1 \in 1..Len(real)
  BY <1>1
<1>3. /\ Whole(Part.str) /\ Whole(Text)
      /\ Part.after \in {"/", End}
      /\ Part.type = "VERBATIM" => NoStar(Part.str)
      /\ Part.type \in {"VERBATIM", "PATTERN", "RECURSIVE"}
      /\ Part.type = "RECURSIVE" <=> glob_idx + 1 \in 1..Len(glob) - 1 /\ Part.str = <<"*", "*">>
  BY <1>2 DEF Parsed, Part, Text
<1>4. glob_idx + 1 \in DirStars(glob) <=> glob_idx + 1 \in 1..Len(glob) - 1 /\ Part.str = <<"*", "*">>
  BY DEF DirStars, Part
<1>5. <<glob_idx + 1, real_idx + 1>> \in DirFits(glob, real) <=> Means(Part.str, Text)
  BY <1>2, DirPair DEF Part, Text
<1> QED
  BY <1>2, <1>3, <1>4, <1>5

\* A turn that has compared a part which is no **.
LEMMA Compared ==
  ASSUME Parsed(glob), Parsed(real), InParts, glob_idx < Len(glob), real_idx < Len(real),
         Part.type # "RECURSIVE", NEW yes \in BOOLEAN, yes <=> Means(Part.str, Text), Segment(yes)
  PROVE  GlobInv'
<1>1. glob_idx + 1 \notin DirStars(glob)
  BY AtPart
<1>2. yes <=> <<glob_idx + 1, real_idx + 1>> \in DirFits(glob, real)
  BY AtPart
<1>3. ~yes => Stuck(Len(glob), DirStars(glob), DirFits(glob, real), glob_idx, real_idx)
  BY <1>1, <1>2 DEF Stuck
<1> QED
  BY <1>1, <1>2, <1>3, SegmentKeeps

LEMMA MatchKeeps ==
  ASSUME GlobInv, NEW path \in Paths, a0_pathglob_match(path)
  PROVE  GlobInv'
<1>1. /\ loop = "idle" /\ real' = a0_pathglob_init(path) /\ loop' = "parts" /\ glob' = glob
      /\ glob_idx' = 0 /\ real_idx' = 0 /\ star_g' = 0 /\ star_r' = 0
  BY DEF a0_pathglob_match, GlobInv
<1>2. path \in Seq(Char)
  BY GlobAssumption
<1>3. Parsed(real)'
  BY <1>1, <1>2, Parsing
<1>4. Parsed(glob)'
  BY <1>1 DEF GlobInv
<1>5. Len(glob)' \in Nat /\ Len(real)' \in Nat
  BY <1>3, <1>4, LenNat
<1>6. InParts'
  BY <1>1, <1>5, SinceStart DEF InParts, SinceParts
<1> QED
  BY <1>1, <1>3, <1>4, <1>6 DEF GlobInv

LEMMA CloseKeeps ==
  ASSUME GlobInv, a0_pathglob_close
  PROVE  GlobInv'
<1>1. /\ real' = <<>> /\ loop' = "idle" /\ glob' = glob
      /\ glob_idx' = 0 /\ real_idx' = 0 /\ star_g' = 0 /\ star_r' = 0
  BY DEF a0_pathglob_close
<1>2. Parsed(<<>>)
  BY DEF Parsed
<1> QED
  BY <1>1, <1>2 DEF GlobInv

LEMMA PartsKeep ==
  ASSUME GlobInv, Recursive \/ Beyond \/ Verbatim \/ Pattern \/ PartsEnd
  PROVE  GlobInv'
<1>1. Parsed(glob) /\ Parsed(real) /\ InParts /\ loop = "parts"
  BY DEF GlobInv, Recursive, Beyond, Verbatim, Pattern, PartsEnd, Turn
<1>2. Len(glob) \in Nat /\ Len(real) \in Nat /\ glob_idx \in 0..Len(glob) /\ real_idx \in 0..Len(real)
  BY <1>1, LenNat DEF InParts, SinceParts, Since
<1>3. CASE Recursive
  <2>1. /\ real_idx < Len(real) /\ glob_idx < Len(glob) /\ Part.type = "RECURSIVE"
        /\ glob_idx' = glob_idx + 1 /\ star_g' = glob_idx + 1 /\ star_r' = real_idx /\ real_idx' = real_idx
        /\ glob' = glob /\ real' = real
    BY <1>3 DEF Recursive, Turn, Type
  <2>2. glob_idx + 1 \in DirStars(glob)
    BY <1>1, <2>1, AtPart
  <2>3. glob_idx + 1 # Len(glob)
    BY <1>2, <2>2 DEF DirStars
  <2>4. loop' = "parts"
    BY <1>3, <2>3 DEF Recursive
  <2>5. SinceParts(glob_idx + 1, real_idx, glob_idx + 1, real_idx)
    BY <1>1, <1>2, <2>1, <2>2, SinceStar DEF InParts, SinceParts
  <2>6. InParts'
    BY <2>1, <2>5 DEF InParts, SinceParts
  <2> QED
    BY <1>1, <2>1, <2>4, <2>6 DEF GlobInv
<1>4. CASE Beyond
  <2>1. glob_idx = Len(glob) /\ real_idx < Len(real) /\ Segment(FALSE)
    <3>1. Type = "NONE" /\ real_idx < Len(real) /\ Segment(FALSE)
      BY <1>4 DEF Beyond, Turn
    <3>2. ~ (glob_idx < Len(glob))
      <4> SUFFICES ASSUME glob_idx < Len(glob) PROVE FALSE
        OBVIOUS
      <4>1. Part.type \in {"VERBATIM", "PATTERN", "RECURSIVE"} /\ Part.type = "NONE"
        BY <1>1, <3>1, AtPart DEF Type
      <4> QED
        BY <4>1
    <3>3. glob_idx = Len(glob)
      BY <1>2, <3>2
    <3> QED
      BY <3>1, <3>3
  <2>2. Stuck(Len(glob), DirStars(glob), DirFits(glob, real), glob_idx, real_idx)
    BY <2>1 DEF Stuck
  <2> QED
    BY <1>1, <2>1, <2>2, SegmentKeeps
<1>5. CASE Verbatim
  <2>1. /\ real_idx < Len(real) /\ glob_idx < Len(glob) /\ Part.type = "VERBATIM"
        /\ Segment(Part.str = Text)
    BY <1>5 DEF Verbatim, Turn, Type, Text
  <2>2. (Part.str = Text) <=> Means(Part.str, Text)
    BY <1>1, <2>1, AtPart, MeansItself DEF Whole
  <2> QED
    BY <1>1, <2>1, <2>2, Compared
<1>6. CASE Pattern
  <2>1. /\ real_idx < Len(real) /\ glob_idx < Len(glob) /\ Part.type = "PATTERN"
        /\ loop' = "chars" /\ chars' = Start /\ UNCHANGED <<glob, real, glob_idx, real_idx, star_g, star_r, out>>
    BY <1>6 DEF Pattern, Turn, Type
  <2>2. InParts' /\ Parsed(glob)' /\ Parsed(real)'
    BY <1>1, <2>1 DEF InParts, SinceParts
  <2>3. Len(Part.str) \in Nat /\ Len(Text) \in Nat
    BY <1>1, <2>1, AtPart DEF Whole
  <2>4. Part' = Part /\ Text' = Text
    BY <2>1 DEF Part, Text
  <2>5. SinceChars(Part.str, Text, Start)
    BY <2>3, SinceStart DEF SinceChars, Start, Chars
  <2>6. SinceChars(Part.str, Text, chars)'
    BY <2>1, <2>4, <2>5 DEF SinceChars
  <2>7. InChars'
    BY <2>1, <2>4, <2>6 DEF InChars, Start, Chars
  <2> QED
    BY <2>1, <2>2, <2>7 DEF GlobInv
<1>7. CASE PartsEnd
  <2>1. /\ real_idx = Len(real) /\ loop' = "done" /\ glob' = glob /\ real' = real
        /\ out' = (\A i \in glob_idx + 1..Len(glob) : glob[i].type = "RECURSIVE")
    BY <1>7 DEF PartsEnd, Answer
  <2>2. ASSUME NEW i \in glob_idx + 1..Len(glob)
        PROVE  glob[i].type = "RECURSIVE" <=> i \in DirStars(glob)
    <3>1. i \in 1..Len(glob)
      BY <1>2
    <3> QED
      BY <1>1, <3>1 DEF Parsed, DirStars
  <2>3. Fit(Len(glob), Len(real), DirStars(glob), DirFits(glob, real))
          <=> \A i \in glob_idx + 1..Len(glob) : i \in DirStars(glob)
    BY <1>1, <1>2, <2>1, SinceEnd DEF InParts, SinceParts
  <2>4. out' <=> PathMeans(glob, real)
    BY <2>1, <2>2, <2>3, PathMeansIs
  <2>5. out' <=> PathMeans(glob, real)'
    BY <2>1, <2>4
  <2> QED
    BY <1>1, <2>1, <2>5 DEF GlobInv
<1> QED
  BY <1>3, <1>4, <1>5, <1>6, <1>7

LEMMA CharsKeep ==
  ASSUME GlobInv, CharStar \/ CharSame \/ CharOther \/ CharEnd
  PROVE  GlobInv'
<1> DEFINE p == Part.str
           t == Text
           c == chars
           L(i) == i \in CharStars(p)
<1>1. Parsed(glob) /\ Parsed(real) /\ InParts /\ InChars /\ loop = "chars"
  BY DEF GlobInv, CharStar, CharSame, CharOther, CharEnd, CharTurn
<1>2. /\ glob_idx < Len(glob) /\ real_idx < Len(real) /\ Part.type = "PATTERN"
      /\ c \in [g : Nat, r : Nat, star_g : Nat, star_r : Nat]
      /\ SinceChars(p, t, c)
  BY <1>1 DEF InChars
<1>3. /\ Whole(p) /\ Whole(t) /\ Part.after \in {"/", End} /\ Part.type # "RECURSIVE"
      /\ p \in Seq(Char) /\ t \in Seq(Char) /\ Len(p) \in Nat /\ Len(t) \in Nat
  BY <1>1, <1>2, AtPart DEF Whole
<1>4. c.g \in 0..Len(p) /\ c.r \in 0..Len(t)
  BY <1>2 DEF SinceChars, Since
<1>c. c \in [g : Nat, r : Nat, star_g : Nat, star_r : Nat]
  BY <1>2
\* Another turn.
<1>5. ASSUME NEW d \in [g : Nat, r : Nat, star_g : Nat, star_r : Nat], SinceChars(p, t, d), On(d)
      PROVE  GlobInv'
  <2>1. chars' = d /\ UNCHANGED <<glob, real, glob_idx, real_idx, star_g, star_r, loop, out>>
    BY <1>5 DEF On
  <2>2. InParts' /\ Parsed(glob)' /\ Parsed(real)'
    BY <1>1, <2>1 DEF InParts, SinceParts
  <2>3. Part' = Part /\ Text' = Text
    BY <2>1 DEF Part, Text
  <2>4. SinceChars(Part.str, Text, chars)'
    BY <1>5, <2>1, <2>3 DEF SinceChars
  <2>5. InChars'
    BY <1>2, <1>5, <2>1, <2>3, <2>4 DEF InChars
  <2> QED
    BY <1>1, <2>1, <2>2, <2>5 DEF GlobInv
\* The answer for this part.
<1>6. ASSUME NEW yes \in BOOLEAN, Segment(yes),
             yes <=> Fit(Len(p), Len(t), CharStars(p), CharFits(p, t))
      PROVE  GlobInv'
  <2>1. yes <=> Means(p, t)
    BY <1>6, MeansIs
  <2> QED
    BY <1>1, <1>2, <1>3, <1>6, <2>1, Compared
\* What the character at hand is.
<1>7. ASSUME c.r < Len(t)
      PROVE  /\ c.r + 1 \in 1..Len(t) /\ t[c.r + 1] \in Char /\ t[c.r + 1] # "/"
             /\ CharAt(Part, c.g) = "*" => c.g < Len(p) /\ c.g + 1 \in CharStars(p)
             /\ CharAt(Part, c.g) # "*" => c.g = Len(p) \/ c.g + 1 \notin CharStars(p)
             /\ CharAt(Part, c.g) = t[c.r + 1] => c.g < Len(p) /\ <<c.g + 1, c.r + 1>> \in CharFits(p, t)
             /\ CharAt(Part, c.g) # t[c.r + 1] => c.g = Len(p) \/ <<c.g + 1, c.r + 1>> \notin CharFits(p, t)
  <2>1. c.r + 1 \in 1..Len(t)
    BY <1>3, <1>4, <1>7
  <2>2. t[c.r + 1] \in Char /\ t[c.r + 1] # "/"
    BY <1>3, <2>1 DEF Whole
  <2>3. CASE c.g < Len(p)
    <3>1. c.g + 1 \in 1..Len(p) /\ CharAt(Part, c.g) = p[c.g + 1]
      BY <1>3, <1>4, <2>3 DEF CharAt
    <3>2. c.g + 1 \in CharStars(p) <=> p[c.g + 1] = "*"
      BY <3>1 DEF CharStars
    <3>3. <<c.g + 1, c.r + 1>> \in CharFits(p, t) <=> p[c.g + 1] = t[c.r + 1]
      BY <2>1, <3>1, CharPair
    <3> QED
      BY <2>1, <2>2, <2>3, <3>1, <3>2, <3>3
  <2>4. CASE c.g = Len(p)
    <3>1. CharAt(Part, c.g) = Part.after
      BY <1>3, <2>4 DEF CharAt
    <3>2. Part.after # "*" /\ Part.after # t[c.r + 1]
      BY <1>3, <2>2, GlobAssumption DEF End
    <3> QED
      BY <2>1, <2>2, <2>4, <3>1, <3>2
  <2> QED
    BY <1>3, <1>4, <2>3, <2>4
<1> HIDE DEF p, t, c
<1>8. CASE CharStar
  <2>1. c.r < Len(t) /\ CharAt(Part, c.g) = "*"
    BY <1>8 DEF CharStar, CharTurn, c, t
  <2>2. c.g < Len(p) /\ c.g + 1 \in CharStars(p)
    BY <1>7, <2>1
  <2>3. CASE c.g + 1 = Len(p) /\ Segment(TRUE)
    <3>1. Fit(Len(p), Len(t), CharStars(p), CharFits(p, t))
      BY <1>2, <1>3, <2>2, <2>3, SinceLast DEF SinceChars
    <3> QED
      BY <1>6, <2>3, <3>1
  <2>4. CASE On(Chars(c.g + 1, c.r, c.g + 1, c.r))
    <3> DEFINE d == Chars(c.g + 1, c.r, c.g + 1, c.r)
    <3>1. /\ d \in [g : Nat, r : Nat, star_g : Nat, star_r : Nat]
          /\ d.g = c.g + 1 /\ d.r = c.r /\ d.star_g = c.g + 1 /\ d.star_r = c.r
      BY <1>c DEF Chars
    <3> HIDE DEF d
    <3>2. SinceChars(p, t, d)
      BY <1>2, <1>3, <2>2, <3>1, SinceStar DEF SinceChars
    <3> QED
      BY <1>5, <2>4, <3>1, <3>2 DEF d
  <2> QED
    BY <1>8, <2>3, <2>4 DEF CharStar, c, p
<1>9. CASE CharSame
  <2>1. c.r < Len(t) /\ CharAt(Part, c.g) # "*" /\ CharAt(Part, c.g) = t[c.r + 1]
    BY <1>9 DEF CharSame, CharTurn, c, t
  <2>2. c.g < Len(p) /\ c.g + 1 \notin CharStars(p) /\ <<c.g + 1, c.r + 1>> \in CharFits(p, t)
    BY <1>3, <1>4, <1>7, <2>1
  <2> DEFINE d == Chars(c.g + 1, c.r + 1, c.star_g, c.star_r)
  <2>3. /\ d \in [g : Nat, r : Nat, star_g : Nat, star_r : Nat]
        /\ d.g = c.g + 1 /\ d.r = c.r + 1 /\ d.star_g = c.star_g /\ d.star_r = c.star_r
    BY <1>c DEF Chars
  <2>4. On(d)
    BY <1>9 DEF CharSame, c
  <2> HIDE DEF d
  <2>5. SinceChars(p, t, d)
    BY <1>2, <1>3, <2>1, <2>2, <2>3, SinceSame DEF SinceChars
  <2> QED
    BY <1>5, <2>3, <2>4, <2>5
<1>10. CASE CharOther
  <2>1. c.r < Len(t) /\ CharAt(Part, c.g) # "*" /\ CharAt(Part, c.g) # t[c.r + 1]
    BY <1>10 DEF CharOther, CharTurn, c, t
  <2>2. Stuck(Len(p), CharStars(p), CharFits(p, t), c.g, c.r)
    BY <1>7, <2>1 DEF Stuck
  <2>3. CASE c.star_g = 0 /\ Segment(FALSE)
    <3>1. ~ Fit(Len(p), Len(t), CharStars(p), CharFits(p, t))
      BY <1>2, <1>3, <2>1, <2>2, <2>3, SinceFail DEF SinceChars
    <3> QED
      BY <1>6, <2>3, <3>1
  <2> DEFINE d == Chars(c.star_g, c.star_r + 1, c.star_g, c.star_r + 1)
  <2>4. CASE c.star_g # 0 /\ On(d)
    <3>1. /\ d \in [g : Nat, r : Nat, star_g : Nat, star_r : Nat]
          /\ d.g = c.star_g /\ d.r = c.star_r + 1 /\ d.star_g = c.star_g /\ d.star_r = c.star_r + 1
      BY <1>c DEF Chars
    <3> HIDE DEF d
    <3>2. SinceChars(p, t, d)
      BY <1>2, <1>3, <2>1, <2>2, <2>4, <3>1, SinceBack DEF SinceChars
    <3> QED
      BY <1>5, <2>4, <3>1, <3>2
  <2> QED
    BY <1>10, <2>3, <2>4 DEF CharOther, c
<1>11. CASE CharEnd
  <2> DEFINE yes == \A i \in c.g + 1..Len(p) : p[i] = "*"
  <2>1. c.r = Len(t) /\ Segment(yes)
    BY <1>11 DEF CharEnd, c, p, t
  <2>2. ASSUME NEW i \in c.g + 1..Len(p) PROVE p[i] = "*" <=> i \in CharStars(p)
    <3>1. i \in 1..Len(p)
      BY <1>3, <1>4
    <3> QED
      BY <3>1 DEF CharStars
  <2>3. Fit(Len(p), Len(t), CharStars(p), CharFits(p, t)) <=> \A i \in c.g + 1..Len(p) : i \in CharStars(p)
    BY <1>2, <1>3, <2>1, SinceEnd DEF SinceChars
  <2>4. yes <=> Fit(Len(p), Len(t), CharStars(p), CharFits(p, t))
    BY <2>2, <2>3
  <2> HIDE DEF yes
  <2>5. yes \in BOOLEAN
    BY DEF yes
  <2> QED
    BY <1>6, <2>1, <2>4, <2>5
<1> QED
  BY <1>8, <1>9, <1>10, <1>11

\* The pattern, joined to the root.
LEMMA GlobInitInv == GlobInit => GlobInv
<1> SUFFICES ASSUME GlobInit PROVE GlobInv
  OBVIOUS
<1>1. PICK pattern \in Patterns, root \in Roots :
        a0_abspath(pattern, root) # BadPath /\ GlobStart(a0_abspath(pattern, root))
  BY DEF GlobInit
<1>2. pattern \in Seq(Char) /\ root \in Seq(Char) /\ "/" \in Char
  BY GlobAssumption
<1>3. a0_abspath(pattern, root) \in Seq(Char)
  <2>1. root \o <<"/">> \o pattern \in Seq(Char)
    BY <1>2
  <2>2. a0_abspath(pattern, root) \in {pattern, root \o <<"/">> \o pattern}
    BY <1>1 DEF a0_abspath
  <2> QED
    BY <1>2, <2>1, <2>2
<1>4. Parsed(glob)
  BY <1>1, <1>3, Parsing DEF GlobStart
<1>5. Parsed(<<>>)
  BY DEF Parsed
<1> QED
  BY <1>1, <1>4, <1>5 DEF GlobStart, GlobInv

(* For every pattern and every path, a0_pathglob_match answers yes exactly *)
(* if the path can be cut to fit the pattern: to go back to the last star, *)
(* and to the last **, is enough, whatever was passed before them.         *)
THEOREM GlobMatches == GlobSpec => []PathsMatch
<1>1. GlobInv /\ [GlobNext]_globvars => GlobInv'
  <2> SUFFICES ASSUME GlobInv, [GlobNext]_globvars PROVE GlobInv'
    OBVIOUS
  <2>1. CASE UNCHANGED globvars
    BY <2>1 DEF globvars, GlobInv, InParts, InChars, SinceParts, SinceChars, Part, Text
  <2> QED
    BY <2>1, MatchKeeps, CloseKeeps, PartsKeep, CharsKeep DEF GlobNext
<1>2. GlobInv => PathsMatch
  BY DEF GlobInv, PathsMatch
<1> QED
  BY <1>1, <1>2, GlobInitInv, PTL DEF GlobSpec

-----------------------------------------------------------------------------
(* Buffers.                                                                *)

LEMMA Copied ==
  ASSUME NEW buf, NEW S, NEW cells \in Seq(S), NEW at \in Nat
  PROVE  /\ DOMAIN memcpy(buf, at, cells) = DOMAIN buf \cup at..(at + Len(cells) - 1)
         /\ \A i \in at..(at + Len(cells) - 1) : memcpy(buf, at, cells)[i] = cells[i - at + 1]
         /\ \A i \in DOMAIN buf \ (at..(at + Len(cells) - 1)) : memcpy(buf, at, cells)[i] = buf[i]
BY DEF memcpy

LEMMA WordIs ==
  ASSUME NEW v
  PROVE  Word(v) \in Seq({v, "rest"}) /\ Len(Word(v)) = 2 /\ Word(v)[1] = v
BY DEF Word, Cells, WORD

LEMMA IdIs ==
  ASSUME NEW v
  PROVE  Cells(v, UUID) \in Seq({v, "rest"}) /\ Len(Cells(v, UUID)) = 3 /\ Cells(v, UUID)[1] = v
BY DEF Cells, UUID

LEMMA CStringIs ==
  ASSUME NEW s \in Seq(Letters)
  PROVE  /\ CString(s) \in Seq(Letters \cup {Nul}) /\ Len(CString(s)) = Len(s) + 1
         /\ \A i \in 1..Len(s) : CString(s)[i] = s[i]
         /\ CString(s)[Len(s) + 1] = Nul
<1>1. s \in Seq(Letters \cup {Nul}) /\ Nul \in Letters \cup {Nul}
  OBVIOUS
<1> QED
  BY <1>1 DEF CString

\* The buffer holds a string and its terminator from `at` on, between the offsets `lo` and `hi`.
HasString(buf, at, s, lo, hi) ==
  /\ at \in Nat /\ lo <= at /\ at + Len(s) < hi
  /\ \A i \in 1..Len(s) : buf[at + i - 1] = s[i]
  /\ buf[at + Len(s)] = Nul

LEMMA HeldOn ==
  ASSUME NEW buf, NEW buf2, NEW lo \in Nat, NEW hi \in Nat, NEW hi2 \in Nat, hi <= hi2,
         \A i \in lo..(hi - 1) : buf2[i] = buf[i],
         NEW s \in Seq(Letters), NEW at, HasString(buf, at, s, lo, hi)
  PROVE  HasString(buf2, at, s, lo, hi2)
<1>1. at \in Nat /\ lo <= at /\ at + Len(s) < hi /\ Len(s) \in Nat
  BY DEF HasString
<1>2. \A i \in 1..Len(s) : at + i - 1 \in lo..(hi - 1)
  BY <1>1
<1>3. at + Len(s) \in lo..(hi - 1)
  BY <1>1
<1>4. \A i \in 1..Len(s) : buf2[at + i - 1] = s[i]
  BY <1>2 DEF HasString
<1>5. buf2[at + Len(s)] = Nul
  BY <1>3 DEF HasString
<1> QED
  BY <1>1, <1>4, <1>5 DEF HasString

LEMMA SeqIs ==
  ASSUME NEW S, NEW s \in Seq(S)
  PROVE  s = [i \in 1..Len(s) |-> s[i]]
OBVIOUS

LEMMA ReadString ==
  ASSUME NEW buf, NEW lo \in Nat, NEW hi \in Nat,
         \A i \in lo..(hi - 1) : i \in DOMAIN buf, DOMAIN buf \subseteq Nat,
         NEW s \in Seq(Letters), NEW at, HasString(buf, at, s, lo, hi)
  PROVE  StringAt(buf, at) = s
<1> DEFINE N == {i \in DOMAIN buf : i >= at /\ buf[i] = Nul}
           e == at + Len(s)
<1>1. at \in Nat /\ lo <= at /\ at + Len(s) < hi /\ Len(s) \in Nat
  BY DEF HasString
<1>2. e \in N
  BY <1>1 DEF HasString
<1>3. ASSUME NEW i \in N PROVE e <= i
  <2>1. SUFFICES ASSUME i < e PROVE FALSE
    BY <1>1
  <2>2. i \in Nat /\ i >= at
    OBVIOUS
  <2>3. i - at + 1 \in 1..Len(s) /\ at + (i - at + 1) - 1 = i
    BY <2>1, <2>2, <1>1
  <2>4. buf[i] = s[i - at + 1]
    BY <2>3 DEF HasString
  <2>5. s[i - at + 1] \in Letters
    BY <2>3
  <2> QED
    BY <2>4, <2>5, PacketAssumption
<1>4. \A x \in N : x \in Nat
  OBVIOUS
<1>5. Min(N) = e
  <2>1. \A x \in N : (\A y \in N : x <= y) => x = e
    <3>1. SUFFICES ASSUME NEW x \in N, \A y \in N : x <= y PROVE x = e
      OBVIOUS
    <3>2. x <= e /\ e <= x /\ x \in Nat /\ e \in Nat
      BY <3>1, <1>2, <1>3, <1>4
    <3> HIDE DEF N, e
    <3> QED
      BY <3>2
  <2> HIDE DEF N, e
  <2>2. \E x \in N : \A y \in N : x <= y
    BY <1>2, <1>3
  <2>3. Min(N) = CHOOSE x \in N : \A y \in N : x <= y
    BY DEF Min
  <2>4. Min(N) \in N /\ \A y \in N : Min(N) <= y
    BY <2>2, <2>3
  <2> QED
    BY <2>1, <2>4
<1>6. StringAt(buf, at) = [i \in 1..Len(s) |-> buf[at + i - 1]]
  <2>1. StringAt(buf, at) = Slice(buf, at, Min(N) - at)
    BY DEF StringAt
  <2>2. Min(N) - at = Len(s)
    <3> HIDE DEF N
    <3> QED BY <1>5, <1>1
  <2> HIDE DEF N, e
  <2> QED BY <2>1, <2>2 DEF Slice
<1>7. [i \in 1..Len(s) |-> buf[at + i - 1]] = [i \in 1..Len(s) |-> s[i]]
  BY DEF HasString
<1> QED
  BY <1>6, <1>7, SeqIs

LEMMA PutStringIs ==
  ASSUME NEW buf, DOMAIN buf \subseteq Nat,
         NEW w \in Nat, NEW at \in Nat, w + 1 < at, NEW str \in Seq(Letters),
         \A i \in DOMAIN buf : ~(i \in w..(w + 1)) /\ ~(i >= at)
  PROVE  LET buf2 == PutString(buf, w, at, str)
         IN /\ DOMAIN buf2 = DOMAIN buf \cup w..(w + 1) \cup at..(at + Len(str))
            /\ \A i \in DOMAIN buf : buf2[i] = buf[i]
            /\ buf2[w] = at
            /\ HasString(buf2, at, str, at, at + Len(str) + 1)
<1> DEFINE word == Word(at)
           mid == memcpy(buf, w, word)
           buf2 == memcpy(mid, at, CString(str))
<1>0. word \in Seq({at, "rest"}) /\ Len(word) = 2 /\ word[1] = at
  BY WordIs
<1> HIDE DEF word
<1>1. /\ DOMAIN mid = DOMAIN buf \cup w..(w + Len(word) - 1)
      /\ \A i \in w..(w + Len(word) - 1) : mid[i] = word[i - w + 1]
      /\ \A i \in DOMAIN buf \ (w..(w + Len(word) - 1)) : mid[i] = buf[i]
  BY <1>0, Copied
<1>2. w + Len(word) - 1 = w + 1 /\ w - w + 1 = 1 /\ w \in w..(w + 1)
  BY <1>0
<1>3. /\ DOMAIN mid = DOMAIN buf \cup w..(w + 1)
      /\ \A i \in DOMAIN buf : mid[i] = buf[i]
      /\ mid[w] = at
  BY <1>0, <1>1, <1>2
<1> HIDE DEF mid
<1>4. Len(str) \in Nat
  OBVIOUS
<1>5. /\ CString(str) \in Seq(Letters \cup {Nul}) /\ Len(CString(str)) = Len(str) + 1
      /\ \A i \in 1..Len(str) : CString(str)[i] = str[i]
      /\ CString(str)[Len(str) + 1] = Nul
  BY CStringIs
<1> DEFINE hi == at + Len(CString(str)) - 1
<1>6. hi = at + Len(str)
  BY <1>4, <1>5
<1>7. /\ DOMAIN buf2 = DOMAIN mid \cup at..hi
      /\ \A i \in at..hi : buf2[i] = CString(str)[i - at + 1]
      /\ \A i \in DOMAIN mid \ (at..hi) : buf2[i] = mid[i]
  BY <1>5, Copied
<1> HIDE DEF buf2, hi
<1>8. \A i \in DOMAIN mid : i \in Nat /\ i < at
  BY <1>3
<1>9. \A i \in DOMAIN mid : buf2[i] = mid[i]
  BY <1>7, <1>8
<1>10. w \in DOMAIN mid
  BY <1>2, <1>3
<1>11. HasString(buf2, at, str, at, at + Len(str) + 1)
  <2>1. ASSUME NEW i \in 1..Len(str) PROVE buf2[at + i - 1] = str[i]
    <3>1. at + i - 1 \in at..hi /\ (at + i - 1) - at + 1 = i
      BY <1>4, <1>6
    <3> QED BY <3>1, <1>7, <1>5
  <2>2. buf2[at + Len(str)] = Nul
    <3>1. at + Len(str) \in at..hi /\ (at + Len(str)) - at + 1 = Len(str) + 1
      BY <1>4, <1>6
    <3> QED BY <3>1, <1>7, <1>5
  <2> QED BY <2>1, <2>2, <1>4 DEF HasString
<1>12. DOMAIN buf2 = DOMAIN buf \cup w..(w + 1) \cup at..(at + Len(str))
  BY <1>3, <1>6, <1>7
<1>13. (\A i \in DOMAIN buf : buf2[i] = buf[i]) /\ buf2[w] = at
  BY <1>3, <1>9, <1>10
<1>14. PutString(buf, w, at, str) = buf2
  BY DEF PutString, buf2, mid, word
<1> QED
  BY <1>11, <1>12, <1>13, <1>14, Zenon

\* The buffer has the cells below the next word, and those of the content up to the next string.
Filled(buf, w, c, o) == DOMAIN buf = 0..(w - 1) \cup c..(o - 1)

LEMMA PutHeader ==
  ASSUME NEW buf, NEW w \in Nat, NEW c \in Nat, NEW o \in Nat, w + 4 <= c, c <= o,
         Filled(buf, w, c, o), NEW key \in Seq(Letters), NEW val \in Seq(Letters)
  PROVE  LET v == o + Len(key) + 1
             o2 == v + Len(val) + 1
             buf2 == PutString(PutString(buf, w, o, key), w + WORD, v, val)
         IN /\ Filled(buf2, w + 4, c, o2)
            /\ \A i \in 0..(w - 1) \cup c..(o - 1) : buf2[i] = buf[i]
            /\ buf2[w] = o /\ buf2[w + 2] = v
            /\ HasString(buf2, o, key, c, o2) /\ HasString(buf2, v, val, c, o2)
<1> DEFINE v == o + Len(key) + 1
           o2 == v + Len(val) + 1
           mid == PutString(buf, w, o, key)
           buf2 == PutString(mid, w + 2, v, val)
<1>1. Len(key) \in Nat /\ Len(val) \in Nat
  OBVIOUS
<1>2. /\ DOMAIN mid = DOMAIN buf \cup w..(w + 1) \cup o..(o + Len(key))
      /\ \A i \in DOMAIN buf : mid[i] = buf[i]
      /\ mid[w] = o
      /\ HasString(mid, o, key, o, o + Len(key) + 1)
  <2>1. DOMAIN buf \subseteq Nat /\ (\A i \in DOMAIN buf : ~(i \in w..(w + 1)) /\ ~(i >= o))
    BY DEF Filled
  <2>2. w + 1 < o
    OBVIOUS
  <2> QED
    BY <2>1, <2>2, PutStringIs
<1> HIDE DEF mid
<1>3. v \in Nat /\ w + 2 \in Nat /\ v > o
  BY <1>1
<1>4. \A i \in DOMAIN mid : i \in 0..(w + 1) \cup c..(v - 1)
  BY <1>1, <1>2 DEF Filled
<1>5. 0..(w + 1) \cup c..(v - 1) \subseteq DOMAIN mid
  BY <1>1, <1>2 DEF Filled
<1>6. /\ DOMAIN buf2 = DOMAIN mid \cup (w + 2)..((w + 2) + 1) \cup v..(v + Len(val))
      /\ \A i \in DOMAIN mid : buf2[i] = mid[i]
      /\ buf2[w + 2] = v
      /\ HasString(buf2, v, val, v, v + Len(val) + 1)
  <2> HIDE DEF v
  <2>1. DOMAIN mid \subseteq Nat
    BY <1>3, <1>4
  <2>2. \A i \in DOMAIN mid : ~(i \in (w + 2)..((w + 2) + 1)) /\ ~(i >= v)
    BY <1>3, <1>4
  <2>3. (w + 2) + 1 < v
    BY <1>3
  <2> QED
    BY <2>1, <2>2, <2>3, <1>3, PutStringIs
<1> HIDE DEF buf2
<1>7. o2 \in Nat /\ o2 = v + Len(val) + 1
  BY <1>1
<1>8. Filled(buf2, w + 4, c, o2)
  <2>1. DOMAIN buf2 \subseteq 0..(w + 3) \cup c..(o2 - 1)
    <3> HIDE DEF v, o2
    <3> QED BY <1>3, <1>4, <1>6, <1>7, <1>1
  <2>2. 0..(w + 3) \cup c..(o2 - 1) \subseteq DOMAIN buf2
    <3> HIDE DEF v, o2
    <3> QED BY <1>3, <1>5, <1>6, <1>7, <1>1
  <2>3. w + 4 - 1 = w + 3
    OBVIOUS
  <2>4. DOMAIN buf2 = 0..(w + 3) \cup c..(o2 - 1)
    BY <2>1, <2>2, Zenon
  <2> HIDE DEF o2
  <2> QED
    BY <2>3, <2>4 DEF Filled
<1>9. \A i \in 0..(w - 1) \cup c..(o - 1) : buf2[i] = buf[i]
  <2>1. \A i \in 0..(w - 1) \cup c..(o - 1) : i \in DOMAIN buf /\ i \in DOMAIN mid
    BY <1>2 DEF Filled
  <2> QED BY <2>1, <1>2, <1>6
<1>10. buf2[w] = o
  <2>1. w \in DOMAIN mid
    BY <1>2
  <2> QED BY <2>1, <1>2, <1>6
<1>11. HasString(buf2, o, key, c, o2)
  <2>1. \A i \in o..(v - 1) : buf2[i] = mid[i]
    <3> HIDE DEF v
    <3> QED BY <1>5, <1>6, <1>3
  <2>2. HasString(buf2, o, key, o, o2)
    <3>1. HasString(mid, o, key, o, v) /\ v <= o2
      BY <1>1, <1>2
    <3> HIDE DEF v, o2
    <3>2. v \in Nat /\ o2 \in Nat
      BY <1>3, <1>7
    <3> QED BY ONLY <3>1, <2>1, <3>2, HeldOn, o \in Nat, key \in Seq(Letters)
  <2> HIDE DEF o2
  <2> QED
    BY <2>2 DEF HasString
<1>12. HasString(buf2, v, val, c, o2)
  <2>1. c <= v
    BY <1>1
  <2> HIDE DEF v
  <2> QED BY <1>3, <1>6, <2>1 DEF HasString, o2
<1>13. PutString(PutString(buf, w, o, key), w + WORD, v, val) = buf2
  BY DEF buf2, mid, WORD
<1> HIDE DEF v, o2
<1>14. /\ Filled(buf2, w + 4, c, o2)
       /\ \A i \in 0..(w - 1) \cup c..(o - 1) : buf2[i] = buf[i]
       /\ buf2[w] = o /\ buf2[w + 2] = v
       /\ HasString(buf2, o, key, c, o2) /\ HasString(buf2, v, val, c, o2)
  BY <1>6, <1>8, <1>9, <1>10, <1>11, <1>12
<1> QED
  BY <1>13, <1>14, Zenon DEF v, o2

LEMMA PutHead ==
  ASSUME NEW id, NEW n
  PROVE  LET buf == memcpy(memcpy(NewBuffer, 0, Cells(id, UUID)), UUID, Word(n))
         IN DOMAIN buf = 0..4 /\ buf[0] = id /\ buf[3] = n
<1> DEFINE ids == Cells(id, UUID)
           word == Word(n)
           mid == memcpy(NewBuffer, 0, ids)
           buf == memcpy(mid, 3, word)
<1>1. ids \in Seq({id, "rest"}) /\ Len(ids) = 3 /\ ids[1] = id
  BY IdIs
<1>2. word \in Seq({n, "rest"}) /\ Len(word) = 2 /\ word[1] = n
  BY WordIs
<1> HIDE DEF ids, word
<1>3. DOMAIN NewBuffer = {} /\ 0 + Len(ids) - 1 = 2
  BY <1>1 DEF NewBuffer
<1>4. mid = [i \in {} \cup 0..2 |-> IF i \in 0..2 THEN ids[i - 0 + 1] ELSE NewBuffer[i]]
  BY <1>3, Zenon DEF memcpy
<1>5. DOMAIN mid = 0..2 /\ mid[0] = id
  BY <1>1, <1>4
<1> HIDE DEF mid
<1>6. /\ DOMAIN buf = DOMAIN mid \cup 3..(3 + Len(word) - 1)
      /\ \A i \in 3..(3 + Len(word) - 1) : buf[i] = word[i - 3 + 1]
      /\ \A i \in DOMAIN mid \ (3..(3 + Len(word) - 1)) : buf[i] = mid[i]
  BY <1>2, Copied
<1> HIDE DEF buf
<1>7. DOMAIN buf = 0..4 /\ buf[0] = id /\ buf[3] = n
  BY <1>2, <1>5, <1>6
<1> QED
  BY <1>7 DEF buf, mid, ids, word, UUID

\* The rest of the buffer: the word and the payload that it leads to.
Completed(buf2, buf, w, c, o, payload) ==
  /\ DOMAIN buf2 = 0..(o + Len(payload) - 1)
  /\ \A i \in 0..(w - 1) \cup c..(o - 1) : buf2[i] = buf[i]
  /\ buf2[w] = o
  /\ \A i \in 1..Len(payload) : buf2[o + i - 1] = payload[i]

LEMMA PutPayload ==
  ASSUME NEW buf, NEW w \in Nat, NEW c \in Nat, NEW o \in Nat, w + 2 <= c, c <= w + 2, c <= o,
         Filled(buf, w, c, o), NEW payload \in Seq(Letters \cup {Nul}),
         NEW buf2, buf2 = memcpy(memcpy(buf, w, Word(o)), o, payload)
  PROVE  Completed(buf2, buf, w, c, o, payload)
<1> DEFINE word == Word(o)
           mid == memcpy(buf, w, word)
<1>1. word \in Seq({o, "rest"}) /\ Len(word) = 2 /\ word[1] = o
  BY WordIs
<1> HIDE DEF word
<1>2. /\ DOMAIN mid = DOMAIN buf \cup w..(w + Len(word) - 1)
      /\ \A i \in w..(w + Len(word) - 1) : mid[i] = word[i - w + 1]
      /\ \A i \in DOMAIN buf \ (w..(w + Len(word) - 1)) : mid[i] = buf[i]
  BY <1>1, Copied
<1>3. w + Len(word) - 1 = w + 1 /\ w - w + 1 = 1 /\ w \in w..(w + 1)
  BY <1>1
<1>4. mid[w] = o /\ DOMAIN mid = DOMAIN buf \cup w..(w + 1)
  BY <1>1, <1>2, <1>3
<1>5. \A i \in 0..(w - 1) \cup c..(o - 1) : i \in DOMAIN buf /\ i \notin w..(w + 1)
  BY DEF Filled
<1>6. \A i \in 0..(w - 1) \cup c..(o - 1) : mid[i] = buf[i]
  BY <1>2, <1>3, <1>5
<1>0. buf2 = memcpy(mid, o, payload)
  BY DEF word
<1> HIDE DEF mid
<1>7. DOMAIN mid = 0..(o - 1)
  BY <1>4 DEF Filled
<1> DEFINE hi == o + Len(payload) - 1
<1>8. Len(payload) \in Nat
  OBVIOUS
<1>9. /\ DOMAIN buf2 = DOMAIN mid \cup o..hi
      /\ \A i \in o..hi : buf2[i] = payload[i - o + 1]
      /\ \A i \in DOMAIN mid \ (o..hi) : buf2[i] = mid[i]
  <2> DEFINE new == memcpy(mid, o, payload)
  <2>1. /\ DOMAIN new = DOMAIN mid \cup o..hi
        /\ \A i \in o..hi : new[i] = payload[i - o + 1]
        /\ \A i \in DOMAIN mid \ (o..hi) : new[i] = mid[i]
    BY Copied
  <2> HIDE DEF new
  <2> QED BY <1>0, <2>1 DEF new
<1>10. DOMAIN buf2 = 0..hi
  BY <1>7, <1>8, <1>9
<1>11. \A i \in 0..(o - 1) : buf2[i] = mid[i]
  BY <1>7, <1>9
<1>12. \A i \in 1..Len(payload) : buf2[o + i - 1] = payload[i]
  <2>1. ASSUME NEW i \in 1..Len(payload) PROVE buf2[o + i - 1] = payload[i]
    <3>1. o + i - 1 \in o..hi /\ (o + i - 1) - o + 1 = i
      BY <1>8
    <3> QED BY <3>1, <1>9
  <2> QED BY <2>1
<1>13. buf2[w] = o
  BY <1>4, <1>11
<1>14. \A i \in 0..(w - 1) \cup c..(o - 1) : buf2[i] = buf[i]
  <2>1. \A i \in 0..(w - 1) \cup c..(o - 1) : i \in 0..(o - 1)
    OBVIOUS
  <2> QED BY <2>1, <1>6, <1>11
<1> QED
  BY <1>10, <1>12, <1>13, <1>14, Zenon DEF Completed

-----------------------------------------------------------------------------
(* a0_packet_serialize.                                                    *)

Numbers == pkt \in Packets /\ num_hdrs \in Nat /\ content_size \in Nat

\* Where the loops are.
Position ==
  /\ stage \in {"count", "measure", "write", "flat"}
  /\ block \in 1..(Len(pkt.blocks) + 1)
  /\ stage = "count" => idx = 0
  /\ block <= Len(pkt.blocks) => idx \in 0..Len(pkt.blocks[block])
  /\ block = Len(pkt.blocks) + 1 => idx = 0
  /\ stage = "flat" => block = Len(pkt.blocks) + 1

\* The headers that the loop is through with, and their number.
Past(b, i) == b < block \/ (b = block /\ i <= idx)
Handled == first[block] + idx

\* A number for every block that was counted.
Firsts ==
  /\ first \in Seq(Nat) /\ first[1] = 0
  /\ Len(first) = IF stage = "count" THEN block ELSE Len(pkt.blocks) + 1
  /\ num_hdrs = first[Len(first)]
  /\ \A b \in 1..Len(first) : first[b] <= num_hdrs
  /\ \A b \in 1..(Len(first) - 1) : first[b + 1] = first[b] + Len(pkt.blocks[b])

PastLow ==
  stage # "count" =>
    \A b \in 1..Len(pkt.blocks) : \A i \in 1..Len(pkt.blocks[b]) :
      Past(b, i) => first[b] + i <= Handled

Grows(b, i) ==
  sizes[first[b] + i + 1] = sizes[first[b] + i] + Len(pkt.blocks[b][i].key) + Len(pkt.blocks[b][i].val) + 2

\* A size for every header that was measured.
Sizes ==
  /\ sizes \in Seq(Nat) /\ sizes[1] = 0
  /\ stage = "count" => Len(sizes) = 1 /\ content_size = 0
  /\ stage = "measure" =>
       /\ Len(sizes) = Handled + 1 /\ content_size = sizes[Handled + 1]
       /\ \A b \in 1..Len(pkt.blocks) : \A i \in 1..Len(pkt.blocks[b]) : Past(b, i) => Grows(b, i)
  /\ stage \in {"write", "flat"} =>
       /\ Len(sizes) = num_hdrs + 1 /\ content_size = sizes[num_hdrs + 1] + Len(pkt.payload)
       /\ \A b \in 1..Len(pkt.blocks) : \A i \in 1..Len(pkt.blocks[b]) : Grows(b, i)

\* Header j and its strings, below the offset `hi`.
HdrIn(buf, j, h, hi) ==
  /\ HasString(buf, buf[5 + 4 * j], h.key, 7 + 4 * num_hdrs, hi)
  /\ HasString(buf, buf[7 + 4 * j], h.val, 7 + 4 * num_hdrs, hi)

\* What was written.
Writes ==
  /\ stage \in {"count", "measure"} => fbuf = NewBuffer
  /\ stage = "write" =>
       /\ idx_off = 5 + 4 * Handled
       /\ off = 7 + 4 * num_hdrs + sizes[Handled + 1]
       /\ Filled(fbuf, idx_off, 7 + 4 * num_hdrs, off)
       /\ fbuf[0] = pkt.id /\ fbuf[3] = num_hdrs
       /\ \A b \in 1..Len(pkt.blocks) : \A i \in 1..Len(pkt.blocks[b]) :
            Past(b, i) => HdrIn(fbuf, first[b] + i - 1, pkt.blocks[b][i], off)

PacketInv == Numbers /\ Position /\ Firsts /\ PastLow /\ Sizes /\ Writes /\ PacketFlat

LEMMA PacketTypes ==
  ASSUME Numbers
  PROVE  /\ pkt.blocks \in Seq(Seq(Headers)) /\ Len(pkt.blocks) \in Nat
         /\ pkt.payload \in Seq(Letters \cup {Nul}) /\ Len(pkt.payload) \in Nat
         /\ \A b \in 1..Len(pkt.blocks) :
              /\ pkt.blocks[b] \in Seq(Headers) /\ Len(pkt.blocks[b]) \in Nat
              /\ \A i \in 1..Len(pkt.blocks[b]) :
                   /\ pkt.blocks[b][i] \in Headers
                   /\ pkt.blocks[b][i].key \in Seq(Letters) /\ Len(pkt.blocks[b][i].key) \in Nat
                   /\ pkt.blocks[b][i].val \in Seq(Letters) /\ Len(pkt.blocks[b][i].val) \in Nat
<1>1. pkt.blocks \in Seq(Seq(Headers)) /\ pkt.payload \in Seq(Letters \cup {Nul})
  BY PacketAssumption DEF Numbers
<1>2. Len(pkt.blocks) \in Nat /\ Len(pkt.payload) \in Nat
  BY <1>1
<1>3. ASSUME NEW b \in 1..Len(pkt.blocks)
      PROVE  pkt.blocks[b] \in Seq(Headers) /\ Len(pkt.blocks[b]) \in Nat
  BY <1>1
<1>4. ASSUME NEW b \in 1..Len(pkt.blocks), NEW i \in 1..Len(pkt.blocks[b])
      PROVE  /\ pkt.blocks[b][i] \in Headers
             /\ pkt.blocks[b][i].key \in Seq(Letters) /\ Len(pkt.blocks[b][i].key) \in Nat
             /\ pkt.blocks[b][i].val \in Seq(Letters) /\ Len(pkt.blocks[b][i].val) \in Nat
  <2>1. pkt.blocks[b][i] \in Headers
    BY <1>3
  <2>2. \A h \in Headers : /\ h.key \in Seq(Letters) /\ Len(h.key) \in Nat
                           /\ h.val \in Seq(Letters) /\ Len(h.val) \in Nat
    BY DEF Headers
  <2> QED BY <2>1, <2>2
<1> QED
  BY <1>1, <1>2, <1>3, <1>4

LEMMA PassedIs ==
  ASSUME Numbers, Position, Firsts, stage # "count"
  PROVE  /\ Handled \in Nat /\ Handled <= num_hdrs
         /\ first[block] \in Nat /\ idx \in Nat
         /\ AtHdr => Handled < num_hdrs
         /\ \A b \in 1..(Len(pkt.blocks) + 1) : first[b] \in Nat /\ first[b] <= num_hdrs
         /\ \A b \in 1..Len(pkt.blocks) : first[b + 1] = first[b] + Len(pkt.blocks[b])
         /\ first[Len(pkt.blocks) + 1] = num_hdrs
<1> DEFINE n == Len(pkt.blocks)
<1>1. n \in Nat /\ Len(first) = n + 1
  BY PacketTypes DEF Firsts
<1>2. \A b \in 1..(n + 1) : first[b] \in Nat /\ first[b] <= num_hdrs
  BY <1>1 DEF Firsts
<1>3. \A b \in 1..n : first[b + 1] = first[b] + Len(pkt.blocks[b])
  <2>1. Len(first) - 1 = n
    BY <1>1
  <2> QED BY <2>1 DEF Firsts
<1>4. first[n + 1] = num_hdrs
  BY <1>1 DEF Firsts
<1>5. CASE block <= n
  <2>1. block \in 1..n /\ block + 1 \in 1..(n + 1) /\ block \in 1..(n + 1)
    BY <1>1, <1>5 DEF Position
  <2>2. idx \in 0..Len(pkt.blocks[block]) /\ Len(pkt.blocks[block]) \in Nat
    BY <1>5, <2>1, PacketTypes DEF Position
  <2>3. first[block] + Len(pkt.blocks[block]) <= num_hdrs /\ first[block] \in Nat
    BY <2>1, <1>2, <1>3
  <2>4. AtHdr => idx < Len(pkt.blocks[block])
    BY DEF AtHdr, Block
  <2>5. num_hdrs \in Nat
    BY DEF Numbers
  <2>6. Handled \in Nat /\ Handled <= num_hdrs /\ (AtHdr => Handled < num_hdrs) /\ idx \in Nat
    BY <2>2, <2>3, <2>4, <2>5 DEF Handled
  <2> QED BY <1>2, <1>3, <1>4, <2>3, <2>6
<1>6. CASE ~(block <= n)
  <2>1. block = n + 1 /\ idx = 0 /\ ~AtHdr
    BY <1>1, <1>6 DEF Position, AtHdr, AtBlock
  <2>2. Handled = num_hdrs /\ num_hdrs \in Nat
    BY <2>1, <1>4 DEF Handled, Numbers
  <2> QED BY <1>2, <1>3, <1>4, <2>1, <2>2
<1> QED
  BY <1>5, <1>6

LEMMA PacketStarts ==
  ASSUME PacketInit
  PROVE  PacketInv
<1>1. PICK p \in Packets : PacketStart(p)
  BY DEF PacketInit
<1> USE <1>1 DEF PacketStart
<1>2. Numbers
  BY DEF Numbers
<1>3. Position
  BY <1>2, PacketTypes DEF Position
<1>4. Firsts
  BY DEF Firsts
<1>5. Sizes
  BY DEF Sizes
<1> QED
  BY <1>2, <1>3, <1>4, <1>5 DEF PacketInv, PastLow, Writes, PacketFlat

LEMMA Counts ==
  ASSUME PacketInv, CountBlock
  PROVE  PacketInv'
<1> DEFINE n == Len(Block)
<1>1. /\ stage = "count" /\ stage' = "count" /\ block <= Len(pkt.blocks) /\ block' = block + 1
      /\ num_hdrs' = num_hdrs + n /\ first' = Append(first, num_hdrs + n)
      /\ UNCHANGED <<pkt, idx, content_size, fbuf, sizes>>
  BY DEF CountBlock, AtBlock
<1>2. block \in 1..Len(pkt.blocks) /\ n \in Nat /\ n = Len(pkt.blocks[block]) /\ Len(pkt.blocks) \in Nat
  BY <1>1, PacketTypes DEF PacketInv, Position, Block
<1> HIDE DEF n
<1>3. Numbers'
  BY <1>1, <1>2 DEF Numbers, PacketInv
<1>4. Position'
  <2>1. block' \in 1..(Len(pkt.blocks') + 1) /\ idx' = 0
    BY <1>1, <1>2 DEF PacketInv, Position
  <2>2. block' <= Len(pkt.blocks') => idx' \in 0..Len(pkt'.blocks[block'])
    <3>1. SUFFICES ASSUME block' <= Len(pkt.blocks) PROVE 0 \in 0..Len(pkt.blocks[block'])
      BY <1>1, <2>1
    <3>2. block' \in 1..Len(pkt.blocks)
      BY <1>1, <1>2, <3>1
    <3>3. Len(pkt.blocks[block']) \in Nat
      BY <3>2, PacketTypes DEF PacketInv
    <3> QED BY <3>3
  <2> QED BY <1>1, <2>1, <2>2 DEF Position
<1>5. Firsts'
  <2>1. /\ first \in Seq(Nat) /\ first[1] = 0 /\ Len(first) = block /\ num_hdrs = first[block]
        /\ num_hdrs \in Nat
        /\ \A b \in 1..block : first[b] <= num_hdrs
        /\ \A b \in 1..(block - 1) : first[b + 1] = first[b] + Len(pkt.blocks[b])
    BY <1>1 DEF PacketInv, Firsts, Numbers
  <2>2. /\ first' \in Seq(Nat) /\ Len(first') = block + 1 /\ first'[block + 1] = num_hdrs + n
        /\ \A b \in 1..block : first'[b] = first[b] /\ first[b] \in Nat
    BY <1>1, <1>2, <2>1
  <2>3. \A b \in 1..(block + 1) : first'[b] <= num_hdrs'
    BY <1>1, <1>2, <2>1, <2>2
  <2>4. \A b \in 1..block : first'[b + 1] = first'[b] + Len(pkt.blocks[b])
    <3>1. ASSUME NEW b \in 1..block PROVE first'[b + 1] = first'[b] + Len(pkt.blocks[b])
      <4>1. CASE b = block
        BY <4>1, <1>2, <2>1, <2>2
      <4>2. CASE b # block
        <5>1. b \in 1..(block - 1) /\ b + 1 \in 1..block
          BY <4>2, <1>2
        <5> QED BY <5>1, <2>1, <2>2
      <4> QED BY <4>1, <4>2
    <3> QED BY <3>1
  <2>5. first'[1] = 0 /\ Len(first') - 1 = block /\ Len(first') = block'
    BY <1>1, <1>2, <2>1, <2>2
  <2>6. num_hdrs' = first'[Len(first')]
    BY <1>1, <2>2
  <2> QED BY <1>1, <2>2, <2>3, <2>4, <2>5, <2>6 DEF Firsts
<1>6. Sizes'
  BY <1>1 DEF PacketInv, Sizes
<1> QED
  BY <1>1, <1>3, <1>4, <1>5, <1>6 DEF PacketInv, PastLow, Writes, PacketFlat

\* The loops over the headers begin: none is past.
LEMMA NonePast ==
  ASSUME Numbers', block' = 1, idx' = 0
  PROVE  \A b \in 1..Len(pkt'.blocks) : \A i \in 1..Len(pkt'.blocks[b]) : ~Past(b, i)'
<1> SUFFICES ASSUME NEW b \in 1..Len(pkt'.blocks), NEW i \in 1..Len(pkt'.blocks[b])
             PROVE  ~(b < block' \/ (b = block' /\ i <= idx'))
  BY DEF Past
<1>1. b \in Int /\ i \in Int /\ b >= 1 /\ i >= 1
  OBVIOUS
<1> QED
  BY <1>1

LEMMA FirstPosition ==
  ASSUME Numbers', block' = 1, idx' = 0, stage' \in {"measure", "write"}
  PROVE  Position'
<1>1. pkt'.blocks \in Seq(Seq(Headers))
  BY PacketAssumption DEF Numbers
<1>2. Len(pkt'.blocks) \in Nat
  BY <1>1
<1>3. 1 <= Len(pkt'.blocks) => 0 \in 0..Len(pkt'.blocks[1])
  <2>1. SUFFICES ASSUME 1 <= Len(pkt'.blocks) PROVE Len(pkt'.blocks[1]) \in Nat
    OBVIOUS
  <2>2. pkt'.blocks[1] \in Seq(Headers)
    BY <2>1, <1>1, <1>2
  <2> QED BY <2>2
<1> QED
  BY <1>2, <1>3 DEF Position

LEMMA CountEnds ==
  ASSUME PacketInv, CountDone
  PROVE  PacketInv'
<1>1. /\ stage = "count" /\ stage' = "measure" /\ ~(block <= Len(pkt.blocks)) /\ block' = 1
      /\ UNCHANGED <<pkt, idx, num_hdrs, content_size, fbuf, first, sizes>>
  BY DEF CountDone, AtBlock
<1>2. idx = 0 /\ block = Len(pkt.blocks) + 1 /\ Len(pkt.blocks) \in Nat
  BY <1>1, PacketTypes DEF PacketInv, Position
<1>3. Numbers'
  BY <1>1 DEF Numbers, PacketInv
<1>4. Position'
  BY <1>1, <1>2, <1>3, FirstPosition
<1>5. Firsts'
  BY <1>1, <1>2 DEF PacketInv, Firsts
<1>6. PastLow' /\ Sizes'
  <2>1. \A b \in 1..Len(pkt'.blocks) : \A i \in 1..Len(pkt'.blocks[b]) : ~Past(b, i)'
    BY <1>1, <1>2, <1>3, NonePast
  <2>2. PastLow'
    BY <2>1 DEF PastLow
  <2>3. Handled' = 0 /\ 0 + 1 = 1
    BY <1>1, <1>2 DEF Handled, PacketInv, Firsts
  <2>4. sizes' \in Seq(Nat) /\ sizes'[1] = 0 /\ Len(sizes') = 1 /\ content_size' = 0
    BY <1>1 DEF PacketInv, Sizes
  <2>5. Sizes'
    BY <1>1, <2>1, <2>3, <2>4 DEF Sizes
  <2> QED BY <2>2, <2>5
<1> QED
  BY <1>1, <1>3, <1>4, <1>5, <1>6 DEF PacketInv, Writes, PacketFlat

\* A turn of the inner loops: one more header is past.
LEMMA HeaderStep ==
  ASSUME PacketInv, stage \in {"measure", "write"}, AtHdr,
         block' = block, idx' = idx + 1, UNCHANGED <<pkt, stage, num_hdrs, first>>
  PROVE  /\ Position' /\ Firsts' /\ PastLow'
         /\ block \in 1..Len(pkt.blocks) /\ idx + 1 \in 1..Len(pkt.blocks[block])
         /\ Handled \in Nat /\ Handled < num_hdrs /\ Handled' = Handled + 1
         /\ first[block] \in Nat /\ idx \in Nat
         /\ \A b \in 1..Len(pkt.blocks) : \A i \in 1..Len(pkt.blocks[b]) :
              Past(b, i)' => Past(b, i) \/ (b = block /\ i = idx + 1)
<1>1. /\ Handled \in Nat /\ Handled < num_hdrs /\ first[block] \in Nat /\ idx \in Nat
      /\ \A b \in 1..(Len(pkt.blocks) + 1) : first[b] \in Nat
  BY PassedIs DEF PacketInv
<1>2. block \in 1..Len(pkt.blocks) /\ Len(pkt.blocks) \in Nat
  BY PacketTypes DEF AtHdr, AtBlock, PacketInv, Position
<1>3. idx < Len(pkt.blocks[block]) /\ Len(pkt.blocks[block]) \in Nat
  BY <1>2, PacketTypes DEF AtHdr, Block, PacketInv
<1>4. idx + 1 \in 1..Len(pkt.blocks[block])
  BY <1>1, <1>3
<1>5. Handled' = Handled + 1
  <2>1. Handled' = first[block] + (idx + 1) /\ Handled = first[block] + idx
    BY DEF Handled
  <2> QED BY <1>1, <2>1
<1>6. \A b \in 1..Len(pkt.blocks) : \A i \in 1..Len(pkt.blocks[b]) :
        Past(b, i)' => Past(b, i) \/ (b = block /\ i = idx + 1)
  <2> SUFFICES ASSUME NEW b \in 1..Len(pkt.blocks), NEW i \in 1..Len(pkt.blocks[b]),
                      b < block \/ (b = block /\ i <= idx + 1)
               PROVE  (b < block \/ (b = block /\ i <= idx)) \/ (b = block /\ i = idx + 1)
    BY Zenon DEF Past
  <2>1. i \in Int
    OBVIOUS
  <2> QED BY <2>1, <1>1
<1>7. Position'
  <2>1. idx + 1 \in 0..Len(pkt.blocks[block])
    BY <1>4
  <2>2. block # Len(pkt.blocks) + 1
    BY <1>2
  <2> QED BY <1>2, <2>1, <2>2 DEF PacketInv, Position
<1>8. Firsts'
  BY DEF PacketInv, Firsts
<1>9. PastLow'
  <2> SUFFICES ASSUME NEW b \in 1..Len(pkt.blocks), NEW i \in 1..Len(pkt.blocks[b]), Past(b, i)'
               PROVE  first[b] + i <= Handled'
    BY DEF PastLow
  <2>1. CASE Past(b, i)
    <3>1. first[b] + i <= Handled
      BY <2>1 DEF PacketInv, PastLow
    <3>2. first[b] \in Nat /\ i \in Nat
      BY <1>1, <1>2
    <3> QED BY <3>1, <3>2, <1>1, <1>5
  <2>2. CASE b = block /\ i = idx + 1
    <3>1. Handled = first[block] + idx
      BY DEF Handled
    <3> QED BY <2>2, <3>1, <1>1, <1>5
  <2> QED BY <2>1, <2>2, <1>6
<1> QED
  BY <1>1, <1>2, <1>4, <1>5, <1>6, <1>7, <1>8, <1>9

LEMMA Measures ==
  ASSUME PacketInv, MeasureHdr
  PROVE  PacketInv'
<1> DEFINE kl == Len(Hdr.key)
           vl == Len(Hdr.val)
           size == content_size + (kl + 1) + (vl + 1)
<1>1. /\ stage = "measure" /\ AtHdr /\ idx' = idx + 1
      /\ content_size' = size /\ sizes' = Append(sizes, size)
      /\ UNCHANGED <<pkt, stage, block, num_hdrs, fbuf, first>>
  BY DEF MeasureHdr
<1>2. /\ Position' /\ Firsts' /\ PastLow'
      /\ block \in 1..Len(pkt.blocks) /\ idx + 1 \in 1..Len(pkt.blocks[block])
      /\ Handled \in Nat /\ Handled < num_hdrs /\ Handled' = Handled + 1
      /\ first[block] \in Nat /\ idx \in Nat
      /\ \A b \in 1..Len(pkt.blocks) : \A i \in 1..Len(pkt.blocks[b]) :
           Past(b, i)' => Past(b, i) \/ (b = block /\ i = idx + 1)
  BY <1>1, HeaderStep
<1>3. Hdr = pkt.blocks[block][idx + 1] /\ kl \in Nat /\ vl \in Nat
  BY <1>2, PacketTypes DEF Hdr, Block, PacketInv
<1> HIDE DEF kl, vl
<1>4. content_size \in Nat /\ size \in Nat
  BY <1>3 DEF PacketInv, Numbers
<1>5. Numbers'
  BY <1>1, <1>4 DEF PacketInv, Numbers
<1>6. sizes \in Seq(Nat) /\ sizes[1] = 0 /\ Len(sizes) = Handled + 1 /\ content_size = sizes[Handled + 1]
  BY <1>1 DEF PacketInv, Sizes
<1>7. size = content_size + kl + vl + 2
  BY <1>3, <1>4
<1> HIDE DEF size
<1>8. /\ sizes' \in Seq(Nat) /\ Len(sizes') = Handled + 2 /\ sizes'[Handled + 2] = size
      /\ \A j \in 1..(Handled + 1) : sizes'[j] = sizes[j]
  BY <1>1, <1>2, <1>4, <1>6
<1>9. Sizes'
  <2>1. ASSUME NEW b \in 1..Len(pkt.blocks), NEW i \in 1..Len(pkt.blocks[b]), Past(b, i)'
        PROVE  Grows(b, i)'
    <3>1. CASE Past(b, i)
      <4>1. Grows(b, i) /\ first[b] + i <= Handled
        BY <1>1, <3>1 DEF PacketInv, Sizes, PastLow
      <4>2. first[b] \in Nat
        BY <1>1, PassedIs, PacketTypes DEF PacketInv
      <4>3. first[b] + i \in 1..(Handled + 1) /\ first[b] + i + 1 \in 1..(Handled + 1)
        <5> DEFINE f == first[b]
                   k == Handled
        <5>1. f \in Nat /\ k \in Nat /\ f + i <= k
          BY <4>1, <4>2, <1>2
        <5> HIDE DEF f, k
        <5>2. f + i \in 1..(k + 1) /\ f + i + 1 \in 1..(k + 1)
          BY <5>1
        <5> QED BY <5>2 DEF f, k
      <4>4. sizes'[first[b] + i] = sizes[first[b] + i] /\ sizes'[first[b] + i + 1] = sizes[first[b] + i + 1]
        BY <4>3, <1>8
      <4> QED BY <4>1, <4>4, <1>1 DEF Grows
    <3>2. CASE b = block /\ i = idx + 1
      <4>1. first[b] + i = Handled + 1 /\ first[b] + i + 1 = Handled + 2
        <5>1. Handled = first[block] + idx
          BY DEF Handled
        <5> QED BY <3>2, <5>1, <1>2
      <4>2. Handled + 1 \in 1..(Handled + 1)
        BY <1>2
      <4>3. sizes'[first[b] + i] = content_size /\ sizes'[first[b] + i + 1] = size
        BY <4>1, <4>2, <1>6, <1>8
      <4>4. Hdr = pkt.blocks[b][i]
        BY <1>3, <3>2
      <4>5. sizes'[first[b] + i + 1] = sizes'[first[b] + i] + Len(pkt.blocks[b][i].key) + Len(pkt.blocks[b][i].val) + 2
        BY <4>3, <4>4, <1>7 DEF kl, vl
      <4> QED BY <4>5, <1>1 DEF Grows
    <3>3. Past(b, i) \/ (b = block /\ i = idx + 1)
      BY <1>2, <2>1
    <3> QED BY <3>1, <3>2, <3>3
  <2>2. Handled' + 1 = Handled + 2
    BY <1>2
  <2>3. sizes'[1] = 0
    <3>1. 1 \in 1..(Handled + 1)
      BY <1>2
    <3> QED BY <3>1, <1>6, <1>8
  <2> QED
    BY <1>1, <1>8, <2>1, <2>2, <2>3 DEF Sizes
<1> QED
  BY <1>1, <1>2, <1>5, <1>9 DEF PacketInv, Writes, PacketFlat

LEMMA Advances ==
  ASSUME PacketInv, NextBlock
  PROVE  PacketInv'
<1>1. /\ stage \in {"measure", "write"} /\ block <= Len(pkt.blocks) /\ idx = Len(pkt.blocks[block])
      /\ block' = block + 1 /\ idx' = 0
      /\ UNCHANGED <<pkt, stage, num_hdrs, content_size, fbuf, idx_off, off, first, sizes>>
  BY DEF NextBlock, AtBlock, Block
<1>2. block \in 1..Len(pkt.blocks) /\ Len(pkt.blocks) \in Nat /\ idx \in Nat
  BY <1>1, PacketTypes DEF PacketInv, Position
<1>3. Numbers' /\ Firsts'
  BY <1>1 DEF PacketInv, Numbers, Firsts
<1>4. Position'
  <2>1. block' \in 1..(Len(pkt.blocks) + 1)
    BY <1>1, <1>2
  <2>2. block' <= Len(pkt.blocks) => 0 \in 0..Len(pkt.blocks[block'])
    <3>1. SUFFICES ASSUME block' <= Len(pkt.blocks) PROVE 0 \in 0..Len(pkt.blocks[block'])
      OBVIOUS
    <3>2. block' \in 1..Len(pkt.blocks)
      BY <1>1, <1>2, <3>1
    <3>3. Len(pkt.blocks[block']) \in Nat
      BY <3>2, PacketTypes DEF PacketInv
    <3> QED BY <3>3
  <2> QED BY <1>1, <2>1, <2>2 DEF Position
<1>5. Handled' = Handled
  <2>1. first[block + 1] = first[block] + Len(pkt.blocks[block]) /\ first[block] \in Nat
    BY <1>1, <1>2, PassedIs DEF PacketInv
  <2> QED BY <2>1, <1>1, <1>2 DEF Handled
<1>6. \A b \in 1..Len(pkt.blocks) : \A i \in 1..Len(pkt.blocks[b]) : Past(b, i)' => Past(b, i)
  <2> SUFFICES ASSUME NEW b \in 1..Len(pkt.blocks), NEW i \in 1..Len(pkt.blocks[b]),
                      b < block + 1 \/ (b = block + 1 /\ i <= 0)
               PROVE  b < block \/ (b = block /\ i <= idx)
    BY <1>1, Zenon DEF Past
  <2>1. i \in Int /\ i >= 1 /\ b \in Int
    OBVIOUS
  <2>2. b = block => i <= idx
    BY <1>1
  <2> QED BY <2>1, <2>2, <1>2
<1>7. PastLow'
  BY <1>1, <1>5, <1>6 DEF PacketInv, PastLow
<1>8. Sizes'
  <2>1. \A b, i : Grows(b, i)' <=> Grows(b, i)
    BY <1>1 DEF Grows
  <2> QED BY <1>1, <1>5, <1>6, <2>1 DEF PacketInv, Sizes
<1>9. Writes'
  <2>1. \A j, h : HdrIn(fbuf, j, h, off)' <=> HdrIn(fbuf, j, h, off)
    BY <1>1 DEF HdrIn, HasString
  <2> QED BY <1>1, <1>5, <1>6, <2>1 DEF PacketInv, Writes, Filled
<1> QED
  BY <1>1, <1>3, <1>4, <1>7, <1>8, <1>9 DEF PacketInv, PacketFlat

LEMMA OffsetIs ==
  ASSUME NEW n \in Nat
  PROVE  ContentOff(n) = 7 + 4 * n
BY DEF ContentOff, UUID, WORD

LEMMA MeasureEnds ==
  ASSUME PacketInv, MeasureDone
  PROVE  PacketInv'
<1> DEFINE n == num_hdrs
           c == 7 + 4 * num_hdrs
<1>1. /\ stage = "measure" /\ stage' = "write" /\ ~(block <= Len(pkt.blocks)) /\ block' = 1
      /\ content_size' = content_size + Len(pkt.payload)
      /\ fbuf' = memcpy(memcpy(fbuf, 0, Cells(pkt.id, UUID)), UUID, Word(n))
      /\ idx_off' = 5 /\ off' = c
      /\ UNCHANGED <<pkt, idx, num_hdrs, first, sizes>>
  BY OffsetIs DEF MeasureDone, AtBlock, PacketInv, Numbers, UUID, WORD
<1>2. idx = 0 /\ block = Len(pkt.blocks) + 1 /\ Len(pkt.blocks) \in Nat /\ Len(pkt.payload) \in Nat
  BY <1>1, PacketTypes DEF PacketInv, Position
<1>3. Numbers'
  BY <1>1, <1>2 DEF PacketInv, Numbers
<1>4. Position'
  BY <1>1, <1>2, <1>3, FirstPosition
<1>5. Firsts'
  BY <1>1 DEF PacketInv, Firsts
<1>6. \A b \in 1..Len(pkt'.blocks) : \A i \in 1..Len(pkt'.blocks[b]) : ~Past(b, i)'
  BY <1>1, <1>2, <1>3, NonePast
<1>7. PastLow'
  BY <1>6 DEF PastLow
<1>8. n \in Nat /\ first[1] = 0 /\ Handled' = 0
  BY <1>1, <1>2 DEF PacketInv, Numbers, Firsts, Handled
<1>9. Sizes'
  <2>1. Handled = n
    <3>1. first[Len(pkt.blocks) + 1] = num_hdrs
      BY <1>1, PassedIs DEF PacketInv
    <3> QED BY <3>1, <1>2, <1>8 DEF Handled
  <2>2. \A b \in 1..Len(pkt.blocks) : \A i \in 1..Len(pkt.blocks[b]) : Past(b, i)
    BY <1>2 DEF Past
  <2>3. \A b \in 1..Len(pkt.blocks) : \A i \in 1..Len(pkt.blocks[b]) : Grows(b, i)
    BY <1>1, <2>2 DEF PacketInv, Sizes
  <2>4. \A b \in 1..Len(pkt'.blocks) : \A i \in 1..Len(pkt'.blocks[b]) : Grows(b, i)'
    BY <2>3, <1>1 DEF Grows
  <2>5. /\ sizes \in Seq(Nat) /\ sizes[1] = 0
        /\ Len(sizes) = n + 1 /\ content_size = sizes[n + 1]
    BY <1>1, <2>1 DEF PacketInv, Sizes
  <2> QED BY <1>1, <2>4, <2>5 DEF Sizes
<1>10. Writes'
  <2>1. fbuf = NewBuffer
    BY <1>1 DEF PacketInv, Writes
  <2>2. DOMAIN fbuf' = 0..4 /\ fbuf'[0] = pkt.id /\ fbuf'[3] = n
    BY <1>1, <2>1, PutHead
  <2>3. sizes'[1] = 0
    BY <1>9 DEF Sizes
  <2>4. idx_off' = 5 + 4 * Handled' /\ off' = 7 + 4 * num_hdrs' + sizes'[Handled' + 1]
    BY <1>1, <1>8, <2>3
  <2>5. Filled(fbuf', idx_off', c, off')
    <3>1. c \in Nat
      BY <1>8
    <3> HIDE DEF c
    <3>2. c..(c - 1) = {} /\ 5 - 1 = 4
      BY <3>1
    <3> QED BY <1>1, <2>2, <3>2 DEF Filled
  <2> QED BY <1>1, <1>6, <2>2, <2>4, <2>5 DEF Writes
<1> QED
  BY <1>1, <1>3, <1>4, <1>5, <1>7, <1>9, <1>10 DEF PacketInv, PacketFlat

LEMMA HeaderKept ==
  ASSUME NEW buf, NEW buf2, num_hdrs \in Nat, NEW w \in Nat, NEW o \in Nat, NEW o2 \in Nat, o <= o2,
         \A i \in 0..(w - 1) \cup (7 + 4 * num_hdrs)..(o - 1) : buf2[i] = buf[i],
         NEW j \in Nat, 7 + 4 * j < w,
         NEW h, h.key \in Seq(Letters), h.val \in Seq(Letters), HdrIn(buf, j, h, o)
  PROVE  HdrIn(buf2, j, h, o2)
<1> DEFINE c == 7 + 4 * num_hdrs
<1>1. buf2[5 + 4 * j] = buf[5 + 4 * j] /\ buf2[7 + 4 * j] = buf[7 + 4 * j]
  OBVIOUS
<1>2. c \in Nat /\ \A i \in c..(o - 1) : buf2[i] = buf[i]
  OBVIOUS
<1>3. HasString(buf, buf[5 + 4 * j], h.key, c, o) /\ HasString(buf, buf[7 + 4 * j], h.val, c, o)
  BY DEF HdrIn
<1> HIDE DEF c
<1> DEFINE key == h.key
           val == h.val
           ko == buf[5 + 4 * j]
           vo == buf[7 + 4 * j]
<1>4. HasString(buf2, ko, key, c, o2)
  <2>1. key \in Seq(Letters) /\ HasString(buf, ko, key, c, o)
    BY <1>3
  <2> HIDE DEF key, ko
  <2> QED BY ONLY <2>1, <1>2, o \in Nat, o2 \in Nat, o <= o2, HeldOn
<1>5. HasString(buf2, vo, val, c, o2)
  <2>1. val \in Seq(Letters) /\ HasString(buf, vo, val, c, o)
    BY <1>3
  <2> HIDE DEF val, vo
  <2> QED BY ONLY <2>1, <1>2, o \in Nat, o2 \in Nat, o <= o2, HeldOn
<1> QED
  BY <1>1, <1>4, <1>5 DEF HdrIn, c

\* A header that is past has its words below the next one.
LEMMA WordsBelow ==
  ASSUME Numbers, Position, Firsts, PastLow, stage = "write",
         NEW b \in 1..Len(pkt.blocks), NEW i \in 1..Len(pkt.blocks[b]), Past(b, i)
  PROVE  first[b] + i - 1 \in Nat /\ 7 + 4 * (first[b] + i - 1) < 5 + 4 * Handled
<1>1. first[b] \in Nat /\ Handled \in Nat
  BY PassedIs, PacketTypes
<1>2. first[b] + i <= Handled
  BY DEF PastLow
<1>3. i \in Nat /\ i >= 1
  OBVIOUS
<1> QED
  BY <1>1, <1>2, <1>3

LEMMA WritesHeader ==
  ASSUME PacketInv, WriteHdr
  PROVE  PacketInv'
<1> DEFINE key == Hdr.key
           val == Hdr.val
           v == off + Len(key) + 1
           c == 7 + 4 * num_hdrs
<1>1. /\ stage = "write" /\ AtHdr /\ idx' = idx + 1 /\ idx_off' = idx_off + 4
      /\ fbuf' = PutString(PutString(fbuf, idx_off, off, key), idx_off + WORD, v, val)
      /\ off' = v + Len(val) + 1
      /\ UNCHANGED <<pkt, stage, block, num_hdrs, content_size, first, sizes>>
  BY DEF WriteHdr, WORD
<1>2. /\ Position' /\ Firsts' /\ PastLow'
      /\ block \in 1..Len(pkt.blocks) /\ idx + 1 \in 1..Len(pkt.blocks[block])
      /\ Handled \in Nat /\ Handled < num_hdrs /\ Handled' = Handled + 1
      /\ first[block] \in Nat /\ idx \in Nat
      /\ \A b \in 1..Len(pkt.blocks) : \A i \in 1..Len(pkt.blocks[b]) :
           Past(b, i)' => Past(b, i) \/ (b = block /\ i = idx + 1)
  BY <1>1, HeaderStep
<1>3. Hdr = pkt.blocks[block][idx + 1] /\ key \in Seq(Letters) /\ val \in Seq(Letters)
  BY <1>2, PacketTypes DEF Hdr, Block, PacketInv
<1> HIDE DEF key, val
<1>4. Len(key) \in Nat /\ Len(val) \in Nat
  BY <1>3
<1>5. Numbers'
  BY <1>1 DEF PacketInv, Numbers
<1>6. Sizes'
  <2>1. \A b, i : Grows(b, i)' <=> Grows(b, i)
    BY <1>1 DEF Grows
  <2> QED BY <1>1, <2>1 DEF PacketInv, Sizes
<1>7. /\ idx_off = 5 + 4 * Handled /\ off = c + sizes[Handled + 1]
      /\ Filled(fbuf, idx_off, c, off) /\ fbuf[0] = pkt.id /\ fbuf[3] = num_hdrs
      /\ \A b \in 1..Len(pkt.blocks) : \A i \in 1..Len(pkt.blocks[b]) :
           Past(b, i) => HdrIn(fbuf, first[b] + i - 1, pkt.blocks[b][i], off)
  BY <1>1 DEF PacketInv, Writes
<1>8. /\ sizes \in Seq(Nat) /\ Len(sizes) = num_hdrs + 1
      /\ Grows(block, idx + 1)
  BY <1>1, <1>2 DEF PacketInv, Sizes
<1>9. sizes[Handled + 1] \in Nat /\ num_hdrs \in Nat
  BY <1>2, <1>8 DEF PacketInv, Numbers
<1>10. /\ idx_off \in Nat /\ c \in Nat /\ off \in Nat /\ idx_off + 4 <= c /\ c <= off
  <2>1. idx_off \in Nat
    BY <1>2, <1>7
  <2>2. c \in Nat /\ idx_off + 4 <= c
    BY <1>2, <1>7, <1>9
  <2> HIDE DEF c
  <2> QED BY <1>7, <1>9, <2>1, <2>2
<1>11. /\ Filled(fbuf', idx_off', c, off')
       /\ \A i \in 0..(idx_off - 1) \cup c..(off - 1) : fbuf'[i] = fbuf[i]
       /\ fbuf'[idx_off] = off /\ fbuf'[idx_off + 2] = v
       /\ HasString(fbuf', off, key, c, off') /\ HasString(fbuf', v, val, c, off')
  <2> DEFINE buf2 == PutString(PutString(fbuf, idx_off, off, key), idx_off + WORD, v, val)
  <2> HIDE DEF c
  <2>1. /\ Filled(buf2, idx_off + 4, c, v + Len(val) + 1)
        /\ \A i \in 0..(idx_off - 1) \cup c..(off - 1) : buf2[i] = fbuf[i]
        /\ buf2[idx_off] = off /\ buf2[idx_off + 2] = v
        /\ HasString(buf2, off, key, c, v + Len(val) + 1) /\ HasString(buf2, v, val, c, v + Len(val) + 1)
    <3>1. Filled(fbuf, idx_off, c, off) /\ key \in Seq(Letters) /\ val \in Seq(Letters)
      BY <1>3, <1>7
    <3> QED BY ONLY <3>1, <1>10, PutHeader
  <2>2. buf2 = fbuf'
    BY <1>1
  <2> HIDE DEF buf2, v
  <2> QED BY <1>1, <2>1, <2>2
<1>12. off' \in Nat /\ off <= off'
  BY <1>1, <1>4, <1>10
<1>13. off' = c + sizes[Handled + 2]
  <2>1. first[block] + (idx + 1) = Handled + 1
    <3>1. Handled = first[block] + idx
      BY DEF Handled
    <3> QED BY <3>1, <1>2
  <2>2. sizes[first[block] + (idx + 1) + 1]
          = sizes[first[block] + (idx + 1)] + Len(key) + Len(val) + 2
    BY <1>8, <1>3 DEF Grows, key, val
  <2>3. sizes[Handled + 1 + 1] = sizes[Handled + 1] + Len(key) + Len(val) + 2
    BY <2>1, <2>2
  <2>4. Handled + 1 + 1 = Handled + 2
    BY <1>2
  <2> DEFINE s1 == sizes[Handled + 1]
             s2 == sizes[Handled + 2]
             kl == Len(key)
             vl == Len(val)
  <2>5. s1 \in Nat /\ kl \in Nat /\ vl \in Nat /\ s2 = s1 + kl + vl + 2
    BY <2>3, <2>4, <1>4, <1>9
  <2>6. off = c + s1 /\ off' = off + kl + 1 + vl + 1
    BY <1>1, <1>7
  <2>7. SUFFICES off' = c + s2
    OBVIOUS
  <2> HIDE DEF c, s1, s2, kl, vl
  <2> QED BY <2>5, <2>6, <1>10
<1>14. ASSUME NEW b \in 1..Len(pkt.blocks), NEW i \in 1..Len(pkt.blocks[b]), Past(b, i)'
       PROVE  HdrIn(fbuf, first[b] + i - 1, pkt.blocks[b][i], off)'
  <2> DEFINE j == first[b] + i - 1
             h == pkt.blocks[b][i]
  <2>1. CASE Past(b, i)
    <3>1. HdrIn(fbuf, j, h, off)
      BY <1>7, <2>1
    <3>2. j \in Nat /\ 7 + 4 * j < idx_off
      BY <1>1, <1>7, <2>1, WordsBelow DEF PacketInv
    <3>3. h.key \in Seq(Letters) /\ h.val \in Seq(Letters)
      BY PacketTypes DEF PacketInv
    <3> HIDE DEF j, h
    <3>4. HdrIn(fbuf', j, h, off')
      BY <1>9, <1>10, <1>11, <1>12, <3>1, <3>2, <3>3, HeaderKept
    <3> QED BY <3>4, <1>1 DEF HdrIn, j, h
  <2>2. CASE b = block /\ i = idx + 1
    <3>1. h = Hdr
      BY <1>3, <2>2
    <3>2. j = Handled
      <4>1. Handled = first[block] + idx
        BY DEF Handled
      <4> QED BY <4>1, <2>2, <1>2
    <3> HIDE DEF j, h
    <3>3. 5 + 4 * j = idx_off /\ 7 + 4 * j = idx_off + 2
      BY <3>2, <1>2, <1>7
    <3>4. HasString(fbuf', fbuf'[5 + 4 * j], h.key, c, off') /\ HasString(fbuf', fbuf'[7 + 4 * j], h.val, c, off')
      BY <3>1, <3>3, <1>11 DEF key, val
    <3> QED BY <3>4, <1>1 DEF HdrIn, j, h
  <2>3. Past(b, i) \/ (b = block /\ i = idx + 1)
    BY <1>2, <1>14
  <2> QED BY <2>1, <2>2, <2>3
<1>15. Writes'
  <2>1. idx_off' = 5 + 4 * Handled' /\ Handled' + 1 = Handled + 2
    BY <1>1, <1>2, <1>7
  <2>2. off' = 7 + 4 * num_hdrs' + sizes'[Handled' + 1]
    BY <1>1, <1>13, <2>1
  <2>3. 0 \in 0..(idx_off - 1) /\ 3 \in 0..(idx_off - 1)
    BY <1>2, <1>7
  <2>4. fbuf'[0] = pkt'.id /\ fbuf'[3] = num_hdrs'
    BY <1>1, <1>7, <1>11, <2>3
  <2> QED BY <1>1, <1>11, <1>14, <2>1, <2>2, <2>4 DEF Writes
<1> QED
  BY <1>1, <1>2, <1>5, <1>6, <1>15 DEF PacketInv, PacketFlat

LEMMA ReadHeader ==
  ASSUME NEW buf, num_hdrs \in Nat, NEW hi \in Nat, NEW top \in Nat, hi <= top,
         DOMAIN buf = 0..(top - 1), NEW j \in Nat, NEW h \in Headers, HdrIn(buf, j, h, hi)
  PROVE  a0_flat_packet_header(buf, j) = h
<1> DEFINE lo == 7 + 4 * num_hdrs
           key == h.key
           val == h.val
           ko == buf[5 + 4 * j]
           vo == buf[7 + 4 * j]
<1>1. lo \in Nat /\ DOMAIN buf \subseteq Nat /\ \A i \in lo..(hi - 1) : i \in DOMAIN buf
  OBVIOUS
<1>2. key \in Seq(Letters) /\ val \in Seq(Letters) /\ h = [key |-> key, val |-> val]
  BY DEF Headers
<1>3. HasString(buf, ko, key, lo, hi) /\ HasString(buf, vo, val, lo, hi)
  BY DEF HdrIn
<1>4. UUID + WORD + 2 * j * WORD = 5 + 4 * j /\ UUID + WORD + (2 * j + 1) * WORD = 7 + 4 * j
  BY DEF UUID, WORD
<1>5. a0_flat_packet_header(buf, j) = [key |-> StringAt(buf, ko), val |-> StringAt(buf, vo)]
  BY <1>4 DEF a0_flat_packet_header
<1> HIDE DEF lo, key, val, ko, vo
<1>6. StringAt(buf, ko) = key
  BY ONLY <1>1, <1>2, <1>3, hi \in Nat, ReadString
<1>7. StringAt(buf, vo) = val
  BY ONLY <1>1, <1>2, <1>3, hi \in Nat, ReadString
<1> QED
  BY <1>2, <1>5, <1>6, <1>7

LEMMA ReadPayload ==
  ASSUME NEW buf, NEW n \in Nat, NEW o \in Nat, NEW S, NEW payload \in Seq(S),
         DOMAIN buf = 0..(o + Len(payload) - 1), buf[3] = n, buf[5 + 4 * n] = o,
         \A i \in 1..Len(payload) : buf[o + i - 1] = payload[i]
  PROVE  a0_flat_packet_payload(buf) = payload
<1> DEFINE m == Len(payload)
<1>1. m \in Nat
  OBVIOUS
<1>2. Size(buf) = o + m
  <2>1. 0 \in Int /\ o + m - 1 \in Int
    BY <1>1
  <2>2. Cardinality(0..(o + m - 1)) = IF 0 > o + m - 1 THEN 0 ELSE (o + m - 1) - 0 + 1
    BY <2>1, FS_Interval
  <2> HIDE DEF m
  <2>3. Cardinality(0..(o + m - 1)) = o + m
    BY <1>1, <2>2
  <2> QED BY <2>3 DEF Size, m
<1>3. NumHeaders(buf) = n /\ UUID + WORD + 2 * n * WORD = 5 + 4 * n
  BY DEF NumHeaders, UUID, WORD
<1>4. PayloadOff(buf) = o
  BY <1>3 DEF PayloadOff
<1>5. Size(buf) - PayloadOff(buf) = m
  <2> HIDE DEF m
  <2> QED BY <1>1, <1>2, <1>4
<1>6. a0_flat_packet_payload(buf) = [i \in 1..m |-> buf[o + i - 1]]
  <2> HIDE DEF m
  <2> QED BY <1>4, <1>5 DEF a0_flat_packet_payload, Slice
<1>7. [i \in 1..m |-> buf[o + i - 1]] = [i \in 1..m |-> payload[i]]
  OBVIOUS
<1> QED
  BY <1>6, <1>7, SeqIs

LEMMA WriteEnds ==
  ASSUME PacketInv, WriteDone
  PROVE  PacketInv'
<1> DEFINE n == num_hdrs
           c == 7 + 4 * num_hdrs
           payload == pkt.payload
           m == Len(payload)
<1>1. /\ stage = "write" /\ stage' = "flat" /\ ~(block <= Len(pkt.blocks))
      /\ fbuf' = memcpy(memcpy(fbuf, idx_off, Word(off)), off, payload)
      /\ UNCHANGED <<pkt, block, idx, num_hdrs, content_size, first, sizes>>
  BY DEF WriteDone, AtBlock
<1>2. /\ idx = 0 /\ block = Len(pkt.blocks) + 1 /\ Len(pkt.blocks) \in Nat
      /\ payload \in Seq(Letters \cup {Nul}) /\ m \in Nat /\ n \in Nat
  <2>1. Numbers /\ Position
    BY DEF PacketInv
  <2>2. Len(pkt.blocks) \in Nat /\ payload \in Seq(Letters \cup {Nul}) /\ m \in Nat
    BY <2>1, PacketTypes
  <2>3. block = Len(pkt.blocks) + 1 /\ idx = 0
    BY <1>1, <2>1, <2>2 DEF Position
  <2> QED BY <2>1, <2>2, <2>3 DEF Numbers
<1>3. /\ first[Len(pkt.blocks) + 1] = n /\ first[1] = 0
      /\ \A b \in 1..Len(pkt.blocks) : first[b + 1] = first[b] + Len(pkt.blocks[b])
  BY <1>1, PassedIs DEF PacketInv, Firsts
<1>4. Handled = n
  BY <1>2, <1>3 DEF Handled
<1>5. sizes[n + 1] \in Nat /\ content_size = sizes[n + 1] + m
  BY <1>1, <1>2 DEF PacketInv, Sizes
<1>6. /\ idx_off = 5 + 4 * n /\ off = c + sizes[n + 1]
      /\ Filled(fbuf, idx_off, c, off) /\ fbuf[0] = pkt.id /\ fbuf[3] = n
      /\ \A b \in 1..Len(pkt.blocks) : \A i \in 1..Len(pkt.blocks[b]) :
           Past(b, i) => HdrIn(fbuf, first[b] + i - 1, pkt.blocks[b][i], off)
  BY <1>1, <1>4 DEF PacketInv, Writes
<1>7. idx_off \in Nat /\ c \in Nat /\ idx_off + 2 = c
  BY <1>2, <1>6
<1>8. off \in Nat /\ c <= off
  <2> HIDE DEF c
  <2> QED BY <1>5, <1>6, <1>7
<1>9. /\ DOMAIN fbuf' = 0..(off + m - 1)
      /\ \A i \in 0..(idx_off - 1) \cup c..(off - 1) : fbuf'[i] = fbuf[i]
      /\ fbuf'[idx_off] = off
      /\ \A i \in 1..m : fbuf'[off + i - 1] = payload[i]
  <2> DEFINE buf2 == memcpy(memcpy(fbuf, idx_off, Word(off)), off, payload)
  <2> HIDE DEF c, payload
  <2>1. Filled(fbuf, idx_off, c, off) /\ payload \in Seq(Letters \cup {Nul})
    BY <1>2, <1>6
  <2>2. /\ DOMAIN buf2 = 0..(off + m - 1)
        /\ \A i \in 0..(idx_off - 1) \cup c..(off - 1) : buf2[i] = fbuf[i]
        /\ buf2[idx_off] = off
        /\ \A i \in 1..m : buf2[off + i - 1] = payload[i]
    <3>1. idx_off \in Nat /\ c \in Nat /\ off \in Nat /\ idx_off + 2 <= c /\ c <= idx_off + 2 /\ c <= off
      BY <1>7, <1>8
    <3>2. buf2 = memcpy(memcpy(fbuf, idx_off, Word(off)), off, payload)
      OBVIOUS
    <3> HIDE DEF buf2
    <3>3. Completed(buf2, fbuf, idx_off, c, off, payload)
      BY ONLY <2>1, <3>1, <3>2, PutPayload
    <3> QED BY <3>3 DEF Completed
  <2>3. buf2 = fbuf'
    BY <1>1
  <2> HIDE DEF buf2
  <2> QED BY <2>2, <2>3
<1>10. serial_size' = off + m
  <2>1. serial_size' = ContentOff(n) + content_size /\ ContentOff(n) = c
    BY <1>1, <1>2, OffsetIs DEF serial_size
  <2> DEFINE s == sizes[n + 1]
             t == serial_size'
  <2>2. s \in Nat /\ t = c + content_size /\ content_size = s + m /\ off = c + s
    BY <2>1, <1>5, <1>6
  <2>3. SUFFICES t = off + m
    OBVIOUS
  <2> HIDE DEF c, m, s, t
  <2> QED BY <2>2, <1>2, <1>7
<1>11. fbuf'[0] = pkt.id /\ fbuf'[3] = n
  <2>1. 0 \in 0..(idx_off - 1) /\ 3 \in 0..(idx_off - 1)
    BY <1>2, <1>6
  <2> QED BY <2>1, <1>6, <1>9
<1>12. a0_flat_packet_payload(fbuf') = payload
  <2>1. fbuf'[5 + 4 * n] = off
    BY <1>6, <1>9
  <2> DEFINE buf2 == fbuf'
  <2>2. /\ n \in Nat /\ off \in Nat /\ payload \in Seq(Letters \cup {Nul})
        /\ DOMAIN buf2 = 0..(off + m - 1) /\ buf2[3] = n /\ buf2[5 + 4 * n] = off
        /\ \A i \in 1..m : buf2[off + i - 1] = payload[i]
    BY <2>1, <1>2, <1>8, <1>9, <1>11
  <2>3. SUFFICES a0_flat_packet_payload(buf2) = payload
    OBVIOUS
  <2> HIDE DEF payload, n, buf2
  <2> QED BY ONLY <2>2, ReadPayload
<1>13. ASSUME NEW b \in 1..Len(pkt.blocks), NEW i \in 1..Len(pkt.blocks[b])
       PROVE  a0_flat_packet_header(fbuf', first[b] + i - 1) = pkt.blocks[b][i]
  <2> DEFINE j == first[b] + i - 1
             h == pkt.blocks[b][i]
  <2>1. Past(b, i)
    BY <1>2 DEF Past
  <2>2. HdrIn(fbuf, j, h, off)
    BY <1>6, <2>1
  <2>3. j \in Nat /\ 7 + 4 * j < idx_off
    BY <1>1, <1>4, <1>6, <2>1, WordsBelow DEF PacketInv
  <2>4. h \in Headers /\ h.key \in Seq(Letters) /\ h.val \in Seq(Letters)
    BY PacketTypes DEF PacketInv
  <2>5. off + m \in Nat /\ off <= off + m /\ off <= off
    BY <1>2, <1>8
  <2> HIDE DEF j, h, m
  <2>6. HdrIn(fbuf', j, h, off)
    BY <1>2, <1>7, <1>8, <1>9, <2>2, <2>3, <2>4, <2>5, HeaderKept
  <2>7. a0_flat_packet_header(fbuf', j) = h
    <3> DEFINE top == off + m
               buf2 == fbuf'
    <3>1. /\ num_hdrs \in Nat /\ off \in Nat /\ top \in Nat /\ off <= top
          /\ DOMAIN buf2 = 0..(top - 1) /\ HdrIn(buf2, j, h, off)
      BY <1>2, <1>8, <1>9, <2>5, <2>6
    <3>2. SUFFICES a0_flat_packet_header(buf2, j) = h
      OBVIOUS
    <3> HIDE DEF top, buf2
    <3> QED BY ONLY <3>1, <2>3, <2>4, ReadHeader
  <2> QED BY <2>7 DEF j, h
<1>14. PacketFlat'
  <2>1. NumHeaders(fbuf') = n /\ a0_flat_packet_id(fbuf') = pkt.id
    BY <1>11 DEF NumHeaders, a0_flat_packet_id, UUID
  <2>2. DOMAIN fbuf' = 0..(serial_size' - 1)
    <3> DEFINE t == serial_size'
    <3>1. t = off + m
      BY <1>10
    <3>2. SUFFICES DOMAIN fbuf' = 0..(t - 1)
      OBVIOUS
    <3> HIDE DEF t, m
    <3> QED BY <1>2, <1>8, <1>9, <3>1
  <2> HIDE DEF n
  <2> QED BY <1>1, <1>3, <1>12, <1>13, <2>1, <2>2 DEF PacketFlat, n
<1>15. Numbers' /\ Position' /\ Firsts'
  BY <1>1, <1>2 DEF PacketInv, Numbers, Position, Firsts
<1>16. PastLow'
  <2>1. Handled' = Handled /\ \A b, i : Past(b, i)' <=> Past(b, i)
    BY <1>1 DEF Handled, Past
  <2> QED BY <1>1, <2>1 DEF PacketInv, PastLow
<1>17. Sizes'
  <2>1. \A b, i : Grows(b, i)' <=> Grows(b, i)
    BY <1>1 DEF Grows
  <2> QED BY <1>1, <2>1 DEF PacketInv, Sizes
<1>18. Writes'
  BY <1>1 DEF Writes
<1> QED
  BY <1>14, <1>15, <1>16, <1>17, <1>18 DEF PacketInv

(* Whatever the blocks of a packet, its headers, their strings and its     *)
(* payload, empty ones included, a0_packet_serialize writes every cell of  *)
(* the buffer that a0_packet_stats asked for and none beyond, and what the *)
(* functions of the flat form read there are the id, the payload and the   *)
(* headers in their order.                                                 *)
THEOREM PacketIsFlat == PacketSpec => []PacketFlat
<1>1. PacketInit => PacketInv
  BY PacketStarts
<1>2. PacketInv /\ [PacketNext]_pktvars => PacketInv'
  <2> SUFFICES ASSUME PacketInv, [PacketNext]_pktvars PROVE PacketInv'
    OBVIOUS
  <2>1. CASE PacketNext
    BY <2>1, Counts, CountEnds, Measures, MeasureEnds, Advances, WritesHeader, WriteEnds DEF PacketNext
  <2>2. CASE UNCHANGED pktvars
    <3>1. UNCHANGED <<pkt, stage, block, idx, num_hdrs, content_size, fbuf, idx_off, off, first, sizes>>
      BY <2>2 DEF pktvars
    <3>2. Numbers' /\ Position' /\ Firsts'
      BY <3>1 DEF PacketInv, Numbers, Position, Firsts
    <3>3. Handled' = Handled /\ (\A b, i : Past(b, i)' <=> Past(b, i)) /\ (\A b, i : Grows(b, i)' <=> Grows(b, i))
      BY <3>1 DEF Handled, Past, Grows
    <3>4. PastLow' /\ Sizes'
      BY <3>1, <3>3 DEF PacketInv, PastLow, Sizes
    <3>5. Writes'
      <4>1. \A j, h : HdrIn(fbuf, j, h, off)' <=> HdrIn(fbuf, j, h, off)
        BY <3>1 DEF HdrIn, HasString
      <4> QED BY <3>1, <3>3, <4>1 DEF PacketInv, Writes, Filled
    <3>6. PacketFlat'
      BY <3>1 DEF PacketInv, PacketFlat, serial_size
    <3> QED BY <3>2, <3>4, <3>5, <3>6 DEF PacketInv
  <2> QED BY <2>1, <2>2
<1>3. PacketInv => PacketFlat
  BY DEF PacketInv
<1> QED
  BY <1>1, <1>2, <1>3, PTL DEF PacketSpec
=============================================================================
