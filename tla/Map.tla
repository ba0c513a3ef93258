-------------------------------- MODULE Map --------------------------------
(***************************************************************************)
(* map.c: a hash table with open addressing, in which an entry may take    *)
(* the bucket of one that is nearer to its own first choice, and deletion  *)
(* shifts the followers back; and ref_cnt.c, which counts in such a table. *)
(*                                                                         *)
(* A step is one turn of a loop: of the search for a place in a0_map_put,  *)
(* of the copying in a0_map_grow, of the shifting in a0_map_del_bucket.    *)
(***************************************************************************)
EXTENDS Integers, FiniteSets

CONSTANTS
  Keys,
  Hash,      \* the hash of each key
  NoKey,     \* the key of a bucket that holds none
  MaxVal     \* bound: values are 1..MaxVal

ASSUME MapAssumption == Hash \in [Keys -> Nat] /\ NoKey \notin Keys /\ MaxVal \in Nat

VARIABLES
  table,     \* the map: [cap, size, data]
  pc,        \* the loop that is running, "idle" between the calls
  call,      \* the put in progress: key, value, what its caller does next
  hand,      \* new_bkt of a0_map_put and its idx: the bucket that has no place yet
  old, iter, \* in a0_map_grow: the map that is replaced, the position of the iterator
  hole,      \* in a0_map_del_bucket: the bucket that became free
  content    \* auxiliary: what the map should hold, a function on some of the keys

mapvars == <<table, pc, call, hand, old, iter, hole, content>>

\* off is the distance from the first choice, counted from one; zero is an empty bucket.
EmptyBucket == [off |-> 0, key |-> NoKey, val |-> 0]

NewTable(cap) == [cap |-> cap, size |-> 0, data |-> [i \in 0..cap - 1 |-> EmptyBucket]]

a0_map_init == NewTable(0)

a0_map_size(m) == m.size

NoCall == [key |-> NoKey, val |-> 0, then |-> "idle"]
NoHand == [off |-> 0, key |-> NoKey, val |-> 0, idx |-> 0]

\* The capacity is a power of two, so that hash & (cap - 1) is the remainder.
Home(m, key) == Hash[key] % m.cap
After(m, i) == (i + 1) % m.cap
Nth(m, key, j) == (Home(m, key) + j - 1) % m.cap

\* The loop of a0_map_find goes on while the distance does not exceed that of the bucket.
Hits(m, key) ==
  {d \in 1..m.cap : /\ \A j \in 1..d : j <= m.data[Nth(m, key, j)].off
                    /\ m.data[Nth(m, key, d)].key = key}

a0_map_has(m, key) == m.size # 0 /\ Hits(m, key) # {}

a0_map_find(m, key) == Nth(m, key, CHOOSE d \in Hits(m, key) : \A e \in Hits(m, key) : d <= e)

a0_map_get(m, key) == m.data[a0_map_find(m, key)].val

\* What the iterator has still to return when it is at bucket i.
Rest(m, i) == {j \in i..m.cap - 1 : m.data[j].off # 0}

-----------------------------------------------------------------------------

Put(c, key, val) == [k \in DOMAIN c \cup {key} |-> IF k = key THEN val ELSE c[k]]
Drop(c, key) == [k \in DOMAIN c \ {key} |-> c[k]]

MapInit ==
  /\ table = a0_map_init /\ old = a0_map_init /\ iter = 0
  /\ pc = "idle" /\ call = NoCall /\ hand = NoHand /\ hole = 0
  /\ content = [k \in {} |-> 0]

\* The bucket of an entry that is about to look for a place.
NewBucket(m, key, val) == [off |-> 1, key |-> key, val |-> val, idx |-> Home(m, key)]

(* a0_map_put up to its loop, or up to that of the growth it begins with.  *)
StartPut(key, val, then) ==
  /\ pc = "idle"
  /\ call' = [key |-> key, val |-> val, then |-> then]
  /\ \/ /\ table.size * 2 >= table.cap
        /\ old' = table /\ iter' = 0
        /\ table' = NewTable(IF table.cap = 0 THEN 4 ELSE table.cap * 2)
        /\ pc' = "grow"
        /\ UNCHANGED <<hand, hole, content>>
     \/ /\ table.size * 2 < table.cap
        /\ hand' = NewBucket(table, key, val)
        /\ content' = Put(content, key, val)
        /\ pc' = "place"
        /\ UNCHANGED <<table, old, iter, hole>>

a0_map_put(key, val) == StartPut(key, val, "idle")

(* a0_map_iterator_next returns an entry, which is put into the new map.   *)
(* That put finds room: a growth within a growth never happens.            *)
GrowNext ==
  /\ pc = "grow"
  /\ \E i \in Rest(old, iter) :
       /\ \A j \in Rest(old, iter) : i <= j
       /\ iter' = i + 1
       /\ hand' = NewBucket(table, old.data[i].key, old.data[i].val)
  /\ pc' = IF table.size * 2 >= table.cap THEN "nested" ELSE "regrow"
  /\ UNCHANGED <<table, call, old, hole, content>>

GrowDone ==
  /\ pc = "grow"
  /\ Rest(old, iter) = {}
  /\ hand' = NewBucket(table, call.key, call.val)
  /\ content' = Put(content, call.key, call.val)
  /\ pc' = "place"
  /\ old' = a0_map_init /\ iter' = 0
  /\ UNCHANGED <<table, call, hole>>

-----------------------------------------------------------------------------
(* The loop of a0_map_put, for the entry of the call or one of the old map.*)

Placing == pc \in {"place", "regrow"}
Here == table.data[hand.idx]

InHand == [off |-> hand.off, key |-> hand.key, val |-> hand.val]
Onward(b) == [off |-> b.off + 1, key |-> b.key, val |-> b.val, idx |-> After(table, hand.idx)]

Placed ==
  /\ hand' = NoHand
  /\ pc' = IF pc = "regrow" THEN "grow" ELSE call.then
  /\ call' = IF pc' = "idle" THEN NoCall ELSE call
  /\ UNCHANGED <<old, iter, hole, content>>

PutEmpty ==
  /\ Placing /\ Here.off = 0
  /\ table' = [table EXCEPT !.data[hand.idx] = InHand, !.size = @ + 1]
  /\ Placed

PutSame ==
  /\ Placing /\ Here.off # 0 /\ Here.key = hand.key
  /\ table' = [table EXCEPT !.data[hand.idx].val = hand.val]
  /\ Placed

PutSwap ==
  /\ Placing /\ Here.off # 0 /\ Here.key # hand.key /\ hand.off > Here.off
  /\ table' = [table EXCEPT !.data[hand.idx] = InHand]
  /\ hand' = Onward(Here)
  /\ UNCHANGED <<pc, call, old, iter, hole, content>>

PutOn ==
  /\ Placing /\ Here.off # 0 /\ Here.key # hand.key /\ hand.off <= Here.off
  /\ hand' = Onward(hand)
  /\ UNCHANGED <<table, pc, call, old, iter, hole, content>>

-----------------------------------------------------------------------------
(* Deletion.                                                               *)

\* a0_map_del_bucket up to its loop.
a0_map_del_bucket(m, i) ==
  /\ table' = [m EXCEPT !.data[i] = EmptyBucket, !.size = @ - 1]
  /\ hole' = i
  /\ pc' = "shift"
  /\ UNCHANGED <<call, hand, old, iter>>

\* a0_map_pop deletes as well, after it has copied the value.
a0_map_del(key) ==
  /\ pc = "idle"
  /\ a0_map_has(table, key)
  /\ a0_map_del_bucket(table, a0_map_find(table, key))
  /\ content' = Drop(content, key)

\* Mutant: the followers of a deleted entry stay where they are.
FollowsNever == FALSE

\* The next entry is not at its first choice.
Follows == table.data[After(table, hole)].off > 1

Shift ==
  /\ pc = "shift" /\ Follows
  /\ LET next == After(table, hole)
     IN /\ table' = [table EXCEPT !.data[hole] = [table.data[next] EXCEPT !.off = @ - 1],
                                  !.data[next] = EmptyBucket]
        /\ hole' = next
  /\ UNCHANGED <<pc, call, hand, old, iter, content>>

ShiftDone ==
  /\ pc = "shift" /\ ~Follows
  /\ pc' = "idle" /\ hole' = 0
  /\ UNCHANGED <<table, call, hand, old, iter, content>>

-----------------------------------------------------------------------------
(* Reference counts: the value is changed where a0_map_get points.         *)

a0_ref_cnt_get(m, key) == IF a0_map_has(m, key) THEN a0_map_get(m, key) ELSE 0

Add(m, key, n) == [m EXCEPT !.data[a0_map_find(m, key)].val = @ + n]

Counted(key, n) ==
  /\ table' = Add(table, key, n)
  /\ content' = Put(content, key, content[key] + n)
  /\ pc' = "idle" /\ call' = NoCall
  /\ UNCHANGED <<hand, old, iter, hole>>

a0_ref_cnt_inc(key) ==
  /\ pc = "idle"
  /\ a0_ref_cnt_get(table, key) < MaxVal
  /\ \/ a0_map_has(table, key) /\ Counted(key, 1)
     \/ ~a0_map_has(table, key) /\ StartPut(key, 0, "count")

\* The rest of a0_ref_cnt_inc after the put of a zero.
Count ==
  /\ pc = "count"
  /\ Counted(call.key, 1)

a0_ref_cnt_dec(key) ==
  /\ pc = "idle"
  /\ a0_map_has(table, key)
  /\ \/ a0_map_get(table, key) # 1 /\ Counted(key, -1)
     \/ /\ a0_map_get(table, key) = 1
        /\ a0_map_del_bucket(Add(table, key, -1), a0_map_find(table, key))
        /\ content' = Drop(content, key)

MapNext ==
  \/ \E key \in Keys, val \in 1..MaxVal : a0_map_put(key, val)
  \/ \E key \in Keys : a0_map_del(key) \/ a0_ref_cnt_inc(key) \/ a0_ref_cnt_dec(key)
  \/ GrowNext \/ GrowDone
  \/ PutEmpty \/ PutSame \/ PutSwap \/ PutOn
  \/ Shift \/ ShiftDone \/ Count

MapSpec == MapInit /\ [][MapNext]_mapvars

-----------------------------------------------------------------------------
(* Properties.                                                             *)

(* Between the calls the table answers like a function, after any sequence *)
(* of operations: every key that was put and not deleted is found with its *)
(* last value, no other key is found, the size is right, and the iterator, *)
(* on which growing rests, returns every entry exactly once.  Entries in   *)
(* the way of each other, displaced ones and those that wrap around        *)
(* included.                                                               *)
MapIsFunction ==
  pc = "idle" =>
    /\ \A key \in Keys : a0_map_has(table, key) <=> key \in DOMAIN content
    /\ \A key \in DOMAIN content : a0_map_get(table, key) = content[key]
    /\ \A i, j \in Rest(table, 0) : table.data[i].key = table.data[j].key => i = j
    /\ {table.data[i].key : i \in Rest(table, 0)} = DOMAIN content
    /\ a0_map_size(table) = Cardinality(DOMAIN content)
=============================================================================
