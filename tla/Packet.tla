------------------------------- MODULE Packet -------------------------------
(***************************************************************************)
(* packet.c: packets with a chain of header blocks, their flat form in one *)
(* buffer, and copies of them.                                             *)
(*                                                                         *)
(* A buffer is a function from offsets to cells.  A character is one cell; *)
(* an id, a word and a header in memory are UUID, WORD and HDR cells, of   *)
(* which the first carries the value.  A buffer has the cells that were    *)
(* written, so neither a gap nor a write beyond its end goes unnoticed.    *)
(*                                                                         *)
(* A step is one turn of a loop of a0_packet_serialize or of               *)
(* a0_packet_stats, with which it begins.                                  *)
(***************************************************************************)
EXTENDS Integers, Sequences, FiniteSets, SequencesExt, FiniteSetsExt

CONSTANTS
  Letters,   \* the characters of headers
  Packets    \* packets to serialise: [id, blocks, payload]

UUID == 3
WORD == 2
HDR == 4

Nul == "NUL"

Headers == [key : Seq(Letters), val : Seq(Letters)]

ASSUME PacketAssumption ==
  /\ Nul \notin Letters
  /\ \A p \in Packets : /\ p.blocks \in Seq(Seq(Headers))
                        /\ p.payload \in Seq(Letters \cup {Nul})

VARIABLES
  pkt,           \* the packet
  stage,         \* the loop: "count" and "measure" of a0_packet_stats, "write", then "flat"
  block, idx,    \* the block at hand, and how many of its headers are done
  num_hdrs, content_size,
  fbuf,          \* the buffer
  idx_off, off,  \* where the next word and the next string go
  first, sizes   \* auxiliary: num_hdrs before each block, content_size before each header

pktvars == <<pkt, stage, block, idx, num_hdrs, content_size, fbuf, idx_off, off, first, sizes>>

Cells(value, n) == [i \in 1..n |-> IF i = 1 THEN value ELSE "rest"]
Word(n) == Cells(n, WORD)
CString(s) == Append(s, Nul)

NewBuffer == [i \in {} |-> Nul]

memcpy(buf, at, cells) ==
  [i \in DOMAIN buf \cup at..(at + Len(cells) - 1) |->
     IF i \in at..(at + Len(cells) - 1) THEN cells[i - at + 1] ELSE buf[i]]

Slice(buf, at, n) == [i \in 1..n |-> buf[at + i - 1]]

\* The string that starts at an offset.
StringAt(buf, at) == Slice(buf, at, Min({i \in DOMAIN buf : i >= at /\ buf[i] = Nul}) - at)

\* Where the content begins: behind the id, the number of headers, their offsets and that of the payload.
ContentOff(n) == UUID + WORD + 2 * n * WORD + WORD

PacketStart(p) ==
  /\ pkt = p /\ stage = "count" /\ block = 1 /\ idx = 0
  /\ num_hdrs = 0 /\ content_size = 0
  /\ fbuf = NewBuffer /\ idx_off = 0 /\ off = 0
  /\ first = <<0>> /\ sizes = <<0>>

PacketInit == \E p \in Packets : PacketStart(p)

Block == pkt.blocks[block]
Hdr == Block[idx + 1]
AtBlock == block <= Len(pkt.blocks)
AtHdr == AtBlock /\ idx < Len(Block)

-----------------------------------------------------------------------------
(* a0_packet_stats.                                                        *)

CountBlock ==
  /\ stage = "count" /\ AtBlock
  /\ num_hdrs' = num_hdrs + Len(Block)
  /\ first' = Append(first, num_hdrs + Len(Block))
  /\ block' = block + 1
  /\ UNCHANGED <<pkt, stage, idx, content_size, fbuf, idx_off, off, sizes>>

CountDone ==
  /\ stage = "count" /\ ~AtBlock
  /\ stage' = "measure" /\ block' = 1
  /\ UNCHANGED <<pkt, idx, num_hdrs, content_size, fbuf, idx_off, off, first, sizes>>

\* Mutant: the terminators are not counted.
MeasureNoNul ==
  /\ stage = "measure" /\ AtHdr
  /\ content_size' = content_size + Len(Hdr.key) + Len(Hdr.val)
  /\ sizes' = Append(sizes, content_size')
  /\ idx' = idx + 1
  /\ UNCHANGED <<pkt, stage, block, num_hdrs, fbuf, idx_off, off, first>>

MeasureHdr ==
  /\ stage = "measure" /\ AtHdr
  /\ content_size' = content_size + (Len(Hdr.key) + 1) + (Len(Hdr.val) + 1)
  /\ sizes' = Append(sizes, content_size')
  /\ idx' = idx + 1
  /\ UNCHANGED <<pkt, stage, block, num_hdrs, fbuf, idx_off, off, first>>

\* The loop over the blocks, around those over the headers.
NextBlock ==
  /\ stage \in {"measure", "write"} /\ AtBlock /\ idx = Len(Block)
  /\ block' = block + 1 /\ idx' = 0
  /\ UNCHANGED <<pkt, stage, num_hdrs, content_size, fbuf, idx_off, off, first, sizes>>

serial_size == ContentOff(num_hdrs) + content_size

-----------------------------------------------------------------------------
(* a0_packet_serialize.                                                    *)

\* The end of a0_packet_stats, and a0_packet_serialize up to its loop.
MeasureDone ==
  /\ stage = "measure" /\ ~AtBlock
  /\ content_size' = content_size + Len(pkt.payload)
  /\ fbuf' = memcpy(memcpy(fbuf, 0, Cells(pkt.id, UUID)), UUID, Word(num_hdrs))
  /\ idx_off' = UUID + WORD
  /\ off' = ContentOff(num_hdrs)
  /\ stage' = "write" /\ block' = 1
  /\ UNCHANGED <<pkt, idx, num_hdrs, first, sizes>>

\* A string, and the word that says where it is.
PutString(buf, word_off, at, str) == memcpy(memcpy(buf, word_off, Word(at)), at, CString(str))

WriteHdr ==
  /\ stage = "write" /\ AtHdr
  /\ LET val_off == off + Len(Hdr.key) + 1
     IN /\ fbuf' = PutString(PutString(fbuf, idx_off, off, Hdr.key), idx_off + WORD, val_off, Hdr.val)
        /\ off' = val_off + Len(Hdr.val) + 1
  /\ idx_off' = idx_off + 2 * WORD
  /\ idx' = idx + 1
  /\ UNCHANGED <<pkt, stage, block, num_hdrs, content_size, first, sizes>>

WriteDone ==
  /\ stage = "write" /\ ~AtBlock
  /\ fbuf' = memcpy(memcpy(fbuf, idx_off, Word(off)), off, pkt.payload)
  /\ stage' = "flat"
  /\ UNCHANGED <<pkt, block, idx, num_hdrs, content_size, idx_off, off, first, sizes>>

PacketNext ==
  \/ CountBlock \/ CountDone \/ MeasureHdr \/ MeasureDone
  \/ NextBlock \/ WriteHdr \/ WriteDone

PacketSpec == PacketInit /\ [][PacketNext]_pktvars

-----------------------------------------------------------------------------
(* Reading the flat form.                                                  *)

Size(fpkt) == Cardinality(DOMAIN fpkt)
NumHeaders(fpkt) == fpkt[UUID]

a0_flat_packet_stats(fpkt) ==
  [serial_size |-> Size(fpkt), num_hdrs |-> NumHeaders(fpkt),
   content_size |-> Size(fpkt) - (UUID + WORD + 2 * NumHeaders(fpkt) * WORD + WORD)]

a0_flat_packet_id(fpkt) == fpkt[0]

PayloadOff(fpkt) == fpkt[UUID + WORD + 2 * NumHeaders(fpkt) * WORD]

a0_flat_packet_payload(fpkt) == Slice(fpkt, PayloadOff(fpkt), Size(fpkt) - PayloadOff(fpkt))

\* Header i, counted from 0; the iterator and a0_packet_deserialize read the same words.
a0_flat_packet_header(fpkt, i) ==
  LET key_off == fpkt[UUID + WORD + 2 * i * WORD]
      val_off == fpkt[UUID + WORD + (2 * i + 1) * WORD]
  IN [key |-> StringAt(fpkt, key_off), val |-> StringAt(fpkt, val_off)]

a0_flat_packet_header_iterator_next(fpkt) ==
  [i \in 1..NumHeaders(fpkt) |-> a0_flat_packet_header(fpkt, i - 1)]

\* What both iterators return for a key.
a0_packet_header_iterator_next_match(headers, key) == SelectSeq(headers, LAMBDA h : h.key = key)

\* The cells that the headers, their strings and the payload take in a new buffer.
CellsUsed(headers, payload) ==
  Len(headers) * HDR + FoldLeft(LAMBDA n, h : n + Len(CString(h.key)) + Len(CString(h.val)), 0, headers) + Len(payload)

\* One block with all the headers; `alloc` is what is asked of the allocator, `used` what is written.
a0_packet_deserialize(fpkt) ==
  LET stats == a0_flat_packet_stats(fpkt)
      headers == a0_flat_packet_header_iterator_next(fpkt)
      payload == a0_flat_packet_payload(fpkt)
  IN [pkt |-> [id |-> a0_flat_packet_id(fpkt), blocks |-> <<headers>>, payload |-> payload],
      alloc |-> stats.num_hdrs * HDR + stats.content_size,
      used |-> CellsUsed(headers, payload)]

\* The headers in the order of the blocks.
AllHeaders == FlattenSeq(pkt.blocks)

\* It begins with a0_packet_stats too.
a0_packet_deep_copy ==
  [pkt |-> [id |-> pkt.id, blocks |-> <<AllHeaders>>, payload |-> pkt.payload],
   alloc |-> num_hdrs * HDR + content_size,
   used |-> CellsUsed(AllHeaders, pkt.payload)]

\* The iterator skips the blocks that are used up or empty; 0 is the end.
a0_packet_header_iterator_next(pos) ==
  LET left == {b \in pos.block..Len(pkt.blocks) : Len(pkt.blocks[b]) > (IF b = pos.block THEN pos.idx ELSE 0)}
  IN IF left = {} THEN [block |-> 0, idx |-> 0]
     ELSE [block |-> Min(left), idx |-> (IF Min(left) = pos.block THEN pos.idx ELSE 0) + 1]

-----------------------------------------------------------------------------

(* The flat form is the packet: it fills exactly the buffer that           *)
(* a0_packet_stats asked for, and the functions that read it return the id *)
(* and the payload, and as header number n the one that n others precede   *)
(* in the chain of blocks.  Empty blocks, strings and payloads included.   *)
(* That the order is kept is what the code does; packet.h:252 says it is   *)
(* not, and callers should not count on it.                                *)
PacketFlat ==
  stage = "flat" =>
    /\ first[1] = 0
    /\ \A b \in 1..Len(pkt.blocks) : first[b + 1] = first[b] + Len(pkt.blocks[b])
    /\ DOMAIN fbuf = 0..serial_size - 1
    /\ NumHeaders(fbuf) = first[Len(pkt.blocks) + 1]
    /\ a0_flat_packet_id(fbuf) = pkt.id
    /\ a0_flat_packet_payload(fbuf) = pkt.payload
    /\ \A b \in 1..Len(pkt.blocks) : \A i \in 1..Len(pkt.blocks[b]) :
         a0_flat_packet_header(fbuf, first[b] + i - 1) = pkt.blocks[b][i]

(* Every way of reading the flat form agrees, and a copy takes exactly the *)
(* cells that are asked for.                                               *)
CopiesAgree ==
  stage = "flat" =>
    /\ a0_flat_packet_stats(fbuf) = [serial_size |-> serial_size, num_hdrs |-> num_hdrs, content_size |-> content_size]
    /\ \A copy \in {a0_packet_deserialize(fbuf), a0_packet_deep_copy} :
         copy.pkt = [pkt EXCEPT !.blocks = <<AllHeaders>>] /\ copy.used = copy.alloc
=============================================================================
