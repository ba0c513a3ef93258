----------------------------- MODULE Algorithms -----------------------------
(***************************************************************************)
(* The sequential parts: a hash table that is used in every order, and     *)
(* packets, patterns and times against what they should be, one sample at  *)
(* a time.                                                                 *)
(***************************************************************************)
EXTENDS Map, Packet, Pathglob, Time

CONSTANTS
  Templates,  \* templates of topics
  Topics,
  Times,      \* times to add and to print
  NoSample,   \* the behaviour is one of the table
  GlobSample, \* the behaviour is one of the matcher
  PktSample   \* the behaviour is one of a packet

VARIABLE sample

Sample(kind, values) == {[kind |-> kind, value |-> v] : v \in values}

EmptyPacket == [id |-> "id", blocks |-> <<>>, payload |-> <<>>]

Init ==
  /\ MapInit
  /\ \/ sample = GlobSample /\ GlobInit /\ PacketStart(EmptyPacket)
     \/ sample = PktSample /\ PacketInit /\ GlobStart(<<"/">>)
     \/ /\ sample \in {NoSample} \cup Sample("pattern", Patterns \X Roots)
                        \cup Sample("template", Templates) \cup Sample("time", Times)
        /\ GlobStart(<<"/">>) /\ PacketStart(EmptyPacket)

Next ==
  /\ \/ sample = NoSample /\ MapNext /\ UNCHANGED <<globvars, pktvars>>
     \/ sample = GlobSample /\ GlobNext /\ UNCHANGED <<mapvars, pktvars>>
     \/ sample = PktSample /\ PacketNext /\ UNCHANGED <<mapvars, globvars>>
  /\ UNCHANGED sample

Spec == Init /\ [][Next]_<<mapvars, globvars, pktvars, sample>>

Is(kind) == sample \notin {NoSample, GlobSample, PktSample} /\ sample.kind = kind

-----------------------------------------------------------------------------

RECURSIVE Split(_, _)
Split(s, part) ==
  IF s = <<>> THEN <<part>>
  ELSE IF Head(s) = "/" THEN <<part>> \o Split(Tail(s), <<>>)
  ELSE Split(Tail(s), Append(part, Head(s)))

\* The file that the operating system finds: empty parts and those that are a dot lead nowhere.
FileOf(path) == SelectSeq(Split(path, <<>>), LAMBDA part : part \notin {<<>>, <<".">>})

(* Two topics of a template are one file only if they are two spellings of *)
(* one relative path: "a//b" and "a/./b" are "a/b", since topic.c copies a *)
(* topic as it is.  Topics with a part ".." are another directory's and    *)
(* templates with a lone dot beside the topic make such a part, or drop    *)
(* it; neither is among the samples.                                       *)
TopicsApart(tmpl, topics) ==
  \A s, t \in {u \in topics : a0_topic_path(tmpl, u) # BadPath} :
    FileOf(a0_topic_path(tmpl, s)) = FileOf(a0_topic_path(tmpl, t)) => FileOf(s) = FileOf(t)

\* A pattern has the parts that its slashes separate.
PartsAgree(abspath) ==
  LET parts == a0_pathglob_init(abspath)
  IN abspath # BadPath => [n \in DOMAIN parts |-> parts[n].str] = Split(Tail(abspath), <<>>)

RECURSIVE Iterate(_)
Iterate(pos) ==
  LET next == a0_packet_header_iterator_next(pos)
  IN IF next.block = 0 THEN <<>>
     ELSE <<pkt.blocks[next.block][next.idx]>> \o Iterate(next)

\* Both iterators return the headers in the order they were added in, and so the same ones for a
\* key.  packet.h promises no order; that is what the code does.
IteratorsAgree ==
  stage = "flat" =>
    /\ Iterate([block |-> 1, idx |-> 0]) = AllHeaders
    /\ \A h \in ToSet(AllHeaders) :
         a0_packet_header_iterator_next_match(a0_flat_packet_header_iterator_next(fbuf), h.key)
           = a0_packet_header_iterator_next_match(AllHeaders, h.key)

(* Packets survive serialisation and copies, times their arithmetic and    *)
(* their decimal form, where it fits; paths are taken apart at their       *)
(* slashes, and only there; two topics share a file only if they are one   *)
(* path spelt twice: packet.c, time.c, clock.h, strconv.c, pathglob.c,     *)
(* topic.c.                                                                *)
CodecsAgree ==
  /\ PacketFlat /\ CopiesAgree /\ IteratorsAgree
  /\ Is("time") => TimesAgree(sample.value, Times)
  /\ Is("pattern") => PartsAgree(a0_abspath(sample.value[1], sample.value[2]))
  /\ Is("template") => TopicsApart(sample.value, Topics)
=============================================================================
