---------------------------- MODULE WriterProofs ----------------------------
(***************************************************************************)
(* What writer.c and middleware.c guarantee for any number of threads,     *)
(* writers and writes: the updates of cfg.c are serial, and the headers of *)
(* every frame tell the truth about it.                                    *)
(***************************************************************************)
EXTENDS Writer, SequenceTheorems, FiniteSetTheorems, TLAPS

-----------------------------------------------------------------------------
(* The chains, written out.                                                *)

Kinds == {"write", "log", "write_if_empty", "mergepatch"}
Wrapped == {"write_if_empty", "mergepatch"}
Names == HasProcess \cup HasProcessLocked

\* d is c with x behind it.
Extended(d, c, x) ==
  d \in Seq(Names) /\ Len(d) = Len(c) + 1 /\ (\A i \in 1..Len(c) : d[i] = c[i]) /\ d[Len(c) + 1] = x

\* Composition appends a chain of one middleware.
LEMMA OneAfter ==
  ASSUME NEW c \in Seq(Names), NEW x \in Names
  PROVE  Extended(a0_middleware_compose(c, <<x>>), c, x)
BY DEF Extended, a0_middleware_compose

\* One before it.
LEMMA OneBefore ==
  ASSUME NEW S, NEW c \in Seq(S), NEW x \in S
  PROVE  /\ <<x>> \o c \in Seq(S)
         /\ Len(<<x>> \o c) = Len(c) + 1
         /\ (<<x>> \o c)[1] = x
         /\ \A i \in 1..Len(c) : (<<x>> \o c)[i + 1] = c[i]
<1>1. <<x>> \in Seq(S) /\ Len(<<x>>) = 1 /\ <<x>>[1] = x
  OBVIOUS
<1>2. /\ <<x>> \o c \in Seq(S) /\ Len(<<x>> \o c) = 1 + Len(c)
      /\ \A i \in 1..1 + Len(c) : (<<x>> \o c)[i] = IF i <= 1 THEN <<x>>[i] ELSE c[i - 1]
  BY <1>1, ConcatProperties
<1> QED
  BY <1>1, <1>2

LEMMA PublisherChain ==
  /\ a0_publisher_init \in Seq(Names)
  /\ Len(a0_publisher_init) = 6
  /\ a0_publisher_init[1] = "time_mono" /\ a0_publisher_init[2] = "time_wall"
  /\ a0_publisher_init[3] = "writer_id" /\ a0_publisher_init[4] = "writer_seq"
  /\ a0_publisher_init[5] = "transport_seq" /\ a0_publisher_init[6] = "write"
<1>0. /\ "time_mono" \in Names /\ "time_wall" \in Names /\ "writer_id" \in Names
      /\ "writer_seq" \in Names /\ "transport_seq" \in Names /\ "write" \in Names
  BY DEF Names, HasProcess, HasProcessLocked
<1>1. PICK c1 : c1 = <<"time_mono">>
  OBVIOUS
<1>2. PICK c2 : c2 = a0_middleware_compose(c1, <<"time_wall">>)
  OBVIOUS
<1>3. PICK c3 : c3 = a0_middleware_compose(c2, <<"writer_id">>)
  OBVIOUS
<1>4. PICK c4 : c4 = a0_middleware_compose(c3, <<"writer_seq">>)
  OBVIOUS
<1>5. PICK c5 : c5 = a0_middleware_compose(c4, <<"transport_seq">>)
  OBVIOUS
<1>6. PICK c6 : c6 = a0_middleware_compose(c5, <<"write">>)
  OBVIOUS
<1>7. a0_publisher_init = c6
  BY <1>1, <1>2, <1>3, <1>4, <1>5, <1>6, Zenon DEF a0_publisher_init, a0_add_standard_headers
<1>8. c1 \in Seq(Names) /\ Len(c1) = 1 /\ c1[1] = "time_mono"
  BY <1>0, <1>1
<1>9. c2 \in Seq(Names) /\ Len(c2) = 2 /\ (\A i \in 1..1 : c2[i] = c1[i]) /\ c2[2] = "time_wall"
  <2>1. Extended(c2, c1, "time_wall")
    BY <1>0, <1>2, <1>8, OneAfter, Zenon
  <2> QED
    BY <1>8, <2>1 DEF Extended
<1>10. c3 \in Seq(Names) /\ Len(c3) = 3 /\ (\A i \in 1..2 : c3[i] = c2[i]) /\ c3[3] = "writer_id"
  <2>1. Extended(c3, c2, "writer_id")
    BY <1>0, <1>3, <1>9, OneAfter, Zenon
  <2> QED
    BY <1>9, <2>1 DEF Extended
<1>11. c4 \in Seq(Names) /\ Len(c4) = 4 /\ (\A i \in 1..3 : c4[i] = c3[i]) /\ c4[4] = "writer_seq"
  <2>1. Extended(c4, c3, "writer_seq")
    BY <1>0, <1>4, <1>10, OneAfter, Zenon
  <2> QED
    BY <1>10, <2>1 DEF Extended
<1>12. c5 \in Seq(Names) /\ Len(c5) = 5 /\ (\A i \in 1..4 : c5[i] = c4[i]) /\ c5[5] = "transport_seq"
  <2>1. Extended(c5, c4, "transport_seq")
    BY <1>0, <1>5, <1>11, OneAfter, Zenon
  <2> QED
    BY <1>11, <2>1 DEF Extended
<1>13. c6 \in Seq(Names) /\ Len(c6) = 6 /\ (\A i \in 1..5 : c6[i] = c5[i]) /\ c6[6] = "write"
  <2>1. Extended(c6, c5, "write")
    BY <1>0, <1>6, <1>12, OneAfter, Zenon
  <2> QED
    BY <1>12, <2>1 DEF Extended
<1> QED
  BY <1>7, <1>8, <1>9, <1>10, <1>11, <1>12, <1>13

LEMMA WrappedChain ==
  ASSUME NEW kind \in Wrapped
  PROVE  /\ Len(Chain(kind)) = 7
         /\ Chain(kind)[1] = kind /\ Chain(kind)[2] = "time_mono" /\ Chain(kind)[3] = "time_wall"
         /\ Chain(kind)[4] = "writer_id" /\ Chain(kind)[5] = "writer_seq"
         /\ Chain(kind)[6] = "transport_seq" /\ Chain(kind)[7] = "write"
<1>1. PICK c \in Seq(Names) : c = a0_publisher_init
  BY PublisherChain
<1>2. PICK x \in Names : x = kind
  BY DEF Wrapped, Names, HasProcessLocked
<1>3. PICK d : d = <<x>> \o c
  OBVIOUS
<1>4. Chain(kind) = d
  BY <1>1, <1>2, <1>3, Zenon DEF Chain, Wrapped, a0_writer_wrap
<1>5. Len(c) = 6
  BY <1>1, PublisherChain
<1>6. Len(d) = 7 /\ d[1] = x /\ \A i \in 1..6 : d[i + 1] = c[i]
  <2>1. Len(d) = Len(c) + 1 /\ d[1] = x /\ \A i \in 1..Len(c) : d[i + 1] = c[i]
    BY <1>3, OneBefore, Zenon
  <2> QED
    BY <1>5, <2>1
<1>7. /\ d[2] = c[1] /\ d[3] = c[2] /\ d[4] = c[3]
      /\ d[5] = c[4] /\ d[6] = c[5] /\ d[7] = c[6]
  <2>1. d[1 + 1] = c[1] /\ d[2 + 1] = c[2] /\ d[3 + 1] = c[3] /\ d[4 + 1] = c[4]
        /\ d[5 + 1] = c[5] /\ d[6 + 1] = c[6]
    BY <1>6
  <2> QED
    BY <2>1
<1> QED
  BY <1>1, <1>2, <1>4, <1>6, <1>7, PublisherChain

LEMMA PlainChain ==
  ASSUME NEW kind \in Kinds \ Wrapped
  PROVE  Chain(kind) = a0_publisher_init
BY DEF Chain, Wrapped, Kinds

-----------------------------------------------------------------------------
(* The two passes, by the names of the middleware.                         *)

\* From position i on, the first middleware that has one of the functions is at j.
Turns(c, i, j, has) ==
  /\ Len(c) \in Nat /\ j \in i..Len(c) /\ c[j] \in has
  /\ \A k \in i..j - 1 : c[k] \notin has

LEMMA Goes ==
  ASSUME NEW c, NEW i \in Nat, NEW j, Turns(c, i, j, HasProcess)
  PROVE  a0_writer_write_impl(c, i, FALSE) = j
<1> DEFINE S == {k \in i..Len(c) : c[k] \in HasProcess}
<1>1. j \in S /\ S \subseteq Int /\ \A k \in S : j <= k
  BY DEF Turns
<1> HIDE DEF S
<1>2. \A k \in S : (\A y \in S : k <= y) => k = j
  BY <1>1
<1>3. Min(S) = j
  BY <1>1, <1>2 DEF Min
<1> QED
  BY <1>3 DEF S, a0_writer_write_impl

LEMMA GoesLocked ==
  ASSUME NEW c, NEW i \in Nat, NEW j, Turns(c, i, j, HasProcessLocked)
  PROVE  a0_writer_write_impl(c, i, TRUE) = j
<1> DEFINE S == {k \in i..Len(c) : c[k] \in HasProcessLocked}
<1>1. j \in S /\ S \subseteq Int /\ \A k \in S : j <= k
  BY DEF Turns
<1> HIDE DEF S
<1>2. \A k \in S : (\A y \in S : k <= y) => k = j
  BY <1>1
<1>3. Min(S) = j
  BY <1>1, <1>2 DEF Min
<1> QED
  BY <1>3 DEF S, a0_writer_write_impl

\* The publisher's chain, behind the wrapping middleware if there is one.
Shaped(kind, c, o) ==
  /\ c = Chain(kind) /\ o \in {0, 1} /\ Len(c) = 6 + o
  /\ c[1 + o] = "time_mono" /\ c[2 + o] = "time_wall" /\ c[3 + o] = "writer_id"
  /\ c[4 + o] = "writer_seq" /\ c[5 + o] = "transport_seq" /\ c[6 + o] = "write"
  /\ o = 1 => kind \in Wrapped /\ c[1] = kind
  /\ o = 0 => kind \notin Wrapped

LEMMA Shape ==
  ASSUME NEW kind \in Kinds
  PROVE  \E c, o : Shaped(kind, c, o)
<1>1. PICK c : c = Chain(kind)
  OBVIOUS
<1>2. CASE kind \in Wrapped
  <2>1. /\ Len(c) = 7 /\ c[1] = kind /\ c[2] = "time_mono" /\ c[3] = "time_wall"
        /\ c[4] = "writer_id" /\ c[5] = "writer_seq" /\ c[6] = "transport_seq" /\ c[7] = "write"
    BY <1>1, <1>2, WrappedChain
  <2>2. Shaped(kind, c, 1)
    BY <1>1, <1>2, <2>1 DEF Shaped
  <2> QED
    BY <2>2
<1>3. CASE kind \notin Wrapped
  <2>1. /\ Len(c) = 6 /\ c[1] = "time_mono" /\ c[2] = "time_wall" /\ c[3] = "writer_id"
        /\ c[4] = "writer_seq" /\ c[5] = "transport_seq" /\ c[6] = "write"
    BY <1>1, <1>3, PlainChain, PublisherChain
  <2>2. Shaped(kind, c, 0)
    BY <1>1, <1>3, <2>1 DEF Shaped
  <2> QED
    BY <2>2
<1> QED
  BY <1>2, <1>3

\* The first pass starts with the wall clock.
LEMMA PassStart ==
  ASSUME NEW kind \in Kinds
  PROVE  \E j \in 1..Len(Chain(kind)) :
           j = a0_writer_write_impl(Chain(kind), 1, FALSE) /\ Chain(kind)[j] = "time_wall"
<1>1. PICK c, o : Shaped(kind, c, o)
  BY Shape
<1>2. \E j \in 1..Len(c) : c[j] = "time_wall" /\ Turns(c, 1, j, HasProcess)
  <2>1. \A k \in 1..(2 + o) - 1 : c[k] \notin HasProcess
    BY <1>1 DEF Shaped, HasProcess, Wrapped
  <2> QED
    BY <1>1, <2>1 DEF Shaped, Turns, HasProcess
<1>3. c = Chain(kind) /\ 1 \in Nat
  BY <1>1 DEF Shaped
<1> QED
  BY <1>2, <1>3, Goes, Zenon

\* What follows a middleware in the first pass.
Follows(name) ==
  IF name = "time_wall" THEN "writer_id" ELSE IF name = "writer_id" THEN "writer_seq" ELSE "write"

LEMMA PassOn ==
  ASSUME NEW kind \in Kinds, NEW i \in 1..Len(Chain(kind)),
         Chain(kind)[i] \in {"time_wall", "writer_id", "writer_seq"}
  PROVE  \E j \in 1..Len(Chain(kind)) :
           /\ j = a0_writer_write_impl(Chain(kind), i + 1, FALSE)
           /\ Chain(kind)[j] = Follows(Chain(kind)[i])
<1>1. PICK c, o : Shaped(kind, c, o)
  BY Shape
<1>2. c = Chain(kind) /\ i + 1 \in Nat
  BY <1>1 DEF Shaped
<1>3. i \in 1..Len(c) /\ c[i] \in {"time_wall", "writer_id", "writer_seq"}
  BY <1>2
<1>4. \/ i = 2 + o /\ c[i] = "time_wall"
      \/ i = 3 + o /\ c[i] = "writer_id"
      \/ i = 4 + o /\ c[i] = "writer_seq"
  BY <1>1, <1>3 DEF Shaped, Wrapped
<1>5. \E j \in 1..Len(c) : c[j] = Follows(c[i]) /\ Turns(c, i + 1, j, HasProcess)
  <2>1. CASE i = 2 + o /\ c[i] = "time_wall"
    <3>1. c[3 + o] = Follows(c[i]) /\ Turns(c, i + 1, 3 + o, HasProcess)
      BY <1>1, <2>1 DEF Shaped, Turns, HasProcess, Follows
    <3> QED
      BY <1>1, <3>1 DEF Shaped
  <2>2. CASE i = 3 + o /\ c[i] = "writer_id"
    <3>1. c[4 + o] = Follows(c[i]) /\ Turns(c, i + 1, 4 + o, HasProcess)
      BY <1>1, <2>2 DEF Shaped, Turns, HasProcess, Follows
    <3> QED
      BY <1>1, <3>1 DEF Shaped
  <2>3. CASE i = 4 + o /\ c[i] = "writer_seq"
    <3>1. c[6 + o] = Follows(c[i]) /\ Turns(c, i + 1, 6 + o, HasProcess)
      BY <1>1, <2>3 DEF Shaped, Turns, HasProcess, Follows
    <3> QED
      BY <1>1, <3>1 DEF Shaped
  <2> QED
    BY <1>4, <2>1, <2>2, <2>3
<1> QED
  BY <1>2, <1>5, Goes, Zenon

\* The locked pass starts with the wrapping middleware, or with the monotonic clock.
LEMMA LockedStart ==
  ASSUME NEW kind \in Kinds
  PROVE  \E j \in 1..Len(Chain(kind)) :
           /\ j = a0_writer_write_impl(Chain(kind), 1, TRUE)
           /\ Chain(kind)[j] = IF kind \in Wrapped THEN kind ELSE "time_mono"
<1>1. PICK c, o : Shaped(kind, c, o)
  BY Shape
<1>2. /\ 1 \in 1..Len(c) /\ c[1] = IF kind \in Wrapped THEN kind ELSE "time_mono"
      /\ Turns(c, 1, 1, HasProcessLocked)
  <2>1. 1 \in 1..Len(c) /\ c[1] = IF kind \in Wrapped THEN kind ELSE "time_mono"
    BY <1>1 DEF Shaped
  <2>2. c[1] \in HasProcessLocked
    BY <2>1 DEF HasProcessLocked, Wrapped
  <2> QED
    BY <1>1, <2>1, <2>2 DEF Shaped, Turns
<1>3. c = Chain(kind) /\ 1 \in Nat
  BY <1>1 DEF Shaped
<1> QED
  BY <1>2, <1>3, GoesLocked, Zenon

\* What follows a middleware in the locked pass.
FollowsLocked(name) ==
  IF name \in Wrapped THEN "time_mono" ELSE IF name = "time_mono" THEN "transport_seq" ELSE "write"

LEMMA LockedOn ==
  ASSUME NEW kind \in Kinds, NEW i \in 1..Len(Chain(kind)),
         Chain(kind)[i] \in Wrapped \cup {"time_mono", "transport_seq"}
  PROVE  \E j \in 1..Len(Chain(kind)) :
           /\ j = a0_writer_write_impl(Chain(kind), i + 1, TRUE)
           /\ Chain(kind)[j] = FollowsLocked(Chain(kind)[i])
<1>1. PICK c, o : Shaped(kind, c, o)
  BY Shape
<1>2. c = Chain(kind) /\ i + 1 \in Nat
  BY <1>1 DEF Shaped
<1>3. i \in 1..Len(c) /\ c[i] \in Wrapped \cup {"time_mono", "transport_seq"}
  BY <1>2
<1>4. \/ i = 1 /\ o = 1 /\ c[i] \in Wrapped
      \/ i = 1 + o /\ c[i] = "time_mono"
      \/ i = 5 + o /\ c[i] = "transport_seq"
  BY <1>1, <1>3 DEF Shaped, Wrapped
<1>5. \E j \in 1..Len(c) : c[j] = FollowsLocked(c[i]) /\ Turns(c, i + 1, j, HasProcessLocked)
  <2>1. CASE i = 1 /\ o = 1 /\ c[i] \in Wrapped
    <3>1. c[2] = FollowsLocked(c[i]) /\ Turns(c, i + 1, 2, HasProcessLocked)
      BY <1>1, <2>1 DEF Shaped, Turns, HasProcessLocked, FollowsLocked
    <3> QED
      BY <1>1, <3>1 DEF Shaped
  <2>2. CASE i = 1 + o /\ c[i] = "time_mono"
    <3>1. c[5 + o] = FollowsLocked(c[i]) /\ Turns(c, i + 1, 5 + o, HasProcessLocked)
      BY <1>1, <2>2 DEF Shaped, Turns, HasProcessLocked, FollowsLocked, Wrapped
    <3> QED
      BY <1>1, <3>1 DEF Shaped
  <2>3. CASE i = 5 + o /\ c[i] = "transport_seq"
    <3>1. c[6 + o] = FollowsLocked(c[i]) /\ Turns(c, i + 1, 6 + o, HasProcessLocked)
      BY <1>1, <2>3 DEF Shaped, Turns, HasProcessLocked, FollowsLocked, Wrapped
    <3> QED
      BY <1>1, <3>1 DEF Shaped
  <2> QED
    BY <1>4, <2>1, <2>2, <2>3
<1> QED
  BY <1>2, <1>5, GoesLocked, Zenon
-----------------------------------------------------------------------------
(* The inductive invariant.                                                *)

\* Where a thread is: the middleware it comes to next.
Stage(t) == IF at[t] = 0 THEN "idle" ELSE Here(t)

\* A sequence, of whatever.
IsSeq(s) == \E S : s \in Seq(S)

Types ==
  /\ IsSeq(log) /\ now \in Nat /\ wseq \in [{WriterOf[t] : t \in Threads} -> Nat]
  /\ DOMAIN req = Threads /\ DOMAIN pkt = Threads /\ DOMAIN at = Threads
  /\ DOMAIN tlk = Threads /\ DOMAIN written = Threads
  /\ \A t \in Threads :
       /\ DOMAIN pkt[t] = {"headers", "payload"}
       /\ at[t] \in Nat /\ tlk[t] \in BOOLEAN /\ written[t] \in BOOLEAN

(* The first pass runs through the first functions without the mutex, the  *)
(* second through the others with it, and nobody else has it then.         *)
Control(t) ==
  /\ at[t] # 0 => at[t] \in 1..Len(Chain(req[t].kind)) /\ req[t] \in Requests
  /\ ~tlk[t] => Stage(t) \in {"idle", "time_wall", "writer_id", "writer_seq", "write"}
  /\ tlk[t] => Stage(t) \in Wrapped \cup {"time_mono", "transport_seq", "write"}
  /\ Stage(t) \in Wrapped => Stage(t) = req[t].kind

Exclusion ==
  /\ \A t \in Threads : t \in owner <=> tlk[t]
  /\ \A t, u \in Threads : tlk[t] /\ tlk[u] => t = u

\* The locked pass is beyond the wrapping middleware, if there is one.
Decided(t) == tlk[t] /\ Stage(t) \notin Wrapped

(* Once its middleware has run, a patch is merged with the last frame, and *)
(* a write_if_empty knows that there is none; the mutex keeps it so.       *)
Effect(t) ==
  at[t] # 0 =>
    /\ pkt[t].payload = IF Decided(t) /\ req[t].kind = "mergepatch" /\ log # <<>>
                          THEN yyjson_merge_patch(log[Len(log)].pkt.payload, req[t].arg)
                          ELSE req[t].arg
    /\ Decided(t) /\ req[t].kind = "write_if_empty" => log = <<>>
    /\ written[t] => Decided(t) /\ req[t].kind = "write_if_empty"

WInv == Types /\ Exclusion /\ (\A t \in Threads : Control(t) /\ Effect(t)) /\ UpdatesAreSerial

-----------------------------------------------------------------------------
(* The actions, by what they do to the thread that takes them.             *)

Same(u) ==
  at'[u] = at[u] /\ req'[u] = req[u] /\ pkt'[u] = pkt[u] /\ tlk'[u] = tlk[u] /\ written'[u] = written[u]

Quiet(t) == \A u \in Threads \ {t} : Same(u)

\* a0_writer_write of r.
Began(t, r) ==
  /\ Quiet(t) /\ UNCHANGED <<log, owner, now, wseq>>
  /\ Stage(t) = "idle" /\ ~tlk[t] /\ r \in Requests /\ req'[t] = r
  /\ pkt'[t] = [headers |-> IF r.kind = "log" THEN a0_logger_log(r) ELSE r.headers, payload |-> r.arg]
  /\ Stage(t)' = "time_wall" /\ at'[t] \in 1..Len(Chain(r.kind))
  /\ ~tlk'[t] /\ ~written'[t]

\* A header middleware.
Walked(t, key, val) ==
  /\ Quiet(t) /\ UNCHANGED <<log, owner, now>> /\ at[t] # 0
  /\ req'[t] = req[t] /\ tlk'[t] = tlk[t] /\ written'[t] = written[t]
  /\ DOMAIN pkt'[t] = DOMAIN pkt[t]
  /\ pkt'[t].payload = pkt[t].payload /\ pkt'[t].headers = <<Header(key, val)>> \o pkt[t].headers
  /\ at'[t] \in 1..Len(Chain(req[t].kind))
  /\ \/ ~tlk[t] /\ Stage(t) \in {"time_wall", "writer_id", "writer_seq"} /\ Stage(t)' = Follows(Stage(t))
     \/ tlk[t] /\ Stage(t) \in {"time_mono", "transport_seq"} /\ Stage(t)' = FollowsLocked(Stage(t))

\* A wrapping middleware that lets the packet pass, with the given payload.
Passed(t, payload) ==
  /\ Quiet(t) /\ UNCHANGED <<log, owner, now, wseq>> /\ at[t] # 0
  /\ req'[t] = req[t] /\ tlk[t] /\ tlk'[t]
  /\ DOMAIN pkt'[t] = DOMAIN pkt[t]
  /\ pkt'[t].payload = payload /\ pkt'[t].headers = pkt[t].headers
  /\ at'[t] \in 1..Len(Chain(req[t].kind))
  /\ Stage(t) \in Wrapped /\ Stage(t)' = "time_mono"

\* The mutex is taken.
Took(t) ==
  /\ Quiet(t) /\ UNCHANGED <<log, now, wseq>> /\ at[t] # 0
  /\ req'[t] = req[t] /\ pkt'[t] = pkt[t] /\ written'[t] = written[t]
  /\ owner = {} /\ owner' = {t} /\ ~tlk[t] /\ tlk'[t] /\ Stage(t) = "write"
  /\ at'[t] \in 1..Len(Chain(req[t].kind))
  /\ Stage(t)' = IF req[t].kind \in Wrapped THEN req[t].kind ELSE "time_mono"

\* The write ends and the mutex is released.
Left(t) ==
  /\ Quiet(t) /\ UNCHANGED <<now, wseq>>
  /\ at[t] # 0 /\ at'[t] = 0 /\ Stage(t)' = "idle" /\ req'[t] = req[t] /\ pkt'[t] = pkt[t]
  /\ tlk[t] /\ ~tlk'[t] /\ owner' = owner \ {t}

(* The stage of a thread depends on nothing but its own variables.         *)
LEMMA SameStage ==
  ASSUME NEW u, Same(u)
  PROVE  Stage(u)' = Stage(u)
BY DEF Same, Stage, Here

\* A request in progress has a kind.
LEMMA KindOf ==
  ASSUME NEW t \in Threads, Control(t), at[t] # 0
  PROVE  req[t].kind \in Kinds
BY ConstantsAssumption DEF Control, Kinds

LEMMA BeganSo ==
  ASSUME Types, NEW t \in Threads, Control(t), a0_writer_write(t)
  PROVE  \E r : Began(t, r)
<1>1. PICK r \in Requests :
        /\ req' = [req EXCEPT ![t] = r]
        /\ pkt' = [pkt EXCEPT ![t] =
                    [headers |-> IF r.kind = "log" THEN a0_logger_log(r) ELSE r.headers, payload |-> r.arg]]
        /\ at' = [at EXCEPT ![t] = a0_writer_write_impl(Chain(r.kind), 1, FALSE)]
  BY DEF a0_writer_write
<1>2. r.kind \in Kinds
  BY ConstantsAssumption DEF Kinds
<1>3. PICK j \in 1..Len(Chain(r.kind)) :
        j = a0_writer_write_impl(Chain(r.kind), 1, FALSE) /\ Chain(r.kind)[j] = "time_wall"
  BY <1>2, PassStart
<1>4. at' = [at EXCEPT ![t] = j]
  BY <1>1, <1>3, Zenon
<1>5. at[t] = 0 /\ Stage(t) = "idle" /\ ~tlk[t] /\ UNCHANGED <<log, owner, now, wseq, tlk>>
      /\ written' = [written EXCEPT ![t] = FALSE]
  BY DEF a0_writer_write, Stage, Control, Wrapped
<1>6. Quiet(t)
  BY <1>1, <1>4, <1>5 DEF Quiet, Same, Types
<1>7. req'[t] = r /\ at'[t] = j /\ written'[t] = FALSE /\ tlk'[t] = tlk[t]
      /\ pkt'[t] = [headers |-> IF r.kind = "log" THEN a0_logger_log(r) ELSE r.headers, payload |-> r.arg]
  BY <1>1, <1>4, <1>5 DEF Types
<1>8. Stage(t)' = "time_wall"
  <2>1. j # 0
    OBVIOUS
  <2> QED
    BY <1>3, <1>7, <2>1 DEF Stage, Here
<1>9. Began(t, r)
  BY <1>5, <1>6, <1>7, <1>8 DEF Began
<1> QED
  BY <1>9

\* The next position, by its name, in either pass.
LEMMA OnwardUnlocked ==
  ASSUME Types, NEW t \in Threads, Control(t), Onward(t), req' = req, ~tlk[t],
         Stage(t) \in {"time_wall", "writer_id", "writer_seq"}
  PROVE  at'[t] \in 1..Len(Chain(req[t].kind)) /\ Stage(t)' = Follows(Stage(t))
<1>1. at[t] # 0 /\ at[t] \in 1..Len(Chain(req[t].kind)) /\ Stage(t) = Chain(req[t].kind)[at[t]]
  BY DEF Stage, Here, Control
<1>2. req[t].kind \in Kinds
  BY <1>1, KindOf
<1>3. PICK j \in 1..Len(Chain(req[t].kind)) :
        /\ j = a0_writer_write_impl(Chain(req[t].kind), at[t] + 1, FALSE)
        /\ Chain(req[t].kind)[j] = Follows(Stage(t))
  BY <1>1, <1>2, PassOn
<1>4. tlk[t] = FALSE
  BY DEF Types
<1>5. at' = [at EXCEPT ![t] = j]
  BY <1>3, <1>4, Zenon DEF Onward
<1>6. at'[t] = j /\ j # 0
  BY <1>5 DEF Types
<1> QED
  BY <1>3, <1>6, Zenon DEF Stage, Here

LEMMA OnwardLocked ==
  ASSUME Types, NEW t \in Threads, Control(t), Onward(t), req' = req, tlk[t],
         Stage(t) \in Wrapped \cup {"time_mono", "transport_seq"}
  PROVE  at'[t] \in 1..Len(Chain(req[t].kind)) /\ Stage(t)' = FollowsLocked(Stage(t))
<1>1. at[t] # 0 /\ at[t] \in 1..Len(Chain(req[t].kind)) /\ Stage(t) = Chain(req[t].kind)[at[t]]
  BY DEF Stage, Here, Control, Wrapped
<1>2. req[t].kind \in Kinds
  BY <1>1, KindOf
<1>3. PICK j \in 1..Len(Chain(req[t].kind)) :
        /\ j = a0_writer_write_impl(Chain(req[t].kind), at[t] + 1, TRUE)
        /\ Chain(req[t].kind)[j] = FollowsLocked(Stage(t))
  BY <1>1, <1>2, LockedOn
<1>4. tlk[t] = TRUE
  BY DEF Types
<1>5. at' = [at EXCEPT ![t] = j]
  BY <1>3, <1>4, Zenon DEF Onward
<1>6. at'[t] = j /\ j # 0
  BY <1>5 DEF Types
<1> QED
  BY <1>3, <1>6, Zenon DEF Stage, Here

LEMMA OnwardQuiet ==
  ASSUME Types, NEW t \in Threads, Onward(t), UNCHANGED <<req, tlk>>, NEW u \in Threads \ {t}
  PROVE  at'[u] = at[u] /\ req'[u] = req[u] /\ tlk'[u] = tlk[u]
<1>1. PICK j : j = a0_writer_write_impl(Chain(req[t].kind), at[t] + 1, tlk[t])
  OBVIOUS
<1>2. at' = [at EXCEPT ![t] = j]
  BY <1>1 DEF Onward
<1> QED
  BY <1>2 DEF Types

LEMMA WalkedSo ==
  ASSUME Types, NEW t \in Threads, Control(t), NEW key, NEW val, AddHeader(t, key, val), at[t] # 0,
         Stage(t) \in {"time_mono", "time_wall", "writer_id", "writer_seq", "transport_seq"}
  PROVE  Walked(t, key, val)
<1>1. /\ UNCHANGED <<log, owner, now, writes, req, tlk, written>> /\ Onward(t)
      /\ pkt' = [pkt EXCEPT ![t].headers = <<Header(key, val)>> \o @]
  BY DEF AddHeader
<1>2. PICK h : h = <<Header(key, val)>> \o pkt[t].headers
  OBVIOUS
<1>3. pkt' = [pkt EXCEPT ![t].headers = h]
  BY <1>1, <1>2
<1>4. /\ DOMAIN pkt'[t] = DOMAIN pkt[t] /\ pkt'[t].payload = pkt[t].payload /\ pkt'[t].headers = h
      /\ \A u \in Threads \ {t} : pkt'[u] = pkt[u]
  BY <1>3 DEF Types
<1>5. Quiet(t)
  BY <1>1, <1>4, OnwardQuiet DEF Quiet, Same
<1>6. CASE ~tlk[t]
  <2>1. Stage(t) \in {"time_wall", "writer_id", "writer_seq"}
    BY <1>6 DEF Control
  <2> QED
    BY <1>1, <1>2, <1>4, <1>5, <1>6, <2>1, OnwardUnlocked DEF Walked
<1>7. CASE tlk[t]
  <2>1. Stage(t) \in {"time_mono", "transport_seq"}
    BY <1>7 DEF Control, Wrapped
  <2> QED
    BY <1>1, <1>2, <1>4, <1>5, <1>7, <2>1, OnwardLocked DEF Walked
<1> QED
  BY <1>6, <1>7

LEMMA TookSo ==
  ASSUME Types, NEW t \in Threads, Control(t), a0_write_action_process(t)
  PROVE  Took(t)
<1>1. /\ at[t] # 0 /\ Here(t) = "write" /\ ~tlk[t] /\ owner = {} /\ owner' = {t}
      /\ tlk' = [tlk EXCEPT ![t] = TRUE]
      /\ UNCHANGED <<log, now, wseq, writes, req, pkt, written>>
  BY DEF a0_write_action_process
<1>2. req[t].kind \in Kinds
  BY <1>1, KindOf
<1>3. PICK j \in 1..Len(Chain(req[t].kind)) :
        /\ j = a0_writer_write_impl(Chain(req[t].kind), 1, TRUE)
        /\ Chain(req[t].kind)[j] = IF req[t].kind \in Wrapped THEN req[t].kind ELSE "time_mono"
  BY <1>2, LockedStart
<1>4. at' = [at EXCEPT ![t] = j]
  BY <1>3, Zenon DEF a0_write_action_process
<1>5. at'[t] = j /\ j # 0 /\ tlk'[t] /\ \A u \in Threads \ {t} : at'[u] = at[u] /\ tlk'[u] = tlk[u]
  BY <1>1, <1>4 DEF Types
<1>6. Stage(t)' = IF req[t].kind \in Wrapped THEN req[t].kind ELSE "time_mono"
  BY <1>1, <1>3, <1>5, Zenon DEF Stage, Here
<1>7. Stage(t) = "write" /\ Quiet(t)
  BY <1>1, <1>5 DEF Stage, Quiet, Same
<1> QED
  BY <1>1, <1>5, <1>6, <1>7 DEF Took

\* Leave is a way out of the locked pass only.
LEMMA LeaveSo ==
  ASSUME Types, NEW t \in Threads, Control(t), at[t] # 0, Here(t) \in Wrapped, Leave(t),
         \A u \in Threads \ {t} : written'[u] = written[u]
  PROVE  Left(t) /\ log' = log
<1>1. Stage(t) = Here(t) /\ tlk[t]
  BY DEF Stage, Control, Types, Wrapped
<1>2. /\ owner' = owner \ {t} /\ at' = [at EXCEPT ![t] = 0] /\ tlk' = [tlk EXCEPT ![t] = FALSE]
      /\ UNCHANGED <<log, now, wseq, writes, req, pkt>>
  BY DEF Leave
<1>3. at'[t] = 0 /\ ~tlk'[t] /\ \A u \in Threads \ {t} : at'[u] = at[u] /\ tlk'[u] = tlk[u]
  BY <1>2 DEF Types
<1>4. Quiet(t)
  BY <1>2, <1>3 DEF Quiet, Same
<1> QED
  BY <1>1, <1>2, <1>3, <1>4 DEF Left, Stage

\* Passing a wrapping middleware.
LEMMA PassedSo ==
  ASSUME Types, NEW t \in Threads, Control(t), at[t] # 0, Here(t) \in Wrapped, Onward(t),
         UNCHANGED <<log, owner, now, wseq, req, tlk>>,
         \A u \in Threads \ {t} : written'[u] = written[u],
         NEW payload, pkt' = [pkt EXCEPT ![t].payload = payload] \/ (pkt' = pkt /\ payload = pkt[t].payload)
  PROVE  Passed(t, payload)
<1>1. Stage(t) = Here(t) /\ tlk[t]
  BY DEF Stage, Control, Types, Wrapped
<1>2. /\ DOMAIN pkt'[t] = DOMAIN pkt[t] /\ pkt'[t].payload = payload /\ pkt'[t].headers = pkt[t].headers
      /\ \A u \in Threads \ {t} : pkt'[u] = pkt[u]
  <2>1. CASE pkt' = [pkt EXCEPT ![t].payload = payload]
    BY <2>1 DEF Types
  <2>2. CASE pkt' = pkt /\ payload = pkt[t].payload
    BY <2>2
  <2> QED
    BY <2>1, <2>2
<1>3. Quiet(t)
  BY <1>2, OnwardQuiet DEF Quiet, Same
<1>4. at'[t] \in 1..Len(Chain(req[t].kind)) /\ Stage(t)' = "time_mono"
  BY <1>1, OnwardLocked DEF FollowsLocked
<1> QED
  BY <1>1, <1>2, <1>3, <1>4 DEF Passed

LEMMA WriteIfEmptySo ==
  ASSUME Types, NEW t \in Threads, Control(t), a0_write_if_empty(t)
  PROVE  /\ Stage(t) = "write_if_empty"
         /\ \/ Left(t) /\ log' = log /\ ~written'[t]
            \/ Passed(t, pkt[t].payload) /\ log = <<>>
<1>1. at[t] # 0 /\ Here(t) = "write_if_empty" /\ written' = [written EXCEPT ![t] = log = <<>>]
  BY DEF a0_write_if_empty
<1>2. PICK b \in BOOLEAN : b <=> log = <<>>
  OBVIOUS
<1>3. written' = [written EXCEPT ![t] = b]
  BY <1>1, <1>2
<1>4. (written'[t] <=> log = <<>>) /\ \A u \in Threads \ {t} : written'[u] = written[u]
  BY <1>2, <1>3 DEF Types
<1>5. Stage(t) = "write_if_empty" /\ Here(t) \in Wrapped
  BY <1>1 DEF Stage, Wrapped
<1>6. CASE log # <<>> /\ Leave(t)
  BY <1>1, <1>4, <1>5, <1>6, LeaveSo
<1>7. CASE log = <<>> /\ Onward(t) /\ UNCHANGED <<log, owner, now, wseq, writes, req, pkt, tlk>>
  BY <1>1, <1>4, <1>5, <1>7, PassedSo
<1> QED
  BY <1>5, <1>6, <1>7 DEF a0_write_if_empty

LEMMA MergepatchSo ==
  ASSUME Types, NEW t \in Threads, Control(t), a0_json_mergepatch(t)
  PROVE  /\ Stage(t) = "mergepatch" /\ written' = written
         /\ \/ Left(t) /\ log' = log
            \/ Passed(t, pkt[t].payload) /\ log = <<>>
            \/ Passed(t, yyjson_merge_patch(log[Len(log)].pkt.payload, pkt[t].payload)) /\ log # <<>>
<1>1. at[t] # 0 /\ Here(t) = "mergepatch" /\ UNCHANGED written
  BY DEF a0_json_mergepatch
<1>2. Stage(t) = "mergepatch" /\ Here(t) \in Wrapped
  BY <1>1 DEF Stage, Wrapped
<1>3. PICK merged : merged = yyjson_merge_patch(log[Len(log)].pkt.payload, pkt[t].payload)
  OBVIOUS
<1>4. CASE Leave(t)
  BY <1>1, <1>2, <1>4, LeaveSo
<1>5. CASE log = <<>> /\ Onward(t) /\ UNCHANGED <<log, owner, now, wseq, writes, req, pkt, tlk>>
  BY <1>1, <1>2, <1>5, PassedSo
<1>6. CASE /\ log # <<>> /\ pkt' = [pkt EXCEPT ![t].payload = merged]
           /\ Onward(t) /\ UNCHANGED <<log, owner, now, wseq, writes, req, tlk>>
  BY <1>1, <1>2, <1>3, <1>6, PassedSo
<1> QED
  BY <1>1, <1>2, <1>3, <1>4, <1>5, <1>6, Zenon DEF a0_json_mergepatch

LEMMA CommittedSo ==
  ASSUME Types, NEW t \in Threads, a0_write_action_process_locked(t)
  PROVE  /\ Left(t) /\ Stage(t) = "write" /\ written' = written
         /\ log' = Append(log, [pkt |-> pkt[t], req |-> req[t], by |-> t])
<1>1. /\ at[t] # 0 /\ Here(t) = "write" /\ tlk[t]
      /\ owner' = owner \ {t} /\ at' = [at EXCEPT ![t] = 0] /\ tlk' = [tlk EXCEPT ![t] = FALSE]
      /\ UNCHANGED <<now, wseq, writes, req, pkt, written>>
  BY DEF a0_write_action_process_locked
<1>2. at'[t] = 0 /\ ~tlk'[t] /\ \A u \in Threads \ {t} : at'[u] = at[u] /\ tlk'[u] = tlk[u]
  BY <1>1 DEF Types
<1>3. Quiet(t)
  BY <1>1, <1>2 DEF Quiet, Same
<1> QED
  BY <1>1, <1>2, <1>3 DEF Left, Stage, a0_write_action_process_locked

-----------------------------------------------------------------------------
(* The types are kept.                                                     *)

LEMMA OnwardDomain ==
  ASSUME NEW t, Onward(t)
  PROVE  DOMAIN at' = DOMAIN at
<1>1. PICK j : j = a0_writer_write_impl(Chain(req[t].kind), at[t] + 1, tlk[t])
  OBVIOUS
<1>2. at' = [at EXCEPT ![t] = j]
  BY <1>1 DEF Onward
<1> QED
  BY <1>2

LEMMA Domains ==
  ASSUME NEW t, a0_writer_write(t) \/ Step(t)
  PROVE  /\ DOMAIN req' = DOMAIN req /\ DOMAIN pkt' = DOMAIN pkt /\ DOMAIN at' = DOMAIN at
         /\ DOMAIN tlk' = DOMAIN tlk /\ DOMAIN written' = DOMAIN written
<1>1. CASE a0_writer_write(t)
  <2>1. PICK r, j :
          /\ req' = [req EXCEPT ![t] = r]
          /\ pkt' = [pkt EXCEPT ![t] =
                      [headers |-> IF r.kind = "log" THEN a0_logger_log(r) ELSE r.headers, payload |-> r.arg]]
          /\ at' = [at EXCEPT ![t] = j]
    BY <1>1, Zenon DEF a0_writer_write
  <2>2. tlk' = tlk /\ written' = [written EXCEPT ![t] = FALSE]
    BY <1>1 DEF a0_writer_write
  <2> QED
    BY <2>1, <2>2
<1>2. ASSUME NEW key, NEW val, AddHeader(t, key, val)
      PROVE  /\ DOMAIN req' = DOMAIN req /\ DOMAIN pkt' = DOMAIN pkt /\ DOMAIN at' = DOMAIN at
             /\ DOMAIN tlk' = DOMAIN tlk /\ DOMAIN written' = DOMAIN written
  <2>1. DOMAIN at' = DOMAIN at
    BY <1>2, OnwardDomain DEF AddHeader
  <2>2. PICK h : h = <<Header(key, val)>> \o pkt[t].headers
    OBVIOUS
  <2>3. pkt' = [pkt EXCEPT ![t].headers = h] /\ UNCHANGED <<req, tlk, written>>
    BY <1>2, <2>2 DEF AddHeader
  <2> QED
    BY <2>1, <2>3
<1>3. CASE \/ a0_add_time_mono_header(t) \/ a0_add_time_wall_header(t) \/ a0_add_writer_id_header(t)
           \/ a0_add_writer_seq_header(t) \/ a0_add_transport_seq_header(t)
  <2>1. PICK key, val : AddHeader(t, key, val)
    BY <1>3, Zenon DEF a0_add_time_mono_header, a0_add_time_wall_header, a0_add_writer_id_header,
         a0_add_writer_seq_header, a0_add_transport_seq_header
  <2> QED
    BY <2>1, <1>2
<1>4. ASSUME Leave(t)
      PROVE  /\ DOMAIN req' = DOMAIN req /\ DOMAIN pkt' = DOMAIN pkt /\ DOMAIN at' = DOMAIN at
             /\ DOMAIN tlk' = DOMAIN tlk
  BY <1>4 DEF Leave
<1>5. CASE a0_write_if_empty(t)
  <2>1. DOMAIN written' = DOMAIN written
    BY <1>5 DEF a0_write_if_empty
  <2> QED
    BY <1>4, <1>5, <2>1, OnwardDomain DEF a0_write_if_empty
<1>6. CASE a0_json_mergepatch(t)
  <2>1. PICK merged : merged = yyjson_merge_patch(log[Len(log)].pkt.payload, pkt[t].payload)
    OBVIOUS
  <2>2. \/ Onward(t) /\ UNCHANGED <<req, pkt, tlk, written>>
        \/ Leave(t) /\ UNCHANGED written
        \/ pkt' = [pkt EXCEPT ![t].payload = merged] /\ Onward(t) /\ UNCHANGED <<req, tlk, written>>
    BY <1>6, <2>1, Zenon DEF a0_json_mergepatch
  <2> QED
    BY <1>4, <2>2, OnwardDomain
<1>7. CASE a0_write_action_process(t)
  <2>1. PICK j : at' = [at EXCEPT ![t] = j]
    BY <1>7, Zenon DEF a0_write_action_process
  <2>2. tlk' = [tlk EXCEPT ![t] = TRUE] /\ UNCHANGED <<req, pkt, written>>
    BY <1>7 DEF a0_write_action_process
  <2> QED
    BY <2>1, <2>2
<1>8. CASE a0_write_action_process_locked(t)
  BY <1>8 DEF a0_write_action_process_locked
<1> QED
  BY <1>1, <1>3, <1>5, <1>6, <1>7, <1>8 DEF Step

-----------------------------------------------------------------------------
(* A step of a thread is one of these.                                     *)

Dresses(t) ==
  \/ Stage(t) = "time_mono" /\ Walked(t, "a0_time_mono", now) /\ wseq' = wseq
  \/ Stage(t) = "time_wall" /\ Walked(t, "a0_time_wall", 0) /\ wseq' = wseq
  \/ Stage(t) = "writer_id" /\ Walked(t, "a0_writer_id", WriterOf[t]) /\ wseq' = wseq
  \/ /\ Stage(t) = "writer_seq" /\ Walked(t, "a0_writer_seq", wseq[WriterOf[t]])
     /\ wseq' = [wseq EXCEPT ![WriterOf[t]] = @ + 1]
  \/ Stage(t) = "transport_seq" /\ Walked(t, "a0_transport_seq", Len(log)) /\ wseq' = wseq

Patches(t) ==
  \/ Stage(t) = "write_if_empty" /\ Passed(t, pkt[t].payload) /\ log = <<>>
  \/ /\ Stage(t) = "mergepatch" /\ written' = written /\ log = <<>>
     /\ Passed(t, pkt[t].payload)
  \/ /\ Stage(t) = "mergepatch" /\ written' = written /\ log # <<>>
     /\ Passed(t, yyjson_merge_patch(log[Len(log)].pkt.payload, pkt[t].payload))

GivesUp(t) ==
  /\ Left(t) /\ log' = log
  /\ \/ Stage(t) = "write_if_empty" /\ ~written'[t]
     \/ Stage(t) = "mergepatch" /\ written' = written

Commits(t) ==
  /\ Left(t) /\ Stage(t) = "write" /\ written' = written
  /\ log' = Append(log, [pkt |-> pkt[t], req |-> req[t], by |-> t])

LEMMA StepSo ==
  ASSUME Types, NEW t \in Threads, Control(t), Step(t)
  PROVE  Dresses(t) \/ Patches(t) \/ GivesUp(t) \/ Took(t) \/ Commits(t)
<1>1. CASE a0_add_time_mono_header(t)
  <2>1. at[t] # 0 /\ Stage(t) = "time_mono" /\ AddHeader(t, "a0_time_mono", now) /\ wseq' = wseq
    BY <1>1 DEF a0_add_time_mono_header, Stage
  <2> QED
    BY <2>1, WalkedSo DEF Dresses
<1>2. CASE a0_add_time_wall_header(t)
  <2>1. at[t] # 0 /\ Stage(t) = "time_wall" /\ AddHeader(t, "a0_time_wall", 0) /\ wseq' = wseq
    BY <1>2 DEF a0_add_time_wall_header, Stage
  <2> QED
    BY <2>1, WalkedSo DEF Dresses
<1>3. CASE a0_add_writer_id_header(t)
  <2>1. at[t] # 0 /\ Stage(t) = "writer_id" /\ AddHeader(t, "a0_writer_id", WriterOf[t]) /\ wseq' = wseq
    BY <1>3 DEF a0_add_writer_id_header, Stage
  <2> QED
    BY <2>1, WalkedSo DEF Dresses
<1>4. CASE a0_add_writer_seq_header(t)
  <2>1. /\ at[t] # 0 /\ Stage(t) = "writer_seq" /\ AddHeader(t, "a0_writer_seq", wseq[WriterOf[t]])
        /\ wseq' = [wseq EXCEPT ![WriterOf[t]] = @ + 1]
    BY <1>4 DEF a0_add_writer_seq_header, Stage
  <2> QED
    BY <2>1, WalkedSo DEF Dresses
<1>5. CASE a0_add_transport_seq_header(t)
  <2>1. at[t] # 0 /\ Stage(t) = "transport_seq" /\ AddHeader(t, "a0_transport_seq", Len(log)) /\ wseq' = wseq
    BY <1>5 DEF a0_add_transport_seq_header, Stage
  <2> QED
    BY <2>1, WalkedSo DEF Dresses
<1>6. CASE a0_write_if_empty(t)
  BY <1>6, WriteIfEmptySo DEF Patches, GivesUp
<1>7. CASE a0_json_mergepatch(t)
  BY <1>7, MergepatchSo DEF Patches, GivesUp
<1>8. CASE a0_write_action_process(t)
  BY <1>8, TookSo
<1>9. CASE a0_write_action_process_locked(t)
  BY <1>9, CommittedSo DEF Commits
<1> QED
  BY <1>1, <1>2, <1>3, <1>4, <1>5, <1>6, <1>7, <1>8, <1>9 DEF Step

-----------------------------------------------------------------------------
(* The invariant is kept: types and control.                               *)

LEMMA Flags ==
  ASSUME Types, NEW t \in Threads, a0_writer_write(t) \/ Step(t)
  PROVE  tlk'[t] \in BOOLEAN /\ written'[t] \in BOOLEAN
<1>1. tlk' = tlk \/ tlk' = [tlk EXCEPT ![t] = TRUE] \/ tlk' = [tlk EXCEPT ![t] = FALSE]
  BY Zenon DEF Step, a0_writer_write, AddHeader, Leave, a0_add_time_mono_header, a0_add_time_wall_header,
     a0_add_writer_id_header, a0_add_writer_seq_header, a0_add_transport_seq_header, a0_write_if_empty,
     a0_json_mergepatch, a0_write_action_process, a0_write_action_process_locked
<1>2. \/ written' = written \/ written' = [written EXCEPT ![t] = FALSE]
      \/ written' = [written EXCEPT ![t] = log = <<>>]
  BY Zenon DEF Step, a0_writer_write, AddHeader, Leave, a0_add_time_mono_header, a0_add_time_wall_header,
     a0_add_writer_id_header, a0_add_writer_seq_header, a0_add_transport_seq_header, a0_write_if_empty,
     a0_json_mergepatch, a0_write_action_process, a0_write_action_process_locked
<1>3. tlk'[t] \in BOOLEAN
  BY <1>1 DEF Types
<1>4. written'[t] \in BOOLEAN
  BY <1>2 DEF Types
<1> QED
  BY <1>3, <1>4

LEMMA TypesStep ==
  ASSUME Types, NEW t \in Threads, Control(t), a0_writer_write(t) \/ Step(t)
  PROVE  Types'
<1>1. /\ DOMAIN req' = Threads /\ DOMAIN pkt' = Threads /\ DOMAIN at' = Threads
      /\ DOMAIN tlk' = Threads /\ DOMAIN written' = Threads
  BY Domains DEF Types
<1>2. (\E r : Began(t, r)) \/ Dresses(t) \/ Patches(t) \/ GivesUp(t) \/ Took(t) \/ Commits(t)
  BY BeganSo, StepSo
<1>3. now' \in Nat
  BY <1>2 DEF Types, Began, Dresses, Walked, Patches, Passed, GivesUp, Left, Took, Commits
<1>4. wseq' \in [{WriterOf[u] : u \in Threads} -> Nat]
  <2>1. CASE wseq' = wseq
    BY <2>1 DEF Types
  <2>2. CASE wseq' = [wseq EXCEPT ![WriterOf[t]] = @ + 1]
    BY <2>2 DEF Types
  <2> QED
    BY <1>2, <2>1, <2>2 DEF Began, Dresses, Patches, Passed, GivesUp, Left, Took, Commits
<1>5. IsSeq(log')
  <2>1. CASE log' = log
    BY <2>1 DEF Types, IsSeq
  <2>2. CASE Commits(t)
    <3>1. PICK e : log' = Append(log, e)
      BY <2>2 DEF Commits
    <3>2. PICK S : log \in Seq(S)
      BY DEF Types, IsSeq
    <3>3. log \in Seq(S \cup {e})
      BY <3>2
    <3>4. Append(log, e) \in Seq(S \cup {e})
      BY <3>3
    <3> QED
      BY <3>1, <3>4 DEF IsSeq
  <2> QED
    BY <1>2, <2>1, <2>2 DEF Began, Dresses, Walked, Patches, Passed, GivesUp, Took
<1>6. Quiet(t)
  BY <1>2 DEF Began, Dresses, Walked, Patches, Passed, GivesUp, Left, Took, Commits
<1>7. DOMAIN pkt'[t] = {"headers", "payload"}
  <2>1. CASE \E r : Began(t, r)
    BY <2>1 DEF Began
  <2>2. CASE DOMAIN pkt'[t] = DOMAIN pkt[t]
    BY <2>2 DEF Types
  <2> QED
    BY <1>2, <2>1, <2>2 DEF Dresses, Walked, Patches, Passed, GivesUp, Left, Took, Commits
<1>8. at'[t] \in Nat
  <2>1. (\E c : at'[t] \in 1..Len(c)) \/ at'[t] = 0
    BY <1>2 DEF Began, Dresses, Walked, Patches, Passed, GivesUp, Left, Took, Commits
  <2> QED
    BY <2>1
<1>9. tlk'[t] \in BOOLEAN /\ written'[t] \in BOOLEAN
  BY Flags
<1> QED
  BY <1>1, <1>3, <1>4, <1>5, <1>6, <1>7, <1>8, <1>9 DEF Types, Quiet, Same

\* The others stay where they are.
LEMMA OthersControl ==
  ASSUME NEW t, Quiet(t), NEW u \in Threads \ {t}, Control(u)
  PROVE  Control(u)' /\ Stage(u)' = Stage(u)
<1>1. Same(u)
  BY DEF Quiet
<1>2. Stage(u)' = Stage(u)
  BY <1>1, SameStage
<1> QED
  BY <1>1, <1>2 DEF Control, Same

LEMMA ControlStep ==
  ASSUME Types, NEW t \in Threads, Control(t), a0_writer_write(t) \/ Step(t)
  PROVE  Control(t)'
<1>1. CASE \E r : Began(t, r)
  BY <1>1 DEF Began, Control, Wrapped
<1>2. CASE Dresses(t)
  <2>1. PICK key, val : Walked(t, key, val)
    BY <1>2 DEF Dresses
  <2> QED
    BY <2>1 DEF Walked, Control, Follows, FollowsLocked, Wrapped
<1>3. CASE Patches(t)
  <2>1. PICK payload : Passed(t, payload)
    BY <1>3 DEF Patches
  <2> QED
    BY <2>1 DEF Passed, Control, Wrapped
<1>4. CASE Left(t)
  BY <1>4 DEF Left, Control, Wrapped
<1>5. CASE Took(t)
  BY <1>5 DEF Took, Control, Wrapped
<1> QED
  BY <1>1, <1>2, <1>3, <1>4, <1>5, BeganSo, StepSo DEF GivesUp, Commits

LEMMA ExclusionStep ==
  ASSUME Types, Exclusion, NEW t \in Threads, Control(t), a0_writer_write(t) \/ Step(t)
  PROVE  Exclusion'
<1>1. (\E r : Began(t, r)) \/ Dresses(t) \/ Patches(t) \/ GivesUp(t) \/ Took(t) \/ Commits(t)
  BY BeganSo, StepSo
<1>2. \A u \in Threads \ {t} : tlk'[u] = tlk[u]
  BY <1>1 DEF Began, Dresses, Walked, Patches, Passed, GivesUp, Left, Took, Commits, Quiet, Same
<1>3. \/ owner' = owner /\ (tlk'[t] <=> tlk[t])
      \/ owner' = owner \ {t} /\ ~tlk'[t]
      \/ owner = {} /\ owner' = {t} /\ tlk'[t]
  BY <1>1 DEF Began, Dresses, Walked, Patches, Passed, GivesUp, Left, Took, Commits
<1> QED
  BY <1>2, <1>3 DEF Exclusion

-----------------------------------------------------------------------------
(* Payloads, and the serial log.                                           *)

(* Another thread's packet does not care: if the log grows, the mutex is   *)
(* another's.                                                              *)
LEMMA OthersEffect ==
  ASSUME NEW t, Quiet(t), NEW u \in Threads \ {t}, Effect(u), log' = log \/ ~tlk[u]
  PROVE  Effect(u)'
<1>1. Same(u)
  BY DEF Quiet
<1>2. Stage(u)' = Stage(u) /\ (Decided(u)' <=> Decided(u))
  BY <1>1, SameStage DEF Decided, Same
<1>3. CASE log' = log
  BY <1>1, <1>2, <1>3 DEF Effect, Same
<1>4. CASE ~tlk[u]
  <2>1. ~Decided(u)
    BY <1>4 DEF Decided
  <2> QED
    BY <1>1, <1>2, <2>1 DEF Effect, Same
<1> QED
  BY <1>3, <1>4

LEMMA EffectStep ==
  ASSUME Types, NEW t \in Threads, Control(t), Effect(t), a0_writer_write(t) \/ Step(t)
  PROVE  Effect(t)'
<1>1. CASE \E r : Began(t, r)
  <2>1. PICK r : Began(t, r)
    BY <1>1
  <2>2. ~Decided(t)' /\ pkt'[t].payload = r.arg /\ req'[t] = r /\ ~written'[t]
    BY <2>1 DEF Began, Decided
  <2> QED
    BY <2>2 DEF Effect
<1>2. CASE Dresses(t)
  <2>1. PICK key, val : Walked(t, key, val)
    BY <1>2 DEF Dresses
  <2>2. Decided(t)' <=> Decided(t)
    BY <2>1 DEF Walked, Decided, Follows, FollowsLocked, Wrapped
  <2>3. /\ pkt'[t].payload = pkt[t].payload /\ req'[t] = req[t] /\ written'[t] = written[t] /\ log' = log
        /\ at[t] # 0
    BY <2>1 DEF Walked
  <2> QED
    BY <2>2, <2>3 DEF Effect
<1>3. CASE Patches(t)
  <2>1. /\ at[t] # 0 /\ Stage(t) = req[t].kind /\ req'[t] = req[t] /\ log' = log
        /\ ~Decided(t) /\ Decided(t)'
    BY <1>3 DEF Patches, Passed, Control, Decided, Wrapped
  <2>2. pkt[t].payload = req[t].arg /\ ~written[t]
    BY <2>1 DEF Effect
  <2>3. CASE req[t].kind = "write_if_empty"
    <3>1. log = <<>> /\ pkt'[t].payload = pkt[t].payload
      BY <1>3, <2>1, <2>3 DEF Patches, Passed
    <3> QED
      BY <2>1, <2>2, <2>3, <3>1 DEF Effect
  <2>4. CASE req[t].kind = "mergepatch"
    <3>1. ~written'[t]
      BY <1>3, <2>1, <2>2, <2>4 DEF Patches
    <3>2. CASE log = <<>>
      <4>1. pkt'[t].payload = pkt[t].payload
        BY <1>3, <2>1, <2>4, <3>2 DEF Patches, Passed
      <4> QED
        BY <2>1, <2>2, <2>4, <3>1, <3>2, <4>1 DEF Effect
    <3>3. CASE log # <<>>
      <4>1. pkt'[t].payload = yyjson_merge_patch(log[Len(log)].pkt.payload, pkt[t].payload)
        BY <1>3, <2>1, <2>4, <3>3 DEF Patches, Passed
      <4> QED
        BY <2>1, <2>2, <2>4, <3>1, <3>3, <4>1 DEF Effect
    <3> QED
      BY <3>2, <3>3
  <2> QED
    BY <1>3, <2>1, <2>3, <2>4 DEF Patches
<1>4. CASE Left(t)
  BY <1>4 DEF Left, Effect
<1>5. CASE Took(t)
  <2>1. /\ at[t] # 0 /\ pkt'[t] = pkt[t] /\ req'[t] = req[t] /\ written'[t] = written[t] /\ log' = log
        /\ ~Decided(t)
    BY <1>5 DEF Took, Decided
  <2>2. Decided(t)' => req[t].kind \notin Wrapped
    BY <1>5 DEF Took, Decided
  <2> QED
    BY <2>1, <2>2 DEF Effect, Wrapped
<1> QED
  BY <1>1, <1>2, <1>3, <1>4, <1>5, BeganSo, StepSo DEF GivesUp, Commits

\* The log grows by one.
LEMMA Grown ==
  ASSUME Types, NEW e, log' = Append(log, e)
  PROVE  /\ Len(log) \in Nat /\ Len(log') = Len(log) + 1 /\ log'[Len(log) + 1] = e
         /\ \A n \in 1..Len(log) : log'[n] = log[n]
         /\ log' # <<>> /\ (log # <<>> <=> Len(log) > 0)
<1>1. PICK S : log \in Seq(S)
  BY DEF Types, IsSeq
<1>2. log \in Seq(S \cup {e})
  BY <1>1
<1> QED
  BY <1>2, AppendProperties

LEMMA SerialStep ==
  ASSUME WInv, NEW t \in Threads, a0_writer_write(t) \/ Step(t)
  PROVE  UpdatesAreSerial'
<1>0. Types /\ Control(t) /\ Effect(t)
  BY DEF WInv
<1>1. (\E r : Began(t, r)) \/ Dresses(t) \/ Patches(t) \/ GivesUp(t) \/ Took(t) \/ Commits(t)
  BY <1>0, BeganSo, StepSo
<1>2. Quiet(t)
  BY <1>1 DEF Began, Dresses, Walked, Patches, Passed, GivesUp, Left, Took, Commits
<1>3. CASE ~Commits(t)
  <2>1. log' = log
    BY <1>1, <1>3 DEF Began, Dresses, Walked, Patches, Passed, GivesUp, Took
  <2>2. ~(at'[t] = 0 /\ written'[t])
    <3>1. CASE GivesUp(t)
      BY <1>0, <3>1 DEF GivesUp, Left, Effect, Decided, Wrapped
    <3>2. CASE ~GivesUp(t)
      <4>1. \E c : at'[t] \in 1..Len(c)
        BY <1>1, <1>3, <3>2 DEF Began, Dresses, Walked, Patches, Passed, Took
      <4> QED
        BY <4>1
    <3> QED
      BY <3>1, <3>2
  <2> QED
    BY <1>2, <2>1, <2>2 DEF WInv, UpdatesAreSerial, Quiet, Same
<1>4. CASE Commits(t)
  <2> DEFINE e == [pkt |-> pkt[t], req |-> req[t], by |-> t]
  <2>1. /\ Left(t) /\ tlk[t] /\ at[t] # 0 /\ written' = written /\ log' = Append(log, e) /\ Decided(t)
    BY <1>4 DEF Commits, Left, Decided, Wrapped
  <2>2. /\ Len(log) \in Nat /\ Len(log') = Len(log) + 1 /\ log'[Len(log) + 1] = e
        /\ \A n \in 1..Len(log) : log'[n] = log[n]
        /\ log' # <<>> /\ (log # <<>> <=> Len(log) > 0)
    BY <1>0, <2>1, Grown
  <2>3. e.pkt.payload = pkt[t].payload /\ e.req = req[t] /\ e.by = t
    OBVIOUS
  <2> HIDE DEF e
  <2>4. /\ e.pkt.payload = IF e.req.kind = "mergepatch" /\ log # <<>>
                             THEN yyjson_merge_patch(log[Len(log)].pkt.payload, e.req.arg)
                             ELSE e.req.arg
        /\ e.req.kind = "write_if_empty" => log = <<>>
    BY <1>0, <2>1, <2>3 DEF Effect
  <2>5. ASSUME NEW n \in 1..Len(log')
        PROVE  log'[n].pkt.payload =
                 IF log'[n].req.kind = "mergepatch" /\ n > 1
                   THEN yyjson_merge_patch(log'[n - 1].pkt.payload, log'[n].req.arg)
                   ELSE log'[n].req.arg
    <3>1. CASE n = Len(log) + 1
      <4>1. log'[n] = e /\ (n > 1 <=> log # <<>>) /\ (n > 1 => log'[n - 1] = log[Len(log)])
        BY <2>2, <3>1
      <4> QED
        BY <2>4, <4>1
    <3>2. CASE n \in 1..Len(log)
      <4>1. log'[n] = log[n] /\ (n > 1 => log'[n - 1] = log[n - 1])
        BY <2>2, <3>2
      <4>2. log[n].pkt.payload =
               IF log[n].req.kind = "mergepatch" /\ n > 1
                 THEN yyjson_merge_patch(log[n - 1].pkt.payload, log[n].req.arg)
                 ELSE log[n].req.arg
        BY <3>2 DEF WInv, UpdatesAreSerial
      <4> QED
        BY <4>1, <4>2
    <3> QED
      BY <2>2, <2>5, <3>1, <3>2
  <2>6. ASSUME NEW n \in 2..Len(log')
        PROVE  log'[n].req.kind # "write_if_empty"
    <3>1. CASE n = Len(log) + 1
      BY <2>2, <2>4, <3>1
    <3>2. CASE n \in 2..Len(log)
      BY <2>2, <3>2 DEF WInv, UpdatesAreSerial
    <3> QED
      BY <2>2, <2>6, <3>1, <3>2
  <2>7. ASSUME NEW u \in Threads, at'[u] = 0, written'[u]
        PROVE  log' # <<>> /\ log'[1].by = u /\ log'[1].req = req'[u]
    <3>1. CASE u = t
      <4>1. log = <<>>
        BY <1>0, <2>1, <2>7, <3>1 DEF Effect
      <4>2. log'[1] = e /\ req'[t] = req[t]
        BY <2>1, <2>2, <4>1 DEF Left
      <4> QED
        BY <2>2, <2>3, <3>1, <4>2
    <3>2. CASE u # t
      <4>1. at[u] = 0 /\ written[u] /\ req'[u] = req[u]
        BY <1>2, <2>7, <3>2 DEF Quiet, Same
      <4>2. log # <<>> /\ log[1].by = u /\ log[1].req = req[u]
        BY <4>1 DEF WInv, UpdatesAreSerial
      <4>3. log'[1] = log[1]
        BY <2>2, <4>2
      <4> QED
        BY <2>2, <4>1, <4>2, <4>3
    <3> QED
      BY <3>1, <3>2
  <2> QED
    BY <2>5, <2>6, <2>7 DEF UpdatesAreSerial
<1> QED
  BY <1>3, <1>4

-----------------------------------------------------------------------------
(* The theorem.                                                            *)

LEMMA WInit == Init => WInv
<1> SUFFICES ASSUME Init PROVE WInv
  OBVIOUS
<1> USE DEF Init
<1>1. Types
  <2>1. IsSeq(<<>>)
    <3>1. <<>> \in Seq({})
      OBVIOUS
    <3> QED
      BY <3>1 DEF IsSeq
  <2> QED
    BY <2>1 DEF Types
<1>2. Exclusion
  BY DEF Exclusion
<1>3. \A t \in Threads : Stage(t) = "idle" /\ at[t] = 0 /\ ~tlk[t] /\ ~written[t]
  BY DEF Stage
<1>4. \A t \in Threads : Control(t) /\ Effect(t)
  BY <1>3 DEF Control, Effect, Wrapped
<1>5. UpdatesAreSerial
  BY <1>3 DEF UpdatesAreSerial
<1> QED
  BY <1>1, <1>2, <1>4, <1>5 DEF WInv

LEMMA WStep ==
  ASSUME WInv, [Next \/ Done]_vars
  PROVE  WInv'
<1>1. CASE Tick
  <2>1. now' = now + 1 /\ UNCHANGED <<log, owner, wseq, writes, req, pkt, at, tlk, written>>
    BY <1>1 DEF Tick
  <2>2. \A t : Stage(t)' = Stage(t)
    BY <2>1 DEF Stage, Here
  <2> QED
    BY <2>1, <2>2 DEF WInv, Types, IsSeq, Exclusion, Control, Effect, Decided, UpdatesAreSerial
<1>2. CASE Done \/ UNCHANGED vars
  <2>1. UNCHANGED <<log, owner, now, wseq, writes, req, pkt, at, tlk, written>>
    BY <1>2 DEF Done, vars
  <2>2. \A t : Stage(t)' = Stage(t)
    BY <2>1 DEF Stage, Here
  <2> QED
    BY <2>1, <2>2 DEF WInv, Types, IsSeq, Exclusion, Control, Effect, Decided, UpdatesAreSerial
<1>3. CASE \E t \in Threads : a0_writer_write(t) \/ Step(t)
  <2>1. PICK t \in Threads : a0_writer_write(t) \/ Step(t)
    BY <1>3
  <2>2. Types /\ Exclusion /\ Control(t) /\ Effect(t)
    BY DEF WInv
  <2>3. (\E r : Began(t, r)) \/ Dresses(t) \/ Patches(t) \/ GivesUp(t) \/ Took(t) \/ Commits(t)
    BY <2>1, <2>2, BeganSo, StepSo
  <2>4. Quiet(t) /\ (log' = log \/ tlk[t])
    BY <2>3 DEF Began, Dresses, Walked, Patches, Passed, GivesUp, Left, Took, Commits
  <2>5. Types' /\ Exclusion' /\ Control(t)' /\ Effect(t)' /\ UpdatesAreSerial'
    BY <2>1, <2>2, TypesStep, ExclusionStep, ControlStep, EffectStep, SerialStep
  <2>6. ASSUME NEW u \in Threads \ {t} PROVE Control(u)' /\ Effect(u)'
    <3>1. Control(u) /\ Effect(u) /\ (log' = log \/ ~tlk[u])
      BY <2>2, <2>4 DEF WInv, Exclusion
    <3> QED
      BY <2>4, <3>1, OthersControl, OthersEffect
  <2> QED
    BY <2>5, <2>6 DEF WInv
<1> QED
  BY <1>1, <1>2, <1>3 DEF Next

(* The invariant behind the properties of writer.c and middleware.c.       *)
THEOREM WriterInvariant == Spec => []WInv
BY WInit, WStep, PTL DEF Spec

(* The updates of cfg.c are serial (a0_json_mergepatch, a0_write_if_empty, *)
(* a0_write_action_process): whoever writes, a patch is merged with the    *)
(* frame before it, a write_if_empty is the first frame or none.           *)
THEOREM UpdatesSerial == Spec => []UpdatesAreSerial
<1>1. WInv => UpdatesAreSerial
  BY DEF WInv
<1> QED
  BY <1>1, WriterInvariant, PTL

-----------------------------------------------------------------------------
(* Headers.                                                                *)

\* A key is nowhere in h, in one place with value v, in some places with v in the first.
Absent(h, key) == \A j \in 1..Len(h) : h[j].key # key
Once(h, key, v) ==
  \E i \in 1..Len(h) : h[i].key = key /\ h[i].val = v /\ \A j \in 1..Len(h) : h[j].key = key => j = i
Leads(h, key, v) ==
  \E i \in 1..Len(h) : h[i].key = key /\ h[i].val = v /\ \A j \in 1..i - 1 : h[j].key # key

\* g is h with one more header in front.
Headed(g, h, key, val) == g = <<Header(key, val)>> \o h

LEMMA Prepended ==
  ASSUME NEW h, IsSeq(h), NEW key, NEW val, NEW g, Headed(g, h, key, val)
  PROVE  /\ IsSeq(g) /\ Len(h) \in Nat /\ Len(g) = Len(h) + 1
         /\ g[1].key = key /\ g[1].val = val
         /\ \A i \in 1..Len(h) : g[i + 1] = h[i]
<1>1. PICK S : h \in Seq(S)
  BY DEF IsSeq
<1>2. PICK x : x = Header(key, val)
  OBVIOUS
<1>3. h \in Seq(S \cup {x}) /\ x \in S \cup {x}
  BY <1>1
<1>4. g = <<x>> \o h
  BY <1>2 DEF Headed
<1>5. /\ g \in Seq(S \cup {x}) /\ Len(g) = Len(h) + 1 /\ g[1] = x
      /\ \A i \in 1..Len(h) : g[i + 1] = h[i]
  BY <1>3, <1>4, OneBefore
<1>6. x.key = key /\ x.val = val
  BY <1>2 DEF Header
<1> QED
  BY <1>1, <1>5, <1>6 DEF IsSeq

\* Going from h to g disturbs nothing about k.
Spares(h, g, k) ==
  /\ Absent(h, k) => Absent(g, k)
  /\ \A v : Once(g, k, v) <=> Once(h, k, v)
  /\ \A v : Leads(h, k, v) => Leads(g, k, v)

LEMMA PrependOther ==
  ASSUME NEW h, IsSeq(h), NEW key, NEW val, NEW g, Headed(g, h, key, val), NEW k, k # key
  PROVE  Spares(h, g, k)
<1>1. /\ Len(h) \in Nat /\ Len(g) = Len(h) + 1
      /\ g[1].key = key /\ g[1].val = val
      /\ \A i \in 1..Len(h) : g[i + 1] = h[i]
  BY Prepended
<1>2. \A j \in 1..Len(g) : j = 1 \/ (j - 1 \in 1..Len(h) /\ g[j] = h[j - 1])
  BY <1>1
<1>3. Absent(h, k) => Absent(g, k)
  BY <1>1, <1>2 DEF Absent
<1>4. ASSUME NEW v, Once(h, k, v) PROVE Once(g, k, v)
  <2>1. PICK i \in 1..Len(h) : h[i].key = k /\ h[i].val = v /\ \A j \in 1..Len(h) : h[j].key = k => j = i
    BY <1>4 DEF Once
  <2>2. g[i + 1].key = k /\ g[i + 1].val = v /\ i + 1 \in 1..Len(g)
    BY <1>1, <2>1
  <2>3. \A j \in 1..Len(g) : g[j].key = k => j = i + 1
    BY <1>1, <1>2, <2>1
  <2> QED
    BY <2>2, <2>3 DEF Once
<1>5. ASSUME NEW v, Once(g, k, v) PROVE Once(h, k, v)
  <2>1. PICK i \in 1..Len(g) : g[i].key = k /\ g[i].val = v /\ \A j \in 1..Len(g) : g[j].key = k => j = i
    BY <1>5 DEF Once
  <2>2. i - 1 \in 1..Len(h) /\ h[i - 1].key = k /\ h[i - 1].val = v
    BY <1>1, <1>2, <2>1
  <2>3. \A j \in 1..Len(h) : h[j].key = k => j = i - 1
    <3> SUFFICES ASSUME NEW j \in 1..Len(h), h[j].key = k PROVE j = i - 1
      OBVIOUS
    <3>1. j + 1 \in 1..Len(g) /\ g[j + 1].key = k
      BY <1>1
    <3> QED
      BY <2>1, <3>1
  <2> QED
    BY <2>2, <2>3 DEF Once
<1>6. ASSUME NEW v, Leads(h, k, v) PROVE Leads(g, k, v)
  <2>1. PICK i \in 1..Len(h) : h[i].key = k /\ h[i].val = v /\ \A j \in 1..i - 1 : h[j].key # k
    BY <1>6 DEF Leads
  <2>2. g[i + 1].key = k /\ g[i + 1].val = v /\ i + 1 \in 1..Len(g)
    BY <1>1, <2>1
  <2>3. \A j \in 1..(i + 1) - 1 : g[j].key # k
    BY <1>1, <1>2, <2>1
  <2> QED
    BY <2>2, <2>3 DEF Leads
<1> QED
  BY <1>3, <1>4, <1>5, <1>6 DEF Spares

LEMMA PrependNew ==
  ASSUME NEW h, IsSeq(h), NEW key, NEW val, NEW g, Headed(g, h, key, val)
  PROVE  Leads(g, key, val) /\ (Absent(h, key) => Once(g, key, val))
<1>1. /\ Len(h) \in Nat /\ Len(g) = Len(h) + 1
      /\ g[1].key = key /\ g[1].val = val
      /\ \A i \in 1..Len(h) : g[i + 1] = h[i]
  BY Prepended
<1>2. \A j \in 1..Len(g) : j = 1 \/ (j - 1 \in 1..Len(h) /\ g[j] = h[j - 1])
  BY <1>1
<1>3. Leads(g, key, val)
  BY <1>1 DEF Leads
<1>4. ASSUME Absent(h, key) PROVE Once(g, key, val)
  <2>1. \A j \in 1..Len(g) : g[j].key = key => j = 1
    BY <1>2, <1>4 DEF Absent
  <2>2. 1 \in 1..Len(g)
    BY <1>1
  <2> QED
    BY <1>1, <2>1, <2>2 DEF Once
<1> QED
  BY <1>3, <1>4

LEMMA OnceIsOne ==
  ASSUME NEW h, NEW key, NEW v, NEW w, Once(h, key, v), Once(h, key, w)
  PROVE  v = w
BY DEF Once

-----------------------------------------------------------------------------
(* What the headers say, of a packet under way and of a frame.             *)

\* The standard headers that the packet of t has got so far.
Worn(t) ==
  {key \in StandardKeys :
     \/ key = "a0_time_wall" /\ (tlk[t] \/ Stage(t) # "time_wall")
     \/ key = "a0_writer_id" /\ (tlk[t] \/ Stage(t) \in {"writer_seq", "write"})
     \/ key = "a0_writer_seq" /\ (tlk[t] \/ Stage(t) = "write")
     \/ key = "a0_time_mono" /\ tlk[t] /\ Stage(t) \in {"transport_seq", "write"}
     \/ key = "a0_transport_seq" /\ tlk[t] /\ Stage(t) = "write"}

\* h is numbered n among the packets of writer w.
Numbered(h, w, n) == Once(h, "a0_writer_id", w) /\ Once(h, "a0_writer_seq", n)

\* No frame is later than m.
NotBefore(m) == \A k \in 1..Len(log) : \A v \in Nat : Once(log[k].pkt.headers, "a0_time_mono", v) => v <= m

Dressed(t) ==
  at[t] # 0 =>
    LET h == pkt[t].headers
    IN /\ IsSeq(h)
       /\ \A key \in StandardKeys \ Worn(t) : Absent(h, key)
       /\ "a0_time_wall" \in Worn(t) => Once(h, "a0_time_wall", 0)
       /\ "a0_writer_id" \in Worn(t) => Once(h, "a0_writer_id", WriterOf[t])
       /\ "a0_writer_seq" \in Worn(t) => \E n \in 0..wseq[WriterOf[t]] - 1 : Numbered(h, WriterOf[t], n)
       /\ "a0_time_mono" \in Worn(t) => \E m \in 0..now : Once(h, "a0_time_mono", m) /\ NotBefore(m)
       /\ "a0_transport_seq" \in Worn(t) => Once(h, "a0_transport_seq", Len(log))
       /\ req[t].kind = "log" => Leads(h, "a0_log_level", a0_log_level_name(req[t].level))

\* The frame k says what it is.
Told(k) ==
  LET h == log[k].pkt.headers
  IN /\ log[k].by \in Threads /\ log[k].req \in Requests /\ IsSeq(h)
     /\ Once(h, "a0_time_wall", 0)
     /\ \E n \in 0..wseq[WriterOf[log[k].by]] - 1 : Numbered(h, WriterOf[log[k].by], n)
     /\ \E m \in 0..now : Once(h, "a0_time_mono", m)
     /\ Once(h, "a0_transport_seq", k - 1)
     /\ log[k].req.kind = "log" => Leads(h, "a0_log_level", a0_log_level_name(log[k].req.level))

\* A packet that has a number.
Wears(t) == at[t] # 0 /\ "a0_writer_seq" \in Worn(t)

(* A number that the counter has given out is on one packet only, be it in *)
(* a thread's hands or in the log.                                         *)
UniqueHeld ==
  \A t, u \in Threads : \A n, w :
    /\ Wears(t) /\ Numbered(pkt[t].headers, w, n)
    /\ Wears(u) /\ Numbered(pkt[u].headers, w, n)
    => t = u

UniqueYet ==
  \A t \in Threads : \A k \in 1..Len(log) : \A n, w :
    Wears(t) => ~(Numbered(pkt[t].headers, w, n) /\ Numbered(log[k].pkt.headers, w, n))

UniqueLogged ==
  \A k, l \in 1..Len(log) : \A n, w :
    Numbered(log[k].pkt.headers, w, n) /\ Numbered(log[l].pkt.headers, w, n) => k = l

Unique == UniqueHeld /\ UniqueYet /\ UniqueLogged

\* The monotonic clock along the log.
Monotonic ==
  \A k \in 2..Len(log) : \A a, b \in Nat :
    Once(log[k - 1].pkt.headers, "a0_time_mono", a) /\ Once(log[k].pkt.headers, "a0_time_mono", b) => a <= b

HInv == (\A t \in Threads : Dressed(t)) /\ (\A k \in 1..Len(log) : Told(k)) /\ Unique /\ Monotonic

\* The packet of another thread.
LEMMA OthersDressed ==
  ASSUME Types, NEW t, Quiet(t), NEW u \in Threads \ {t}, Dressed(u), log' = log \/ ~tlk[u], now' = now,
         wseq' = wseq \/ \E v \in Threads : wseq' = [wseq EXCEPT ![WriterOf[v]] = @ + 1]
  PROVE  Dressed(u)' /\ Worn(u)' = Worn(u)
<1>1. Same(u)
  BY DEF Quiet
<1>2. Stage(u)' = Stage(u) /\ Worn(u)' = Worn(u)
  BY <1>1, SameStage DEF Worn, Same
<1>3. wseq[WriterOf[u]] \in Nat /\ wseq'[WriterOf[u]] \in Nat /\ wseq[WriterOf[u]] <= wseq'[WriterOf[u]]
  <2>1. CASE wseq' = wseq
    BY <2>1 DEF Types
  <2>2. ASSUME NEW v \in Threads, wseq' = [wseq EXCEPT ![WriterOf[v]] = @ + 1]
        PROVE  wseq[WriterOf[u]] \in Nat /\ wseq'[WriterOf[u]] \in Nat /\ wseq[WriterOf[u]] <= wseq'[WriterOf[u]]
    BY <2>2 DEF Types
  <2> QED
    BY <2>1, <2>2
<1>4. \A n \in 0..wseq[WriterOf[u]] - 1 : n \in 0..wseq'[WriterOf[u]] - 1
  BY <1>3
<1>5. CASE log' = log
  BY <1>1, <1>2, <1>4, <1>5 DEF Dressed, Same, NotBefore
<1>6. CASE ~tlk[u]
  <2>1. "a0_time_mono" \notin Worn(u) /\ "a0_transport_seq" \notin Worn(u)
    BY <1>6 DEF Worn
  <2> QED
    BY <1>1, <1>2, <1>4, <2>1 DEF Dressed, Same
<1> QED
  BY <1>2, <1>5, <1>6

\* A packet that sets out has what the caller gave it.
LEMMA BeganDressed ==
  ASSUME PlainRequests, NEW t, NEW r, Began(t, r)
  PROVE  Dressed(t)' /\ Worn(t)' = {}
<1>1. r \in Requests /\ req'[t] = r /\ Stage(t)' = "time_wall" /\ ~tlk'[t]
  BY DEF Began
<1>2. Worn(t)' = {}
  BY <1>1 DEF Worn
<1>3. r.headers \in Seq(Range(r.headers)) /\ \A key \in StandardKeys : Absent(r.headers, key)
  BY <1>1 DEF PlainRequests, Absent
<1>4. IsSeq(r.headers)
  BY <1>3 DEF IsSeq
<1>5. PICK h : h = pkt'[t].headers
  OBVIOUS
<1>6. CASE r.kind = "log"
  <2>1. h = <<Header("a0_log_level", a0_log_level_name(r.level))>> \o r.headers
    BY <1>5, <1>6 DEF Began, a0_logger_log
  <2>2. PICK name : name = a0_log_level_name(r.level)
    OBVIOUS
  <2>3. Headed(h, r.headers, "a0_log_level", name)
    BY <2>1, <2>2 DEF Headed
  <2>4. IsSeq(h) /\ Leads(h, "a0_log_level", name)
    BY <1>4, <2>3, Prepended, PrependNew
  <2>5. \A key \in StandardKeys : Absent(h, key)
    <3> SUFFICES ASSUME NEW key \in StandardKeys PROVE Absent(h, key)
      OBVIOUS
    <3>1. key # "a0_log_level"
      BY DEF StandardKeys
    <3>2. Spares(r.headers, h, key)
      BY <1>4, <2>3, <3>1, PrependOther
    <3> QED
      BY <1>3, <3>2 DEF Spares
  <2> QED
    BY <1>1, <1>2, <1>5, <2>2, <2>4, <2>5 DEF Dressed
<1>7. CASE r.kind # "log"
  <2>1. h = r.headers
    BY <1>5, <1>7 DEF Began
  <2> QED
    BY <1>1, <1>2, <1>3, <1>4, <1>5, <1>7, <2>1 DEF Dressed
<1> QED
  BY <1>2, <1>6, <1>7

(* A header middleware adds the one header of its own, and it is new.      *)
LEMMA DressesOne ==
  ASSUME NEW t, Dressed(t), NEW key \in StandardKeys, NEW val, Walked(t, key, val),
         key \notin Worn(t), Worn(t)' = Worn(t) \cup {key}
  PROVE  LET h == pkt[t].headers
             g == pkt'[t].headers
         IN /\ IsSeq(h) /\ IsSeq(g) /\ Once(g, key, val)
            /\ \A k \in StandardKeys \ Worn(t)' : Absent(g, k)
            /\ \A k : k # key => \A v : Once(g, k, v) <=> Once(h, k, v)
            /\ req'[t] = req[t]
            /\ req[t].kind = "log" => Leads(g, "a0_log_level", a0_log_level_name(req[t].level))
<1>1. PICK h : h = pkt[t].headers
  OBVIOUS
<1>2. PICK g : g = pkt'[t].headers
  OBVIOUS
<1>3. at[t] # 0 /\ Headed(g, h, key, val) /\ req'[t] = req[t]
  BY <1>1, <1>2 DEF Walked, Headed
<1>4. /\ IsSeq(h) /\ \A k \in StandardKeys \ Worn(t) : Absent(h, k)
      /\ req[t].kind = "log" => Leads(h, "a0_log_level", a0_log_level_name(req[t].level))
  BY <1>1, <1>3 DEF Dressed
<1>5. IsSeq(g) /\ Once(g, key, val)
  BY <1>3, <1>4, Prepended, PrependNew
<1>6. ASSUME NEW k, k # key
      PROVE  Spares(h, g, k)
  BY <1>3, <1>4, <1>6, PrependOther
<1>7. \A k \in StandardKeys \ Worn(t)' : Absent(g, k)
  BY <1>4, <1>6 DEF Spares
<1>8. "a0_log_level" # key
  BY DEF StandardKeys
<1>9. req[t].kind = "log" => Leads(g, "a0_log_level", a0_log_level_name(req[t].level))
  BY <1>4, <1>6, <1>8 DEF Spares
<1> QED
  BY <1>1, <1>2, <1>3, <1>4, <1>5, <1>6, <1>7, <1>9 DEF Spares

\* What is on the packet at each stage.
LEMMA WornAt ==
  ASSUME NEW t
  PROVE  /\ ~tlk[t] /\ Stage(t) = "time_wall" => Worn(t) = {}
         /\ ~tlk[t] /\ Stage(t) = "writer_id" => Worn(t) = {"a0_time_wall"}
         /\ ~tlk[t] /\ Stage(t) = "writer_seq" => Worn(t) = {"a0_time_wall", "a0_writer_id"}
         /\ \/ ~tlk[t] /\ Stage(t) = "write"
            \/ tlk[t] /\ Stage(t) \in Wrapped \cup {"time_mono"}
            => Worn(t) = {"a0_time_wall", "a0_writer_id", "a0_writer_seq"}
         /\ tlk[t] /\ Stage(t) = "transport_seq" =>
              Worn(t) = {"a0_time_wall", "a0_writer_id", "a0_writer_seq", "a0_time_mono"}
         /\ tlk[t] /\ Stage(t) = "write" => Worn(t) = StandardKeys
BY DEF Worn, StandardKeys, Wrapped

LEMMA WornThen ==
  ASSUME NEW t
  PROVE  /\ ~tlk'[t] /\ Stage(t)' = "time_wall" => Worn(t)' = {}
         /\ ~tlk'[t] /\ Stage(t)' = "writer_id" => Worn(t)' = {"a0_time_wall"}
         /\ ~tlk'[t] /\ Stage(t)' = "writer_seq" => Worn(t)' = {"a0_time_wall", "a0_writer_id"}
         /\ \/ ~tlk'[t] /\ Stage(t)' = "write"
            \/ tlk'[t] /\ Stage(t)' \in Wrapped \cup {"time_mono"}
            => Worn(t)' = {"a0_time_wall", "a0_writer_id", "a0_writer_seq"}
         /\ tlk'[t] /\ Stage(t)' = "transport_seq" =>
              Worn(t)' = {"a0_time_wall", "a0_writer_id", "a0_writer_seq", "a0_time_mono"}
         /\ tlk'[t] /\ Stage(t)' = "write" => Worn(t)' = StandardKeys
BY DEF Worn, StandardKeys, Wrapped

\* The key that a middleware puts on.
KeyOf(name) ==
  CASE name = "time_wall" -> "a0_time_wall" [] name = "writer_id" -> "a0_writer_id"
    [] name = "writer_seq" -> "a0_writer_seq" [] name = "time_mono" -> "a0_time_mono"
    [] OTHER -> "a0_transport_seq"

LEMMA WornMore ==
  ASSUME NEW t, NEW key, NEW val, Walked(t, key, val), key = KeyOf(Stage(t))
  PROVE  key \in StandardKeys /\ key \notin Worn(t) /\ Worn(t)' = Worn(t) \cup {key}
<1>1. CASE ~tlk[t] /\ Stage(t) = "time_wall" /\ Stage(t)' = "writer_id"
  BY <1>1, WornAt, WornThen DEF Walked, KeyOf, StandardKeys
<1>2. CASE ~tlk[t] /\ Stage(t) = "writer_id" /\ Stage(t)' = "writer_seq"
  BY <1>2, WornAt, WornThen DEF Walked, KeyOf, StandardKeys
<1>3. CASE ~tlk[t] /\ Stage(t) = "writer_seq" /\ Stage(t)' = "write"
  BY <1>3, WornAt, WornThen DEF Walked, KeyOf, StandardKeys
<1>4. CASE tlk[t] /\ Stage(t) = "time_mono" /\ Stage(t)' = "transport_seq"
  <2>1. key = "a0_time_mono" /\ tlk'[t]
    BY <1>4 DEF KeyOf, Walked
  <2>2. Worn(t) = {"a0_time_wall", "a0_writer_id", "a0_writer_seq"}
    BY <1>4, WornAt
  <2>3. Worn(t)' = {"a0_time_wall", "a0_writer_id", "a0_writer_seq", "a0_time_mono"}
    BY <1>4, <2>1, WornThen
  <2> QED
    BY <2>1, <2>2, <2>3 DEF StandardKeys
<1>5. CASE tlk[t] /\ Stage(t) = "transport_seq" /\ Stage(t)' = "write"
  <2>1. key = "a0_transport_seq" /\ tlk'[t]
    BY <1>5 DEF KeyOf, Walked
  <2>2. Worn(t) = {"a0_time_wall", "a0_writer_id", "a0_writer_seq", "a0_time_mono"}
    BY <1>5, WornAt
  <2>3. Worn(t)' = StandardKeys
    BY <1>5, <2>1, WornThen
  <2> QED
    BY <2>1, <2>2, <2>3 DEF StandardKeys
<1> QED
  BY <1>1, <1>2, <1>3, <1>4, <1>5 DEF Walked, Follows, FollowsLocked, Wrapped

\* No frame is later than the clock.
LEMMA NoFrameLater ==
  ASSUME now \in Nat, \A k \in 1..Len(log) : Told(k)
  PROVE  NotBefore(now)
<1> SUFFICES ASSUME NEW k \in 1..Len(log), NEW v \in Nat, Once(log[k].pkt.headers, "a0_time_mono", v)
             PROVE  v <= now
  BY DEF NotBefore
<1>1. PICK m \in 0..now : Once(log[k].pkt.headers, "a0_time_mono", m)
  BY DEF Told
<1>2. v = m
  BY <1>1, OnceIsOne
<1> QED
  BY <1>1, <1>2

\* What a new header leaves alone.
LEMMA StillDressed ==
  ASSUME Types, NEW t \in Threads, Dressed(t), NEW key \in StandardKeys, NEW val, Walked(t, key, val),
         key \notin Worn(t), Worn(t)' = Worn(t) \cup {key},
         wseq' = wseq \/ wseq' = [wseq EXCEPT ![WriterOf[t]] = @ + 1]
  PROVE  LET g == pkt'[t].headers
         IN /\ "a0_time_wall" \in Worn(t) => Once(g, "a0_time_wall", 0)
            /\ "a0_writer_id" \in Worn(t) => Once(g, "a0_writer_id", WriterOf[t])
            /\ "a0_writer_seq" \in Worn(t) /\ key # "a0_writer_id"
                 => \E n \in 0..wseq'[WriterOf[t]] - 1 : Numbered(g, WriterOf[t], n)
            /\ "a0_time_mono" \in Worn(t) => \E m \in 0..now' : Once(g, "a0_time_mono", m) /\ NotBefore(m)'
            /\ "a0_transport_seq" \in Worn(t) => Once(g, "a0_transport_seq", Len(log'))
<1>1. PICK h : h = pkt[t].headers
  OBVIOUS
<1>2. PICK g : g = pkt'[t].headers
  OBVIOUS
<1>3. \A k : k # key => \A v : Once(g, k, v) <=> Once(h, k, v)
  BY <1>1, <1>2, DressesOne
<1>4. at[t] # 0 /\ log' = log /\ now' = now
  BY DEF Walked
<1>5. \A n \in 0..wseq[WriterOf[t]] - 1 : n \in 0..wseq'[WriterOf[t]] - 1
  BY DEF Types
<1>6. "a0_time_wall" \in Worn(t) => Once(g, "a0_time_wall", 0)
  BY <1>1, <1>3, <1>4 DEF Dressed
<1>7. "a0_writer_id" \in Worn(t) => Once(g, "a0_writer_id", WriterOf[t])
  BY <1>1, <1>3, <1>4 DEF Dressed
<1>8. ASSUME "a0_writer_seq" \in Worn(t), key # "a0_writer_id"
      PROVE  \E n \in 0..wseq'[WriterOf[t]] - 1 : Numbered(g, WriterOf[t], n)
  <2>1. PICK n \in 0..wseq[WriterOf[t]] - 1 : Numbered(h, WriterOf[t], n)
    BY <1>1, <1>4, <1>8 DEF Dressed
  <2>2. Numbered(g, WriterOf[t], n)
    BY <1>3, <1>8, <2>1 DEF Numbered
  <2> QED
    BY <1>5, <2>2
<1>9. ASSUME "a0_time_mono" \in Worn(t)
      PROVE  \E m \in 0..now' : Once(g, "a0_time_mono", m) /\ NotBefore(m)'
  <2>1. PICK m \in 0..now : Once(h, "a0_time_mono", m) /\ NotBefore(m)
    BY <1>1, <1>4, <1>9 DEF Dressed
  <2>2. NotBefore(m)'
    BY <1>4, <2>1 DEF NotBefore
  <2> QED
    BY <1>3, <1>4, <1>9, <2>1, <2>2
<1>10. "a0_transport_seq" \in Worn(t) => Once(g, "a0_transport_seq", Len(log'))
  BY <1>1, <1>3, <1>4 DEF Dressed
<1> QED
  BY <1>2, <1>6, <1>7, <1>8, <1>9, <1>10

LEMMA DressesDressed ==
  ASSUME Types, NEW t \in Threads, Dressed(t), \A k \in 1..Len(log) : Told(k), Dresses(t)
  PROVE  Dressed(t)'
<1>1. PICK g : g = pkt'[t].headers
  OBVIOUS
<1>2. ASSUME NEW key, NEW val, Walked(t, key, val), key = KeyOf(Stage(t)),
             wseq' = wseq \/ wseq' = [wseq EXCEPT ![WriterOf[t]] = @ + 1],
             key = "a0_time_wall" => val = 0,
             key = "a0_writer_id" => val = WriterOf[t],
             key = "a0_writer_seq" => val \in 0..wseq'[WriterOf[t]] - 1,
             key = "a0_time_mono" => val = now,
             key = "a0_transport_seq" => val = Len(log)
      PROVE  Dressed(t)'
  <2>1. key \in StandardKeys /\ key \notin Worn(t) /\ Worn(t)' = Worn(t) \cup {key}
    BY <1>2, WornMore
  <2>2. /\ IsSeq(g) /\ Once(g, key, val) /\ req'[t] = req[t]
        /\ \A k \in StandardKeys \ Worn(t)' : Absent(g, k)
        /\ req[t].kind = "log" => Leads(g, "a0_log_level", a0_log_level_name(req[t].level))
    BY <1>1, <1>2, <2>1, DressesOne
  <2>3. /\ "a0_time_wall" \in Worn(t) => Once(g, "a0_time_wall", 0)
        /\ "a0_writer_id" \in Worn(t) => Once(g, "a0_writer_id", WriterOf[t])
        /\ "a0_writer_seq" \in Worn(t) /\ key # "a0_writer_id"
             => \E n \in 0..wseq'[WriterOf[t]] - 1 : Numbered(g, WriterOf[t], n)
        /\ "a0_time_mono" \in Worn(t) => \E m \in 0..now' : Once(g, "a0_time_mono", m) /\ NotBefore(m)'
        /\ "a0_transport_seq" \in Worn(t) => Once(g, "a0_transport_seq", Len(log'))
    BY <1>1, <1>2, <2>1, StillDressed
  <2>4. "a0_time_wall" \in Worn(t)' => Once(g, "a0_time_wall", 0)
    BY <1>2, <2>1, <2>2, <2>3
  <2>5. "a0_writer_id" \in Worn(t)' => Once(g, "a0_writer_id", WriterOf[t])
    BY <1>2, <2>1, <2>2, <2>3
  <2>6. "a0_writer_seq" \in Worn(t)' => \E n \in 0..wseq'[WriterOf[t]] - 1 : Numbered(g, WriterOf[t], n)
    <3>1. CASE key = "a0_writer_seq"
      <4>1. "a0_writer_id" \in Worn(t)
        BY <1>2, <3>1, WornAt DEF KeyOf, Walked, StandardKeys
      <4> QED
        BY <1>2, <2>2, <2>3, <3>1, <4>1 DEF Numbered
    <3>2. CASE key # "a0_writer_seq"
      <4>1. key = "a0_writer_id" => "a0_writer_seq" \notin Worn(t)
        BY <1>2, WornAt DEF KeyOf, Walked
      <4> QED
        BY <2>1, <2>3, <3>2, <4>1
    <3> QED
      BY <3>1, <3>2
  <2>7. "a0_time_mono" \in Worn(t)' => \E m \in 0..now' : Once(g, "a0_time_mono", m) /\ NotBefore(m)'
    <3>1. now' = now /\ now \in Nat /\ log' = log
      BY <1>2 DEF Walked, Types
    <3>2. NotBefore(now)'
      BY <3>1, NoFrameLater DEF NotBefore
    <3>3. now \in 0..now'
      BY <3>1
    <3>4. key = "a0_time_mono" => Once(g, "a0_time_mono", now)
      BY <1>2, <2>2
    <3> QED
      BY <2>1, <2>3, <3>1, <3>2, <3>3, <3>4
  <2>8. "a0_transport_seq" \in Worn(t)' => Once(g, "a0_transport_seq", Len(log'))
    <3>1. log' = log
      BY <1>2 DEF Walked
    <3> QED
      BY <1>2, <2>1, <2>2, <2>3, <3>1
  <2> QED
    BY <1>1, <2>2, <2>4, <2>5, <2>6, <2>7, <2>8 DEF Dressed
<1>3. CASE Stage(t) = "time_mono" /\ Walked(t, "a0_time_mono", now) /\ wseq' = wseq
  BY <1>2, <1>3 DEF KeyOf
<1>4. CASE Stage(t) = "time_wall" /\ Walked(t, "a0_time_wall", 0) /\ wseq' = wseq
  BY <1>2, <1>4 DEF KeyOf
<1>5. CASE Stage(t) = "writer_id" /\ Walked(t, "a0_writer_id", WriterOf[t]) /\ wseq' = wseq
  BY <1>2, <1>5 DEF KeyOf
<1>6. CASE /\ Stage(t) = "writer_seq" /\ Walked(t, "a0_writer_seq", wseq[WriterOf[t]])
           /\ wseq' = [wseq EXCEPT ![WriterOf[t]] = @ + 1]
  <2>1. wseq[WriterOf[t]] \in 0..wseq'[WriterOf[t]] - 1
    BY <1>6 DEF Types
  <2> QED
    BY <1>2, <1>6, <2>1 DEF KeyOf
<1>7. CASE Stage(t) = "transport_seq" /\ Walked(t, "a0_transport_seq", Len(log)) /\ wseq' = wseq
  BY <1>2, <1>7 DEF KeyOf
<1> QED
  BY <1>3, <1>4, <1>5, <1>6, <1>7 DEF Dresses

\* The wrapping middleware and the mutex leave the headers alone.
LEMMA KeptDressed ==
  ASSUME NEW t, Dressed(t), at[t] # 0, log' = log, now' = now, wseq' = wseq, req'[t] = req[t],
         pkt'[t].headers = pkt[t].headers, Worn(t)' = Worn(t)
  PROVE  Dressed(t)'
BY DEF Dressed, NotBefore

LEMMA PassedWorn ==
  ASSUME NEW t, Patches(t) \/ Took(t)
  PROVE  /\ Worn(t)' = Worn(t) /\ at[t] # 0 /\ log' = log /\ now' = now /\ wseq' = wseq
         /\ req'[t] = req[t] /\ pkt'[t].headers = pkt[t].headers
<1>1. CASE Took(t)
  <2>1. Stage(t)' \in Wrapped \cup {"time_mono"}
    BY <1>1 DEF Took
  <2> QED
    BY <1>1, <2>1, WornAt, WornThen DEF Took
<1>2. CASE Patches(t)
  <2>1. PICK payload : Passed(t, payload)
    BY <1>2, Zenon DEF Patches
  <2>2. Stage(t) \in Wrapped /\ Stage(t)' = "time_mono" /\ tlk[t] /\ tlk'[t]
    BY <2>1 DEF Passed
  <2>3. Worn(t)' = Worn(t)
    BY <2>2, WornAt, WornThen
  <2> QED
    BY <2>1, <2>3 DEF Passed
<1> QED
  BY <1>1, <1>2

LEMMA DressedStep ==
  ASSUME PlainRequests, Types, NEW t \in Threads, Dressed(t), \A k \in 1..Len(log) : Told(k),
         (\E r : Began(t, r)) \/ Dresses(t) \/ Patches(t) \/ GivesUp(t) \/ Took(t) \/ Commits(t)
  PROVE  Dressed(t)'
<1>1. CASE \E r : Began(t, r)
  BY <1>1, BeganDressed
<1>2. CASE Dresses(t)
  BY <1>2, DressesDressed
<1>3. CASE Patches(t) \/ Took(t)
  BY <1>3, PassedWorn, KeptDressed
<1>4. CASE GivesUp(t) \/ Commits(t)
  BY <1>4 DEF GivesUp, Commits, Left, Dressed
<1> QED
  BY <1>1, <1>2, <1>3, <1>4

-----------------------------------------------------------------------------
(* The frames.                                                             *)

\* A frame goes on telling the truth: the counters and the clock only grow.
LEMMA ToldStays ==
  ASSUME Types, NEW k \in Nat, Told(k), log'[k] = log[k], now' = now \/ now' = now + 1,
         wseq' = wseq \/ \E v \in Threads : wseq' = [wseq EXCEPT ![WriterOf[v]] = @ + 1]
  PROVE  Told(k)'
<1>1. log[k].by \in Threads
  BY DEF Told
<1>2. PICK w : w = WriterOf[log[k].by]
  OBVIOUS
<1>3. w \in {WriterOf[t] : t \in Threads}
  BY <1>1, <1>2
<1>4. wseq[w] \in Nat /\ wseq'[w] \in Nat /\ wseq[w] <= wseq'[w]
  <2>1. CASE wseq' = wseq
    BY <1>3, <2>1 DEF Types
  <2>2. ASSUME NEW v \in Threads, wseq' = [wseq EXCEPT ![WriterOf[v]] = @ + 1]
        PROVE  wseq[w] \in Nat /\ wseq'[w] \in Nat /\ wseq[w] <= wseq'[w]
    BY <1>3, <2>2 DEF Types
  <2> QED
    BY <2>1, <2>2
<1>5. (\A n \in 0..wseq[w] - 1 : n \in 0..wseq'[w] - 1) /\ \A m \in 0..now : m \in 0..now'
  BY <1>4 DEF Types
<1>6. \E n \in 0..wseq'[w] - 1 : Numbered(log'[k].pkt.headers, w, n)
  BY <1>2, <1>5 DEF Told
<1>7. \E m \in 0..now' : Once(log'[k].pkt.headers, "a0_time_mono", m)
  BY <1>5 DEF Told
<1> QED
  BY <1>2, <1>6, <1>7 DEF Told

\* The frame that is committed, from the packet.
LEMMA Committed ==
  ASSUME Types, NEW t \in Threads, Commits(t)
  PROVE  /\ Len(log) \in Nat /\ Len(log') = Len(log) + 1
         /\ \A n \in 1..Len(log) : log'[n] = log[n]
         /\ log'[Len(log) + 1].pkt = pkt[t] /\ log'[Len(log) + 1].req = req[t] /\ log'[Len(log) + 1].by = t
<1>1. PICK e : e = [pkt |-> pkt[t], req |-> req[t], by |-> t]
  OBVIOUS
<1>2. log' = Append(log, e)
  BY <1>1 DEF Commits
<1>3. /\ Len(log) \in Nat /\ Len(log') = Len(log) + 1 /\ log'[Len(log) + 1] = e
      /\ \A n \in 1..Len(log) : log'[n] = log[n]
  BY <1>2, Grown
<1>4. e.pkt = pkt[t] /\ e.req = req[t] /\ e.by = t
  BY <1>1
<1> QED
  BY <1>3, <1>4

LEMMA ToldNew ==
  ASSUME Types, NEW t \in Threads, Control(t), Dressed(t), Commits(t), NEW k, k = Len(log) + 1
  PROVE  /\ Told(k)'
         /\ \E m \in 0..now : Once(pkt[t].headers, "a0_time_mono", m) /\ NotBefore(m)
<1>1. /\ at[t] # 0 /\ tlk[t] /\ Stage(t) = "write" /\ now' = now /\ wseq' = wseq
  BY DEF Commits, Left
<1>2. Worn(t) = StandardKeys
  BY <1>1, WornAt
<1>3. req[t] \in Requests
  BY <1>1 DEF Control
<1>4. PICK h : h = pkt[t].headers
  OBVIOUS
<1>5. /\ IsSeq(h) /\ Once(h, "a0_time_wall", 0)
      /\ \E n \in 0..wseq[WriterOf[t]] - 1 : Numbered(h, WriterOf[t], n)
      /\ \E m \in 0..now : Once(h, "a0_time_mono", m) /\ NotBefore(m)
      /\ Once(h, "a0_transport_seq", Len(log))
      /\ req[t].kind = "log" => Leads(h, "a0_log_level", a0_log_level_name(req[t].level))
  BY <1>1, <1>2, <1>4 DEF Dressed, StandardKeys
<1>6. log'[k].pkt.headers = h /\ log'[k].req = req[t] /\ log'[k].by = t /\ k - 1 = Len(log)
  BY <1>4, Committed
<1>7. Told(k)'
  BY <1>1, <1>3, <1>5, <1>6 DEF Told
<1> QED
  BY <1>4, <1>5, <1>7

\* The order along the log, from the frames that were there.
LEMMA MonotonicNew ==
  ASSUME Types, NEW t \in Threads, Control(t), Dressed(t), Commits(t), Monotonic
  PROVE  Monotonic'
<1>1. /\ Len(log) \in Nat /\ Len(log') = Len(log) + 1
      /\ \A n \in 1..Len(log) : log'[n] = log[n]
      /\ log'[Len(log) + 1].pkt = pkt[t]
  BY Committed
<1>2. PICK m \in 0..now : Once(pkt[t].headers, "a0_time_mono", m) /\ NotBefore(m)
  BY ToldNew
<1> SUFFICES ASSUME NEW k \in 2..Len(log'), NEW a \in Nat, NEW b \in Nat,
                    Once(log'[k - 1].pkt.headers, "a0_time_mono", a), Once(log'[k].pkt.headers, "a0_time_mono", b)
             PROVE  a <= b
  BY DEF Monotonic
<1>3. k - 1 \in 1..Len(log) /\ log'[k - 1] = log[k - 1]
  BY <1>1
<1>4. CASE k = Len(log) + 1
  <2>1. Once(pkt[t].headers, "a0_time_mono", b)
    BY <1>1, <1>4
  <2>2. b = m
    BY <1>2, <2>1, OnceIsOne
  <2> QED
    BY <1>2, <1>3, <2>2 DEF NotBefore
<1>5. CASE k \in 2..Len(log)
  BY <1>1, <1>3, <1>5 DEF Monotonic
<1> QED
  BY <1>1, <1>4, <1>5

-----------------------------------------------------------------------------
(* The numbers.                                                            *)

\* A packet or a frame with a number has it from the counter, so it is not the next one.
LEMMA BelowCounter ==
  ASSUME Types, NEW h, NEW v, NEW n, NEW w,
         \E m \in 0..wseq[v] - 1 : Numbered(h, v, m), Numbered(h, w, n)
  PROVE  w = v /\ n \in 0..wseq[v] - 1
<1>1. PICK m \in 0..wseq[v] - 1 : Numbered(h, v, m)
  OBVIOUS
<1>2. w = v /\ n = m
  BY <1>1, OnceIsOne DEF Numbered
<1> QED
  BY <1>1, <1>2

(* The numbers are untouched when nobody gets one: what has a number had   *)
(* the same before, in a thread's hands or in the log.                     *)
LEMMA UniqueStays ==
  ASSUME Unique, log' = log,
         \A u \in Threads : Wears(u)' =>
            Wears(u) /\ \A n, w : Numbered(pkt'[u].headers, w, n) <=> Numbered(pkt[u].headers, w, n)
  PROVE  Unique'
<1>1. ASSUME NEW u \in Threads, NEW v \in Threads, NEW n, NEW w, Wears(u)', Wears(v)',
             Numbered(pkt'[u].headers, w, n), Numbered(pkt'[v].headers, w, n)
      PROVE  u = v
  <2>1. Wears(u) /\ Wears(v) /\ Numbered(pkt[u].headers, w, n) /\ Numbered(pkt[v].headers, w, n)
    BY <1>1
  <2> QED
    BY <2>1 DEF Unique, UniqueHeld, UniqueYet, UniqueLogged
<1>2. ASSUME NEW u \in Threads, NEW k \in 1..Len(log'), NEW n, NEW w, Wears(u)',
             Numbered(pkt'[u].headers, w, n), Numbered(log'[k].pkt.headers, w, n)
      PROVE  FALSE
  <2>1. Wears(u) /\ Numbered(pkt[u].headers, w, n) /\ Numbered(log[k].pkt.headers, w, n) /\ k \in 1..Len(log)
    BY <1>2
  <2> QED
    BY <2>1 DEF Unique, UniqueHeld, UniqueYet, UniqueLogged
<1>3. ASSUME NEW k \in 1..Len(log'), NEW l \in 1..Len(log'), NEW n, NEW w,
             Numbered(log'[k].pkt.headers, w, n), Numbered(log'[l].pkt.headers, w, n)
      PROVE  k = l
  BY <1>3 DEF Unique, UniqueHeld, UniqueYet, UniqueLogged
<1>4. UniqueHeld'
  BY <1>1 DEF UniqueHeld
<1>5. UniqueYet'
  BY <1>2 DEF UniqueYet
<1>6. UniqueLogged'
  BY <1>3 DEF UniqueLogged
<1> QED
  BY <1>4, <1>5, <1>6 DEF Unique

(* a0_add_writer_seq_header: the number that the counter gives out next is *)
(* on no packet and in no frame.                                           *)
LEMMA UniqueNumber ==
  ASSUME Types, NEW t \in Threads, \A u \in Threads : Dressed(u), \A k \in 1..Len(log) : Told(k), Unique,
         log' = log, NEW s, s = wseq[WriterOf[t]], Numbered(pkt'[t].headers, WriterOf[t], s),
         \A u \in Threads \ {t} : (Wears(u)' <=> Wears(u)) /\ pkt'[u] = pkt[u]
  PROVE  Unique'
<1>1. ASSUME NEW n, NEW w, Numbered(pkt'[t].headers, w, n)
      PROVE  w = WriterOf[t] /\ n = s
  BY <1>1, OnceIsOne DEF Numbered
<1>2. ASSUME NEW u \in Threads \ {t}, NEW n, NEW w, Wears(u)',
             Numbered(pkt'[u].headers, w, n), Numbered(pkt'[t].headers, w, n)
      PROVE  FALSE
  <2>1. Wears(u) /\ pkt'[u] = pkt[u] /\ w = WriterOf[t] /\ n = wseq[WriterOf[t]]
    BY <1>1, <1>2
  <2>2. \E m \in 0..wseq[WriterOf[u]] - 1 : Numbered(pkt[u].headers, WriterOf[u], m)
    BY <2>1 DEF Dressed, Wears
  <2>3. PICK v : v = WriterOf[u]
    OBVIOUS
  <2>4. Numbered(pkt[u].headers, w, n) /\ \E m \in 0..wseq[v] - 1 : Numbered(pkt[u].headers, v, m)
    BY <1>2, <2>1, <2>2, <2>3
  <2>5. w = v /\ n \in 0..wseq[v] - 1
    BY <2>4, BelowCounter
  <2>6. wseq[w] \in Nat
    BY <2>1 DEF Types
  <2> QED
    BY <2>1, <2>5, <2>6
<1>3. ASSUME NEW k \in 1..Len(log), NEW n, NEW w,
             Numbered(log[k].pkt.headers, w, n), Numbered(pkt'[t].headers, w, n)
      PROVE  FALSE
  <2>1. w = WriterOf[t] /\ n = wseq[WriterOf[t]]
    BY <1>1, <1>3
  <2>2. PICK v : v = WriterOf[log[k].by]
    OBVIOUS
  <2>3. \E m \in 0..wseq[v] - 1 : Numbered(log[k].pkt.headers, v, m)
    BY <2>2 DEF Told
  <2>4. w = v /\ n \in 0..wseq[v] - 1
    BY <1>3, <2>3, BelowCounter
  <2>5. wseq[w] \in Nat
    BY <2>1 DEF Types
  <2> QED
    BY <2>1, <2>4, <2>5
<1>4. ASSUME NEW u \in Threads, NEW v \in Threads, NEW n, NEW w, Wears(u)', Wears(v)',
             Numbered(pkt'[u].headers, w, n), Numbered(pkt'[v].headers, w, n)
      PROVE  u = v
  <2>1. CASE u # t /\ v # t
    <3>1. Wears(u) /\ Wears(v) /\ pkt'[u] = pkt[u] /\ pkt'[v] = pkt[v]
      BY <1>4, <2>1
    <3> QED
      BY <1>4, <3>1 DEF Unique, UniqueHeld, UniqueYet, UniqueLogged
  <2>2. CASE u = t \/ v = t
    BY <1>2, <1>4, <2>2
  <2> QED
    BY <2>1, <2>2
<1>5. ASSUME NEW u \in Threads, NEW k \in 1..Len(log'), NEW n, NEW w, Wears(u)',
             Numbered(pkt'[u].headers, w, n), Numbered(log'[k].pkt.headers, w, n)
      PROVE  FALSE
  <2>1. CASE u = t
    BY <1>3, <1>5, <2>1
  <2>2. CASE u # t
    <3>1. Wears(u) /\ pkt'[u] = pkt[u]
      BY <1>5, <2>2
    <3> QED
      BY <1>5, <3>1 DEF Unique, UniqueHeld, UniqueYet, UniqueLogged
  <2> QED
    BY <2>1, <2>2
<1>6. ASSUME NEW k \in 1..Len(log'), NEW l \in 1..Len(log'), NEW n, NEW w,
             Numbered(log'[k].pkt.headers, w, n), Numbered(log'[l].pkt.headers, w, n)
      PROVE  k = l
  BY <1>6 DEF Unique, UniqueHeld, UniqueYet, UniqueLogged
<1>7. UniqueHeld'
  BY <1>4 DEF UniqueHeld
<1>8. UniqueYet'
  BY <1>5 DEF UniqueYet
<1>9. UniqueLogged'
  BY <1>6 DEF UniqueLogged
<1> QED
  BY <1>7, <1>8, <1>9 DEF Unique

(* The commit hands the number from the thread to the frame.               *)
LEMMA UniqueCommit ==
  ASSUME Types, NEW t \in Threads, Commits(t), Unique,
         \A u \in Threads \ {t} : (Wears(u)' <=> Wears(u)) /\ pkt'[u] = pkt[u]
  PROVE  Unique'
<1>1. /\ Len(log) \in Nat /\ Len(log') = Len(log) + 1
      /\ \A n \in 1..Len(log) : log'[n] = log[n]
      /\ log'[Len(log) + 1].pkt = pkt[t]
  BY Committed
<1>2. ~Wears(t)' /\ Wears(t)
  <2>1. at'[t] = 0 /\ at[t] # 0 /\ tlk[t] /\ Stage(t) = "write"
    BY DEF Commits, Left
  <2> QED
    BY <2>1, WornAt DEF Wears, StandardKeys
<1>3. \A k \in 1..Len(log') : k = Len(log) + 1 \/ k \in 1..Len(log)
  BY <1>1
<1>4. ASSUME NEW u \in Threads, NEW v \in Threads, NEW n, NEW w, Wears(u)', Wears(v)',
             Numbered(pkt'[u].headers, w, n), Numbered(pkt'[v].headers, w, n)
      PROVE  u = v
  <2>1. Wears(u) /\ Wears(v) /\ pkt'[u] = pkt[u] /\ pkt'[v] = pkt[v]
    BY <1>2, <1>4
  <2> QED
    BY <1>4, <2>1 DEF Unique, UniqueHeld, UniqueYet, UniqueLogged
<1>5. ASSUME NEW u \in Threads, NEW k \in 1..Len(log'), NEW n, NEW w, Wears(u)',
             Numbered(pkt'[u].headers, w, n), Numbered(log'[k].pkt.headers, w, n)
      PROVE  FALSE
  <2>1. Wears(u) /\ pkt'[u] = pkt[u] /\ u # t
    BY <1>2, <1>5
  <2>2. CASE k = Len(log) + 1
    <3>1. Numbered(pkt[t].headers, w, n)
      BY <1>1, <1>5, <2>2
    <3> QED
      BY <1>2, <1>5, <2>1, <3>1 DEF Unique, UniqueHeld, UniqueYet, UniqueLogged
  <2>3. CASE k \in 1..Len(log)
    <3>1. Numbered(log[k].pkt.headers, w, n)
      BY <1>1, <1>5, <2>3
    <3> QED
      BY <1>5, <2>1, <2>3, <3>1 DEF Unique, UniqueHeld, UniqueYet, UniqueLogged
  <2> QED
    BY <1>3, <2>2, <2>3
<1>6. ASSUME NEW k \in 1..Len(log), NEW n, NEW w,
             Numbered(log[k].pkt.headers, w, n), Numbered(pkt[t].headers, w, n)
      PROVE  FALSE
  BY <1>2, <1>6 DEF Unique, UniqueHeld, UniqueYet, UniqueLogged
<1>7. ASSUME NEW k \in 1..Len(log'), NEW l \in 1..Len(log'), NEW n, NEW w,
             Numbered(log'[k].pkt.headers, w, n), Numbered(log'[l].pkt.headers, w, n)
      PROVE  k = l
  <2>1. CASE k \in 1..Len(log) /\ l \in 1..Len(log)
    <3>1. Numbered(log[k].pkt.headers, w, n) /\ Numbered(log[l].pkt.headers, w, n)
      BY <1>1, <1>7, <2>1
    <3> QED
      BY <2>1, <3>1 DEF Unique, UniqueHeld, UniqueYet, UniqueLogged
  <2>2. CASE k = Len(log) + 1 /\ l \in 1..Len(log)
    <3>1. Numbered(pkt[t].headers, w, n) /\ Numbered(log[l].pkt.headers, w, n)
      BY <1>1, <1>7, <2>2
    <3> QED
      BY <1>6, <2>2, <3>1
  <2>3. CASE l = Len(log) + 1 /\ k \in 1..Len(log)
    <3>1. Numbered(pkt[t].headers, w, n) /\ Numbered(log[k].pkt.headers, w, n)
      BY <1>1, <1>7, <2>3
    <3> QED
      BY <1>6, <2>3, <3>1
  <2>4. CASE k = Len(log) + 1 /\ l = Len(log) + 1
    BY <2>4
  <2> QED
    BY <1>3, <2>1, <2>2, <2>3, <2>4
<1>8. UniqueHeld'
  BY <1>4 DEF UniqueHeld
<1>9. UniqueYet'
  BY <1>5 DEF UniqueYet
<1>10. UniqueLogged'
  BY <1>7 DEF UniqueLogged
<1> QED
  BY <1>8, <1>9, <1>10 DEF Unique

\* A thread that takes no step keeps its number.
LEMMA OthersWear ==
  ASSUME NEW t, Quiet(t), NEW u \in Threads \ {t}
  PROVE  (Wears(u)' <=> Wears(u)) /\ pkt'[u] = pkt[u]
<1>1. Same(u)
  BY DEF Quiet
<1>2. Stage(u)' = Stage(u) /\ Worn(u)' = Worn(u)
  BY <1>1, SameStage DEF Worn, Same
<1> QED
  BY <1>1, <1>2 DEF Wears, Same

\* A header other than the number's.
LEMMA UniqueOther ==
  ASSUME Types, NEW t \in Threads, Dressed(t), Unique, NEW key, NEW val, Walked(t, key, val),
         key = KeyOf(Stage(t)), key # "a0_writer_seq"
  PROVE  Unique'
<1>1. key \in StandardKeys /\ key \notin Worn(t) /\ Worn(t)' = Worn(t) \cup {key}
  BY WornMore
<1>2. \A k : k # key => \A v : Once(pkt'[t].headers, k, v) <=> Once(pkt[t].headers, k, v)
  BY <1>1, DressesOne
<1>3. log' = log /\ at[t] # 0 /\ Quiet(t)
  BY DEF Walked
<1>4. ASSUME Wears(t)'
      PROVE  Wears(t) /\ \A n, w : Numbered(pkt'[t].headers, w, n) <=> Numbered(pkt[t].headers, w, n)
  <2>1. Wears(t)
    BY <1>1, <1>3, <1>4 DEF Wears
  <2>2. key # "a0_writer_id"
    BY <2>1, WornAt DEF Wears, KeyOf, Walked
  <2> QED
    BY <1>2, <2>1, <2>2 DEF Numbered
<1>5. \A u \in Threads : Wears(u)' =>
        Wears(u) /\ \A n, w : Numbered(pkt'[u].headers, w, n) <=> Numbered(pkt[u].headers, w, n)
  BY <1>3, <1>4, OthersWear
<1> QED
  BY <1>3, <1>5, UniqueStays

LEMMA UniqueStep ==
  ASSUME PlainRequests, Types, NEW t \in Threads, \A u \in Threads : Dressed(u), \A k \in 1..Len(log) : Told(k),
         Unique,
         (\E r : Began(t, r)) \/ Dresses(t) \/ Patches(t) \/ GivesUp(t) \/ Took(t) \/ Commits(t)
  PROVE  Unique'
<1>1. Quiet(t)
  BY DEF Began, Dresses, Walked, Patches, Passed, GivesUp, Left, Took, Commits
<1>2. \A u \in Threads \ {t} : (Wears(u)' <=> Wears(u)) /\ pkt'[u] = pkt[u]
  BY <1>1, OthersWear
<1>3. ASSUME ~Wears(t)', log' = log PROVE Unique'
  <2>1. \A u \in Threads : Wears(u)' =>
          Wears(u) /\ \A n, w : Numbered(pkt'[u].headers, w, n) <=> Numbered(pkt[u].headers, w, n)
    BY <1>2, <1>3
  <2> QED
    BY <1>3, <2>1, UniqueStays
<1>4. CASE \E r : Began(t, r)
  <2>1. PICK r : Began(t, r)
    BY <1>4
  <2>2. Worn(t)' = {} /\ log' = log
    BY <2>1, BeganDressed DEF Began
  <2> QED
    BY <1>3, <2>2 DEF Wears
<1>5. CASE /\ Stage(t) = "writer_seq" /\ Walked(t, "a0_writer_seq", wseq[WriterOf[t]])
           /\ wseq' = [wseq EXCEPT ![WriterOf[t]] = @ + 1]
  <2>1. PICK s : s = wseq[WriterOf[t]]
    OBVIOUS
  <2>2. PICK key : key = "a0_writer_seq"
    OBVIOUS
  <2>3. Walked(t, key, s) /\ key = KeyOf(Stage(t)) /\ ~tlk[t] /\ log' = log /\ at[t] # 0
    BY <1>5, <2>1, <2>2 DEF KeyOf, Walked
  <2>4. key \in StandardKeys /\ key \notin Worn(t) /\ Worn(t)' = Worn(t) \cup {key}
    BY <2>3, WornMore
  <2>5. /\ Once(pkt'[t].headers, key, s)
        /\ \A k : k # key => \A v : Once(pkt'[t].headers, k, v) <=> Once(pkt[t].headers, k, v)
    BY <2>3, <2>4, DressesOne
  <2>6. "a0_writer_id" \in Worn(t)
    BY <1>5, <2>3, WornAt
  <2>7. Once(pkt[t].headers, "a0_writer_id", WriterOf[t])
    BY <2>3, <2>6 DEF Dressed
  <2>8. Numbered(pkt'[t].headers, WriterOf[t], s)
    BY <2>2, <2>5, <2>7 DEF Numbered
  <2> QED
    BY <1>2, <2>1, <2>3, <2>8, UniqueNumber
<1>6. CASE Stage(t) = "time_mono" /\ Walked(t, "a0_time_mono", now) /\ wseq' = wseq
  BY <1>6, UniqueOther DEF KeyOf
<1>7. CASE Stage(t) = "time_wall" /\ Walked(t, "a0_time_wall", 0) /\ wseq' = wseq
  BY <1>7, UniqueOther DEF KeyOf
<1>8. CASE Stage(t) = "writer_id" /\ Walked(t, "a0_writer_id", WriterOf[t]) /\ wseq' = wseq
  BY <1>8, UniqueOther DEF KeyOf
<1>9. CASE Stage(t) = "transport_seq" /\ Walked(t, "a0_transport_seq", Len(log)) /\ wseq' = wseq
  BY <1>9, UniqueOther DEF KeyOf
<1>10. CASE Patches(t) \/ Took(t)
  <2>1. Worn(t)' = Worn(t) /\ at[t] # 0 /\ log' = log /\ pkt'[t].headers = pkt[t].headers
    BY <1>10, PassedWorn
  <2>2. \A u \in Threads : Wears(u)' =>
          Wears(u) /\ \A n, w : Numbered(pkt'[u].headers, w, n) <=> Numbered(pkt[u].headers, w, n)
    BY <1>2, <2>1 DEF Wears
  <2> QED
    BY <2>1, <2>2, UniqueStays
<1>11. CASE GivesUp(t)
  BY <1>3, <1>11 DEF GivesUp, Left, Wears
<1>12. CASE Commits(t)
  BY <1>2, <1>12, UniqueCommit
<1> QED
  BY <1>4, <1>5, <1>6, <1>7, <1>8, <1>9, <1>10, <1>11, <1>12 DEF Dresses

-----------------------------------------------------------------------------
(* The second invariant is kept.                                           *)

LEMMA HThread ==
  ASSUME PlainRequests, WInv, HInv, NEW t \in Threads, a0_writer_write(t) \/ Step(t)
  PROVE  HInv'
<1>1. Types /\ Exclusion /\ Control(t) /\ Effect(t)
  BY DEF WInv
<1>2. (\E r : Began(t, r)) \/ Dresses(t) \/ Patches(t) \/ GivesUp(t) \/ Took(t) \/ Commits(t)
  BY <1>1, BeganSo, StepSo
<1>3. /\ Quiet(t) /\ (log' = log \/ (tlk[t] /\ Commits(t))) /\ now' = now
      /\ wseq' = wseq \/ wseq' = [wseq EXCEPT ![WriterOf[t]] = @ + 1]
  BY <1>2 DEF Began, Dresses, Walked, Patches, Passed, GivesUp, Left, Took, Commits
<1>4. (\A u \in Threads : Dressed(u)) /\ (\A k \in 1..Len(log) : Told(k)) /\ Unique /\ Monotonic
  BY DEF HInv
<1>5. ASSUME NEW u \in Threads PROVE Dressed(u)'
  <2>1. CASE u = t
    BY <1>1, <1>2, <1>4, <2>1, DressedStep
  <2>2. CASE u # t
    <3>1. log' = log \/ ~tlk[u]
      BY <1>1, <1>3, <2>2 DEF Exclusion
    <3> QED
      BY <1>1, <1>3, <1>4, <2>2, <3>1, OthersDressed
  <2> QED
    BY <2>1, <2>2
<1>6. Unique'
  BY <1>1, <1>2, <1>4, UniqueStep
<1>7. ASSUME NEW k \in 1..Len(log), log'[k] = log[k] PROVE Told(k)'
  BY <1>1, <1>3, <1>4, <1>7, ToldStays
<1>8. CASE log' = log
  <2>1. \A k \in 1..Len(log') : Told(k)'
    BY <1>7, <1>8
  <2>2. Monotonic'
    BY <1>4, <1>8 DEF Monotonic
  <2> QED
    BY <1>5, <1>6, <2>1, <2>2 DEF HInv
<1>9. CASE Commits(t)
  <2>1. /\ Len(log) \in Nat /\ Len(log') = Len(log) + 1
        /\ \A n \in 1..Len(log) : log'[n] = log[n]
    BY <1>1, <1>9, Committed
  <2>2. ASSUME NEW k \in 1..Len(log') PROVE Told(k)'
    <3>1. CASE k \in 1..Len(log)
      BY <1>7, <2>1, <3>1
    <3>2. CASE k = Len(log) + 1
      BY <1>1, <1>4, <1>9, <3>2, ToldNew
    <3> QED
      BY <2>1, <3>1, <3>2
  <2>3. Monotonic'
    BY <1>1, <1>4, <1>9, MonotonicNew
  <2> QED
    BY <1>5, <1>6, <2>2, <2>3 DEF HInv
<1> QED
  BY <1>3, <1>8, <1>9

LEMMA HInit == Init => HInv
<1> SUFFICES ASSUME Init PROVE HInv
  OBVIOUS
<1>1. log = <<>> /\ Len(log) = 0 /\ \A t \in Threads : at[t] = 0
  BY DEF Init
<1>2. \A t \in Threads : Dressed(t) /\ ~Wears(t)
  BY <1>1 DEF Dressed, Wears
<1>3. \A k : k \notin 1..Len(log) /\ k \notin 2..Len(log)
  BY <1>1
<1>4. Unique
  BY <1>2, <1>3 DEF Unique, UniqueHeld, UniqueYet, UniqueLogged
<1>5. Monotonic
  BY <1>3 DEF Monotonic
<1> QED
  BY <1>2, <1>3, <1>4, <1>5 DEF HInv

\* The clock goes on, and nothing else changes.
LEMMA HTick ==
  ASSUME WInv, HInv, now' = now \/ now' = now + 1,
         UNCHANGED <<log, owner, wseq, req, pkt, at, tlk, written>>
  PROVE  HInv'
<1>1. \A t : Stage(t)' = Stage(t)
  BY DEF Stage, Here
<1>2. \A t : Worn(t)' = Worn(t)
  BY <1>1 DEF Worn
<1>3. now \in Nat /\ now' \in Nat /\ \A m \in 0..now : m \in 0..now'
  BY DEF WInv, Types
<1>4. \A t : Wears(t)' <=> Wears(t)
  BY <1>2 DEF Wears
<1>5. ASSUME NEW t \in Threads PROVE Dressed(t)'
  <2>1. Dressed(t)
    BY DEF HInv
  <2>2. \A m : NotBefore(m)' <=> NotBefore(m)
    BY DEF NotBefore
  <2> QED
    BY <1>2, <1>3, <2>1, <2>2 DEF Dressed
<1>6. ASSUME NEW k \in 1..Len(log') PROVE Told(k)'
  <2>1. Told(k) /\ Types
    BY DEF HInv, WInv
  <2> QED
    BY <2>1, ToldStays
<1>7. Unique'
  <2>1. Unique
    BY DEF HInv
  <2> QED
    BY <1>4, <2>1, UniqueStays
<1>8. Monotonic'
  BY DEF HInv, Monotonic
<1> QED
  BY <1>5, <1>6, <1>7, <1>8 DEF HInv

LEMMA HStep ==
  ASSUME PlainRequests, WInv, HInv, [Next \/ Done]_vars
  PROVE  HInv'
<1>1. CASE Tick
  BY <1>1, HTick DEF Tick
<1>2. CASE Done \/ UNCHANGED vars
  BY <1>2, HTick DEF Done, vars
<1>3. CASE \E t \in Threads : a0_writer_write(t) \/ Step(t)
  BY <1>3, HThread
<1> QED
  BY <1>1, <1>2, <1>3 DEF Next

-----------------------------------------------------------------------------
(* The theorem about headers.                                              *)

\* What an iterator over one header finds.
LEMMA OnceFound ==
  ASSUME NEW p, NEW key, NEW v, Len(p.headers) \in Nat, Once(p.headers, key, v)
  PROVE  Cardinality(DOMAIN Values(p, key)) = 1 /\ FirstValue(p, key) = v
<1>1. PICK h : h = p.headers
  OBVIOUS
<1>2. PICK i \in 1..Len(h) : h[i].key = key /\ h[i].val = v /\ \A j \in 1..Len(h) : h[j].key = key => j = i
  BY <1>1 DEF Once
<1>3. PICK f : f = Values(p, key)
  OBVIOUS
<1>4. f = [j \in {l \in 1..Len(h) : h[l].key = key} |-> h[j].val]
  BY <1>1, <1>3 DEF Values
<1>5. DOMAIN f = {i} /\ f[i] = v /\ i \in Int
  BY <1>1, <1>2, <1>4
<1>6. Min({i}) = i
  BY <1>5 DEF Min
<1>7. FirstValue(p, key) = v
  BY <1>3, <1>5, <1>6 DEF FirstValue
<1>8. Cardinality({i}) = 1
  BY FS_Singleton
<1> QED
  BY <1>3, <1>5, <1>7, <1>8

LEMMA LeadsFound ==
  ASSUME NEW p, NEW key, NEW v, Len(p.headers) \in Nat, Leads(p.headers, key, v)
  PROVE  DOMAIN Values(p, key) # {} /\ FirstValue(p, key) = v
<1>1. PICK h : h = p.headers
  OBVIOUS
<1>2. PICK i \in 1..Len(h) : h[i].key = key /\ h[i].val = v /\ \A j \in 1..i - 1 : h[j].key # key
  BY <1>1 DEF Leads
<1>3. PICK f : f = Values(p, key)
  OBVIOUS
<1>4. f = [j \in {l \in 1..Len(h) : h[l].key = key} |-> h[j].val]
  BY <1>1, <1>3 DEF Values
<1>5. PICK D : D = DOMAIN f
  OBVIOUS
<1>6. i \in D /\ f[i] = v /\ D \subseteq Int /\ \A j \in D : i <= j
  BY <1>1, <1>2, <1>4, <1>5
<1>7. \A j \in D : (\A y \in D : j <= y) => j = i
  BY <1>6
<1>8. Min(D) = i
  BY <1>6, <1>7 DEF Min
<1> QED
  BY <1>3, <1>5, <1>6, <1>8 DEF FirstValue

\* The levels of log.h survive their names.
LEMMA LevelNamed ==
  ASSUME NEW l \in 0..5
  PROVE  a0_log_level_from_name(a0_log_level_name(l)) = l
<1>1. PICK N : N = LevelNames
  OBVIOUS
<1>2. N[1] = "CRIT" /\ N[2] = "ERR" /\ N[3] = "WARN" /\ N[4] = "INFO" /\ N[5] = "DBG"
  BY <1>1 DEF LevelNames
<1>3. N[0 + 1] = "CRIT" /\ N[1 + 1] = "ERR" /\ N[2 + 1] = "WARN" /\ N[3 + 1] = "INFO" /\ N[4 + 1] = "DBG"
  BY <1>2
<1>4. \A m \in 0..4 : m = 0 \/ m = 1 \/ m = 2 \/ m = 3 \/ m = 4
  OBVIOUS
<1>5. ASSUME l \in 0..4 PROVE \A m \in 0..4 : N[m + 1] = N[l + 1] => m = l
  BY <1>3, <1>4, <1>5
<1>6. CASE l \in 0..4
  <2>1. PICK name : name = N[l + 1]
    OBVIOUS
  <2>2. a0_log_level_name(l) = name
    BY <1>1, <1>6, <2>1 DEF a0_log_level_name
  <2>3. \A m \in 0..4 : N[m + 1] = name => m = l
    BY <1>5, <1>6, <2>1
  <2>4. (CHOOSE m \in 0..4 : N[m + 1] = name) = l
    BY <1>6, <2>1, <2>3
  <2>5. a0_log_level_from_name(name) = l
    BY <1>1, <1>6, <2>1, <2>4 DEF a0_log_level_from_name
  <2> QED
    BY <2>2, <2>5
<1>7. CASE l = 5
  <2>1. a0_log_level_name(l) = "UNKNOWN"
    BY <1>7 DEF a0_log_level_name
  <2>2. \A m \in 0..4 : N[m + 1] # "UNKNOWN"
    BY <1>3, <1>4
  <2>3. a0_log_level_from_name("UNKNOWN") = 5
    BY <1>1, <2>2 DEF a0_log_level_from_name, UNKNOWN
  <2> QED
    BY <1>7, <2>1, <2>3
<1> QED
  BY <1>6, <1>7

LEMMA HTell ==
  ASSUME PlainRequests, HInv
  PROVE  HeadersTell
<1> SUFFICES ASSUME NEW n \in 1..Len(log), NEW p, p = log[n].pkt
             PROVE  /\ \A key \in StandardKeys : Cardinality(DOMAIN Values(p, key)) = 1
                    /\ FirstValue(p, "a0_transport_seq") = n - 1
                    /\ \A k \in 1..n - 1 :
                         <<FirstValue(log[k].pkt, "a0_writer_id"), FirstValue(log[k].pkt, "a0_writer_seq")>>
                           # <<FirstValue(p, "a0_writer_id"), FirstValue(p, "a0_writer_seq")>>
                    /\ n > 1 => FirstValue(log[n - 1].pkt, "a0_time_mono") <= FirstValue(p, "a0_time_mono")
                    /\ log[n].req.kind = "log" =>
                         \A level \in 0..4 : a0_log_listener_callback(p, level) <=> log[n].req.level <= level
  BY DEF HeadersTell
<1>1. (\A k \in 1..Len(log) : Told(k)) /\ UniqueLogged /\ Monotonic
  BY DEF HInv, Unique
<1>2. ASSUME NEW k \in 1..Len(log)
      PROVE  /\ Len(log[k].pkt.headers) \in Nat
             /\ \A key \in StandardKeys : Cardinality(DOMAIN Values(log[k].pkt, key)) = 1
             /\ Once(log[k].pkt.headers, "a0_transport_seq", k - 1)
             /\ \E i, s : /\ Numbered(log[k].pkt.headers, i, s)
                          /\ FirstValue(log[k].pkt, "a0_writer_id") = i
                          /\ FirstValue(log[k].pkt, "a0_writer_seq") = s
             /\ \E m \in Nat : /\ Once(log[k].pkt.headers, "a0_time_mono", m)
                               /\ FirstValue(log[k].pkt, "a0_time_mono") = m
  <2>1. Told(k)
    BY <1>1
  <2>2. PICK q : q = log[k].pkt
    OBVIOUS
  <2>3. PICK i, s : Numbered(q.headers, i, s)
    BY <2>1, <2>2 DEF Told
  <2>4. PICK m \in Nat : Once(q.headers, "a0_time_mono", m)
    BY <2>1, <2>2 DEF Told
  <2>5. Once(q.headers, "a0_time_wall", 0) /\ Once(q.headers, "a0_transport_seq", k - 1)
    BY <2>1, <2>2 DEF Told
  <2>6. Once(q.headers, "a0_writer_id", i) /\ Once(q.headers, "a0_writer_seq", s)
    BY <2>3 DEF Numbered
  <2>7. Len(q.headers) \in Nat
    BY <2>1, <2>2 DEF Told, IsSeq
  <2>8. \A key \in StandardKeys : Cardinality(DOMAIN Values(q, key)) = 1
    BY <2>4, <2>5, <2>6, <2>7, OnceFound DEF StandardKeys
  <2>9. /\ FirstValue(q, "a0_writer_id") = i /\ FirstValue(q, "a0_writer_seq") = s
        /\ FirstValue(q, "a0_time_mono") = m
    BY <2>4, <2>6, <2>7, OnceFound
  <2> QED
    BY <2>2, <2>3, <2>4, <2>5, <2>7, <2>8, <2>9
<1>3. \A key \in StandardKeys : Cardinality(DOMAIN Values(p, key)) = 1
  BY <1>2
<1>4. FirstValue(p, "a0_transport_seq") = n - 1
  BY <1>2, OnceFound
<1>5. ASSUME NEW k \in 1..n - 1
      PROVE  <<FirstValue(log[k].pkt, "a0_writer_id"), FirstValue(log[k].pkt, "a0_writer_seq")>>
               # <<FirstValue(p, "a0_writer_id"), FirstValue(p, "a0_writer_seq")>>
  <2>1. PICK i, s : /\ Numbered(p.headers, i, s)
                    /\ FirstValue(p, "a0_writer_id") = i /\ FirstValue(p, "a0_writer_seq") = s
    BY <1>2
  <2>2. k \in 1..Len(log) /\ k # n
    OBVIOUS
  <2>3. PICK j, r : /\ Numbered(log[k].pkt.headers, j, r)
                    /\ FirstValue(log[k].pkt, "a0_writer_id") = j /\ FirstValue(log[k].pkt, "a0_writer_seq") = r
    BY <1>2, <2>2
  <2>4. ~(i = j /\ s = r)
    BY <1>1, <2>1, <2>2, <2>3 DEF UniqueLogged
  <2> QED
    BY <2>1, <2>3, <2>4
<1>6. n > 1 => FirstValue(log[n - 1].pkt, "a0_time_mono") <= FirstValue(p, "a0_time_mono")
  <2> SUFFICES ASSUME n > 1
               PROVE  FirstValue(log[n - 1].pkt, "a0_time_mono") <= FirstValue(p, "a0_time_mono")
    OBVIOUS
  <2>1. n - 1 \in 1..Len(log) /\ n \in 2..Len(log)
    OBVIOUS
  <2>2. PICK a \in Nat : /\ Once(log[n - 1].pkt.headers, "a0_time_mono", a)
                         /\ FirstValue(log[n - 1].pkt, "a0_time_mono") = a
    BY <1>2, <2>1
  <2>3. PICK b \in Nat : Once(log[n].pkt.headers, "a0_time_mono", b) /\ FirstValue(p, "a0_time_mono") = b
    BY <1>2
  <2> QED
    BY <1>1, <2>1, <2>2, <2>3 DEF Monotonic
<1>7. ASSUME log[n].req.kind = "log", NEW level \in 0..4
      PROVE  a0_log_listener_callback(p, level) <=> log[n].req.level <= level
  <2>1. log[n].req \in Requests /\ Leads(p.headers, "a0_log_level", a0_log_level_name(log[n].req.level))
    BY <1>1, <1>7 DEF Told
  <2>2. PICK l \in 0..5 : l = log[n].req.level
    BY <2>1 DEF PlainRequests
  <2>3. Len(p.headers) \in Nat
    BY <1>2
  <2>4. DOMAIN Values(p, "a0_log_level") # {} /\ FirstValue(p, "a0_log_level") = a0_log_level_name(l)
    BY <2>1, <2>2, <2>3, LeadsFound
  <2>5. a0_log_level_from_name(FirstValue(p, "a0_log_level")) = l
    BY <2>4, LevelNamed
  <2> QED
    BY <2>2, <2>4, <2>5 DEF a0_log_listener_callback
<1> QED
  BY <1>3, <1>4, <1>5, <1>6, <1>7

(* The headers of a frame tell the truth (a0_add_standard_headers,         *)
(* a0_logger_log, a0_log_listener_callback), however writers and threads   *)
(* share the transport: each is there once, the writer's number is on one  *)
(* frame, the transport's is that of the frame before, the clock does not  *)
(* go back, and a listener hears its levels.  PlainRequests: the callers   *)
(* leave the standard headers to the library.                              *)
THEOREM HeadersTrue ==
  ASSUME PlainRequests
  PROVE  Spec => []HeadersTell
<1>1. HInv => HeadersTell
  BY HTell
<1>2. WInv /\ HInv /\ [Next \/ Done]_vars => HInv'
  BY HStep
<1>3. Init => HInv
  BY HInit
<1> QED
  BY <1>1, <1>2, <1>3, WriterInvariant, PTL DEF Spec
=============================================================================
