------------------------------ MODULE RpcProofs ------------------------------
(***************************************************************************)
(* Proofs about the callbacks of rpc.c and prpc.c, for any number of       *)
(* clients, requests, answers, cancellations and evicted packets.          *)
(*                                                                         *)
(* What a callback was given says nothing about what it may still be       *)
(* given.  The invariant adds it: a callback is in the map, or in the      *)
(* hands of the reader's thread, only while nothing that ends its request  *)
(* was handed to it; a cancelled request is in no map any more, unless the *)
(* cancel came before it was put there; and a cancellation is on the topic *)
(* only after it went through the map.                                     *)
(***************************************************************************)
EXTENDS Rpc, SequenceTheorems, TLAPS

Types   == {"request", "connect", "response", "progress", "complete", "cancel"}
Packets == [type : Types, id : Ids]
Cbs     == {"callback", "empty"}
Maps    == UNION {[D -> Cbs] : D \in SUBSET Ids}
AnswerTypes == {"response", "progress", "complete"}

TypeOK ==
  /\ proto \in {"rpc", "prpc"}
  /\ log \in Seq(Packets) /\ low \in Nat \ {0}
  /\ spos \in Nat /\ accepted \subseteq Ids
  /\ cpos \in [Clients -> Nat] /\ bpos \in [Ids -> Nat]
  /\ cur \in [Clients -> Packets \cup {Never}]
  /\ popped \in [Clients -> Cbs \cup {"none"}]
  /\ outstanding \in [Clients -> Maps]
  /\ op \in [Ids -> {"new", "put", "sent", "b_open", "b_put", "b_wait", "returned"}]
  /\ cop \in [Ids -> {"new", "forgotten", "returned"}]
  /\ calls \in [Ids -> Seq(Packets)] /\ early \subseteq Ids

\* The packets that end a request: any response, the last packet of a connection.
Ends(p) == proto = "rpc" \/ p.type = "complete"
Over(i) == \E k \in 1..Len(calls[i]) : Ends(calls[i][k])

\* Which call a request was made with, by where its sender is.
Made ==
  \A i \in Ids : /\ op[i] \in {"b_open", "b_put", "b_wait", "returned"} => MadeBlocking(i)
                 /\ op[i] \in {"put", "sent"} => ~MadeBlocking(i)

(* A request is in the map of its own client only, from its own Put to its *)
(* Forget; what was forgotten before its Put stays.                        *)
Mapped ==
  \A c \in Clients : \A i \in DOMAIN outstanding[c] :
    /\ ClientOf[i] = c
    /\ op[i] \notin {"new", "b_open"}
    /\ cop[i] = "new" \/ i \in early
    /\ outstanding[c][i] = "callback" => ~MadeBlocking(i) /\ ~Over(i)

\* A request that is not in the map yet was cancelled early or not at all.
Cancelled ==
  \A i \in Ids : cop[i] # "new" => op[i] \notin {"new", "b_open"} \/ i \in early

Sane(p, cops) == /\ p.type = "cancel" => cops[p.id] # "new"
                 /\ p.type = "request" => proto = "rpc"
Told == /\ \A n \in 1..Len(log) : Sane(log[n], cop)
        /\ \A c \in Clients : cur[c] # Never => Sane(cur[c], cop)

\* What a callback may be given: an answer, or, in prpc, an early cancellation.
MayReport(p) == p.type \in AnswerTypes \/ (p.type = "cancel" /\ proto = "prpc" /\ p.id \in early)

\* A callback in the hands of the reader's thread.
InHand ==
  \A c \in Clients : cur[c] # Never /\ popped[c] # "none" =>
    /\ ClientOf[cur[c].id] = c
    /\ MayReport(cur[c])
    /\ op[cur[c].id] \notin {"new", "b_open"}
    /\ popped[c] = "callback" =>
         /\ ~MadeBlocking(cur[c].id) /\ ~Over(cur[c].id)
         /\ Ends(cur[c]) => cur[c].id \notin DOMAIN outstanding[c]

\* What was handed out.
Given ==
  \A i \in Ids :
    /\ \A k \in 1..Len(calls[i]) : calls[i][k].id = i /\ MayReport(calls[i][k])
    /\ \A k \in 1..Len(calls[i]) - 1 : ~Ends(calls[i][k])
    /\ op[i] \in {"new", "b_open"} => calls[i] = <<>>
    /\ MadeBlocking(i) /\ op[i] # "returned" => calls[i] = <<>>

RInv == TypeOK /\ Made /\ Mapped /\ Cancelled /\ Told /\ InHand /\ Given

-----------------------------------------------------------------------------
(* The map and the topic. *)

(* What a map is. *)
LEMMA MapFacts ==
  /\ \A f \in Maps : DOMAIN f \subseteq Ids /\ \A i \in DOMAIN f : f[i] \in Cbs
  /\ \A D \in SUBSET Ids : [D -> Cbs] \subseteq Maps
  BY DEF Maps

(* a0_map_put. *)
LEMMA MapPutFacts ==
  ASSUME TypeOK, NEW i \in Ids, NEW cb \in Cbs, MapPut(i, cb)
  PROVE  /\ outstanding' \in [Clients -> Maps]
         /\ \A c \in Clients : c # ClientOf[i] => outstanding'[c] = outstanding[c]
         /\ DOMAIN outstanding'[ClientOf[i]] = DOMAIN outstanding[ClientOf[i]] \cup {i}
         /\ outstanding'[ClientOf[i]][i] = cb
         /\ \A j \in DOMAIN outstanding[ClientOf[i]] :
              j # i => outstanding'[ClientOf[i]][j] = outstanding[ClientOf[i]][j]
PROOF
<1> DEFINE c == ClientOf[i]
           f == outstanding[c]
           g == [j \in DOMAIN f \cup {i} |-> IF j = i THEN cb ELSE f[j]]
<1>1. c \in Clients /\ outstanding \in [Clients -> Maps] /\ f \in Maps
  BY ConstantsAssumption DEF TypeOK
<1>2. outstanding' = [outstanding EXCEPT ![c] = g]
  BY DEF MapPut
<1>3. DOMAIN f \cup {i} \in SUBSET Ids /\ g \in [DOMAIN f \cup {i} -> Cbs]
  BY <1>1, MapFacts
<1>4. g \in Maps
  BY <1>3, MapFacts
<1>5. DOMAIN g = DOMAIN f \cup {i} /\ g[i] = cb /\ \A j \in DOMAIN f : j # i => g[j] = f[j]
  OBVIOUS
<1> HIDE DEF g, c
<1>6. outstanding' \in [Clients -> Maps] /\ outstanding'[c] = g
      /\ \A d \in Clients : d # c => outstanding'[d] = outstanding[d]
  BY <1>1, <1>2, <1>4
<1> QED BY <1>5, <1>6 DEF c

(* a0_map_del. *)
LEMMA MapDelFacts ==
  ASSUME TypeOK, NEW c \in Clients, NEW i, MapDel(c, i)
  PROVE  /\ outstanding' \in [Clients -> Maps]
         /\ \A d \in Clients : d # c => outstanding'[d] = outstanding[d]
         /\ DOMAIN outstanding'[c] = DOMAIN outstanding[c] \ {i}
         /\ \A j \in DOMAIN outstanding'[c] : outstanding'[c][j] = outstanding[c][j]
PROOF
<1> DEFINE f == outstanding[c]
           g == [j \in DOMAIN f \ {i} |-> f[j]]
<1>1. outstanding \in [Clients -> Maps] /\ f \in Maps
  BY DEF TypeOK
<1>2. outstanding' = [outstanding EXCEPT ![c] = g]
  BY DEF MapDel
<1>3. DOMAIN f \ {i} \in SUBSET Ids /\ g \in [DOMAIN f \ {i} -> Cbs]
  BY <1>1, MapFacts
<1>4. g \in Maps
  BY <1>3, MapFacts
<1>5. DOMAIN g = DOMAIN f \ {i} /\ \A j \in DOMAIN g : g[j] = f[j]
  OBVIOUS
<1> HIDE DEF g
<1>6. outstanding' \in [Clients -> Maps] /\ outstanding'[c] = g
      /\ \A d \in Clients : d # c => outstanding'[d] = outstanding[d]
  BY <1>1, <1>2, <1>4
<1> QED BY <1>5, <1>6

(* What a0_writer_write adds. *)
LEMMA Written ==
  ASSUME TypeOK, NEW p \in Packets, a0_writer_write(p)
  PROVE  /\ log' \in Seq(Packets) /\ low' = low /\ Len(log') = Len(log) + 1
         /\ \A n \in 1..Len(log) : log'[n] = log[n]
         /\ log'[Len(log) + 1] = p
  BY DEF TypeOK, a0_writer_write

(* The frame a reader is given next is on the topic. *)
LEMMA NextIsThere ==
  ASSUME TypeOK, NEW p \in Nat, HasNext(p)
  PROVE  NextFrame(p) \in 1..Len(log) /\ log[NextFrame(p)] \in Packets
PROOF
<1>1. log \in Seq(Packets) /\ low \in Nat \ {0} /\ Len(log) \in Nat
  BY DEF TypeOK
<1>2. NextFrame(p) \in 1..Len(log)
  BY <1>1 DEF HasNext, NextFrame
<1> QED BY <1>1, <1>2

(* What was handed to one callback, after one more packet. *)
LEMMA Handed ==
  ASSUME TypeOK, NEW i \in Ids, NEW p \in Packets, calls' = [calls EXCEPT ![i] = Append(@, p)]
  PROVE  /\ calls' \in [Ids -> Seq(Packets)]
         /\ \A j \in Ids : j # i => calls'[j] = calls[j]
         /\ Len(calls[i]) \in Nat /\ Len(calls'[i]) = Len(calls[i]) + 1
         /\ \A k \in 1..Len(calls[i]) : calls'[i][k] = calls[i][k]
         /\ calls'[i][Len(calls[i]) + 1] = p
PROOF
<1>1. calls[i] \in Seq(Packets) /\ calls \in [Ids -> Seq(Packets)]
  BY DEF TypeOK
<1>2. calls'[i] = Append(calls[i], p)
  BY <1>1
<1> QED BY <1>1, <1>2

-----------------------------------------------------------------------------
(* The steps. *)

(* Evictions, the server's own bookkeeping, and a client's opening and the *)
(* end of its reader change nothing that the invariant speaks of.          *)
LEMMA QuietStep ==
  ASSUME RInv,
         \/ Evict \/ ServerNext
         \/ \E c \in Clients : OpenClient(c) \/ CloseReader(c)
  PROVE  RInv'
PROOF
<1> USE DEF topic, serverv, clientv
<1>1. TypeOK /\ log \in Seq(Packets) /\ Len(log) \in Nat
  BY DEF RInv, TypeOK
<1>2. UNCHANGED <<proto, log, cur, popped, outstanding, op, cop, bpos, calls, early>>
  BY DEF Evict, ServerNext, a0_rpc_server_init, a0_rpc_server_close, a0_rpc_server_onpacket,
         a0_prpc_server_init, a0_prpc_server_close, a0_prpc_server_onpacket,
         OpenServer, CloseServer, ServerOnPacket, OpenClient, CloseReader
<1>3. low' \in Nat \ {0} /\ cpos' \in [Clients -> Nat]
  BY <1>1 DEF TypeOK, Evict, ServerNext, a0_rpc_server_init, a0_rpc_server_close,
         a0_rpc_server_onpacket, a0_prpc_server_init, a0_prpc_server_close, a0_prpc_server_onpacket,
         OpenServer, CloseServer, ServerOnPacket, OpenClient, CloseReader
<1>4. spos' \in Nat /\ accepted' \subseteq Ids
  <2>1. CASE \E type : ServerOnPacket(type)
    <3>1. PICK type : ServerOnPacket(type)
      BY <2>1
    <3>2. spos \in Nat /\ accepted \subseteq Ids /\ HasNext(spos)
      BY <1>1, <3>1 DEF TypeOK, ServerOnPacket
    <3>3. NextFrame(spos) \in Nat /\ log[NextFrame(spos)].id \in Ids
      BY <1>1, <3>2, NextIsThere DEF Packets
    <3> QED BY <3>1, <3>2, <3>3 DEF ServerOnPacket
  <2>2. CASE ~\E type : ServerOnPacket(type)
    BY <1>1, <2>2 DEF TypeOK, Evict, ServerNext, a0_rpc_server_init, a0_rpc_server_close,
         a0_rpc_server_onpacket, a0_prpc_server_init, a0_prpc_server_close,
         a0_prpc_server_onpacket, OpenServer, CloseServer, OpenClient, CloseReader
  <2> QED BY <2>1, <2>2
<1>5. TypeOK'
  BY <1>1, <1>2, <1>3, <1>4 DEF TypeOK
<1> QED BY <1>2, <1>5 DEF RInv, Made, Mapped, Cancelled, Told, Sane, InHand, Given, Ends, Over, MayReport,
                          MadeBlocking

(* One more packet on the topic, by the server or by a sender. *)
LEMMA WriteStep ==
  ASSUME RInv, NEW i \in Ids,
         a0_rpc_server_reply(i) \/ a0_prpc_server_send(i) \/ Send(i) \/ BlockingSend(i) \/ Tell(i)
  PROVE  RInv'
PROOF
<1> USE DEF topic, serverv, clientv
<1>1. TypeOK /\ Made /\ Mapped /\ Cancelled /\ Told /\ InHand /\ Given
  BY DEF RInv
<1>2. UNCHANGED <<proto, serverv, clientv, bpos, calls, early>>
  BY DEF a0_rpc_server_reply, a0_prpc_server_send, Send, BlockingSend, Tell
<1>3. /\ op' \in [Ids -> {"new", "put", "sent", "b_open", "b_put", "b_wait", "returned"}]
      /\ cop' \in [Ids -> {"new", "forgotten", "returned"}]
      /\ \A j \in Ids : \/ op'[j] = op[j]
                        \/ op[j] = "put" /\ op'[j] = "sent"
                        \/ op[j] = "b_put" /\ op'[j] = "b_wait"
      /\ \A j \in Ids : cop'[j] = cop[j] \/ (cop[j] = "forgotten" /\ cop'[j] = "returned")
  BY <1>1 DEF TypeOK, a0_rpc_server_reply, a0_prpc_server_send, Send, BlockingSend, Tell
<1>4. \E p \in Packets : /\ a0_writer_write(p)
                         /\ p.type = "cancel" => cop'[p.id] = "returned"
                         /\ p.type = "request" => proto = "rpc"
  <2>1. CASE a0_rpc_server_reply(i)
    BY <2>1 DEF a0_rpc_server_reply, Packet, Packets, Types
  <2>2. CASE a0_prpc_server_send(i)
    BY <2>2 DEF a0_prpc_server_send, Packet, Packets, Types
  <2>3. CASE Send(i)
    <3>1. Packet(RequestType, i) \in Packets
      BY DEF Packet, Packets, RequestType, Types
    <3> QED BY <2>3, <3>1 DEF Send, Packet, RequestType
  <2>4. CASE BlockingSend(i)
    <3>1. proto = "rpc"
      BY <1>1, <2>4 DEF BlockingSend, Made, MadeBlocking
    <3> QED BY <2>4, <3>1 DEF BlockingSend, Packet, Packets, Types
  <2>5. CASE Tell(i)
    <3>1. cop'[i] = "returned"
      BY <1>1, <2>5 DEF Tell, TypeOK
    <3> QED BY <2>5, <3>1 DEF Tell, Packet, Packets, Types
  <2> QED BY <2>1, <2>2, <2>3, <2>4, <2>5
<1>5. PICK p \in Packets : /\ a0_writer_write(p)
                           /\ p.type = "cancel" => cop'[p.id] = "returned"
                           /\ p.type = "request" => proto = "rpc"
  BY <1>4
<1>6. /\ log' \in Seq(Packets) /\ low' = low /\ Len(log') = Len(log) + 1
      /\ \A n \in 1..Len(log) : log'[n] = log[n]
      /\ log'[Len(log) + 1] = p /\ Len(log) \in Nat
  BY <1>1, <1>5, Written DEF TypeOK
<1>7. TypeOK'
  BY <1>1, <1>2, <1>3, <1>6 DEF TypeOK
<1>8. Made' /\ Cancelled'
  BY <1>1, <1>2, <1>3 DEF Made, Cancelled, MadeBlocking
<1>9. Mapped'
  <2> SUFFICES ASSUME NEW c \in Clients, NEW j \in DOMAIN outstanding[c]
               PROVE  /\ ClientOf[j] = c /\ op'[j] \notin {"new", "b_open"} /\ (cop'[j] = "new" \/ j \in early')
                      /\ outstanding[c][j] = "callback" => ~MadeBlocking(j)' /\ ~Over(j)'
    BY <1>2 DEF Mapped
  <2>1. j \in Ids
    BY <1>1, MapFacts DEF TypeOK
  <2> QED BY <1>1, <1>2, <1>3, <2>1 DEF Mapped, MadeBlocking, Over, Ends
<1>10. Told'
  <2>1. \A q \in Packets : Sane(q, cop) => Sane(q, cop')
    BY <1>3 DEF Sane, Packets
  <2>2. \A c \in Clients : cur[c] # Never => Sane(cur[c], cop')
    BY <1>1, <2>1 DEF Told, TypeOK
  <2>3. Sane(p, cop')
    BY <1>5 DEF Sane
  <2>4. \A n \in 1..Len(log) : log[n] \in Packets /\ Sane(log[n], cop')
    BY <1>1, <2>1 DEF Told, TypeOK
  <2>5. \A n \in 1..Len(log') : Sane(log'[n], cop')
    BY <1>6, <2>3, <2>4
  <2> QED BY <1>2, <2>2, <2>5 DEF Told, Sane
<1>11. InHand'
  <2>1. \A c \in Clients : cur[c] # Never => cur[c].id \in Ids
    BY <1>1 DEF TypeOK, Packets
  <2> QED BY <1>1, <1>2, <1>3, <2>1 DEF InHand, MadeBlocking, MayReport, Over, Ends
<1>12. Given'
  BY <1>1, <1>2, <1>3 DEF Given, Ends, MadeBlocking, MayReport
<1> QED BY <1>7, <1>8, <1>9, <1>10, <1>11, <1>12 DEF RInv

(* A request enters the map before it is on the topic. *)
LEMMA PutStep ==
  ASSUME RInv, NEW i \in Ids, Put(i) \/ BlockingPut(i)
  PROVE  RInv'
PROOF
<1> USE DEF topic, serverv, clientv
<1>1. TypeOK /\ Made /\ Mapped /\ Cancelled /\ Told /\ InHand /\ Given
  BY DEF RInv
<1>2. UNCHANGED <<proto, topic, serverv, client, cpos, cur, popped, cop, bpos, calls, early>>
  BY DEF Put, BlockingPut
<1>3. \E cb \in Cbs : /\ MapPut(i, cb)
                      /\ cb = "callback" => ~MadeBlocking(i)
  BY DEF Put, BlockingPut, Cbs
<1>4. PICK cb \in Cbs : MapPut(i, cb) /\ (cb = "callback" => ~MadeBlocking(i))
  BY <1>3
<1>5. /\ outstanding' \in [Clients -> Maps]
      /\ \A c \in Clients : c # ClientOf[i] => outstanding'[c] = outstanding[c]
      /\ DOMAIN outstanding'[ClientOf[i]] = DOMAIN outstanding[ClientOf[i]] \cup {i}
      /\ outstanding'[ClientOf[i]][i] = cb
      /\ \A j \in DOMAIN outstanding[ClientOf[i]] :
           j # i => outstanding'[ClientOf[i]][j] = outstanding[ClientOf[i]][j]
  BY <1>1, <1>4, MapPutFacts
<1>6. /\ op[i] \in {"new", "b_open"}
      /\ op' \in [Ids -> {"new", "put", "sent", "b_open", "b_put", "b_wait", "returned"}]
      /\ \A j \in Ids : j # i => op'[j] = op[j]
      /\ \/ op'[i] = "put" /\ ~MadeBlocking(i)
         \/ op'[i] = "b_put" /\ op[i] = "b_open"
  BY <1>1 DEF TypeOK, Put, BlockingPut
<1>7. /\ cop[i] = "new" \/ i \in early
      /\ calls[i] = <<>> /\ ~Over(i)
      /\ \A c \in Clients : i \notin DOMAIN outstanding[c]
  <2>1. (cop[i] = "new" \/ i \in early) /\ calls[i] = <<>>
    BY <1>1, <1>6 DEF Cancelled, Given
  <2>2. ~Over(i)
    BY <2>1 DEF Over
  <2> QED BY <1>1, <1>6, <2>1, <2>2 DEF Mapped
<1>8. TypeOK'
  BY <1>1, <1>2, <1>5, <1>6 DEF TypeOK
<1>9. Made' /\ Cancelled' /\ Told'
  BY <1>1, <1>2, <1>6, <1>7 DEF Made, Cancelled, MadeBlocking, Told, Sane
<1>10. Mapped'
  <2> SUFFICES ASSUME NEW c \in Clients, NEW j \in DOMAIN outstanding'[c]
               PROVE  /\ ClientOf[j] = c /\ op'[j] \notin {"new", "b_open"} /\ (cop'[j] = "new" \/ j \in early')
                      /\ outstanding'[c][j] = "callback" => ~MadeBlocking(j)' /\ ~Over(j)'
    BY DEF Mapped
  <2>1. (MadeBlocking(j)' <=> MadeBlocking(j)) /\ (Over(j)' <=> Over(j))
    BY <1>2 DEF MadeBlocking, Over, Ends
  <2>2. CASE j = i
    <3>1. c = ClientOf[i]
      BY <1>5, <1>7, <2>2
    <3> QED BY <1>2, <1>4, <1>5, <1>6, <1>7, <2>1, <2>2, <3>1
  <2>3. CASE j # i
    <3>1. j \in DOMAIN outstanding[c] /\ outstanding'[c][j] = outstanding[c][j] /\ j \in Ids
      <4>1. j \in DOMAIN outstanding[c] /\ outstanding'[c][j] = outstanding[c][j]
        BY <1>5, <2>3
      <4>2. outstanding[c] \in Maps
        BY <1>1 DEF TypeOK
      <4> QED BY <4>1, <4>2, MapFacts
    <3> QED BY <1>1, <1>2, <1>6, <2>1, <2>3, <3>1 DEF Mapped
  <2> QED BY <2>2, <2>3
<1>11. InHand'
  <2> SUFFICES ASSUME NEW c \in Clients, cur[c] # Never, popped[c] # "none"
               PROVE  /\ ClientOf[cur[c].id] = c /\ MayReport(cur[c])'
                      /\ op'[cur[c].id] \notin {"new", "b_open"}
                      /\ popped[c] = "callback" =>
                           /\ ~MadeBlocking(cur[c].id)' /\ ~Over(cur[c].id)'
                           /\ Ends(cur[c])' => cur[c].id \notin DOMAIN outstanding'[c]
    BY <1>2 DEF InHand
  <2> DEFINE j == cur[c].id
  <2>1. j \in Ids /\ j # i /\ op'[j] = op[j]
    BY <1>1, <1>6 DEF TypeOK, Packets, InHand
  <2>2. (MadeBlocking(j)' <=> MadeBlocking(j)) /\ (Over(j)' <=> Over(j)) /\ (Ends(cur[c])' <=> Ends(cur[c]))
    BY <1>2 DEF MadeBlocking, Over, Ends
  <2>3. j \in DOMAIN outstanding'[c] => j \in DOMAIN outstanding[c]
    BY <1>5, <2>1
  <2> QED BY <1>1, <1>2, <2>1, <2>2, <2>3 DEF InHand, MayReport
<1>12. Given'
  BY <1>1, <1>2, <1>6, <1>7 DEF Given, Ends, MadeBlocking, MayReport
<1> QED BY <1>8, <1>9, <1>10, <1>11, <1>12 DEF RInv

(* A cancellation takes the request out of the map first; a client that is *)
(* closed drops its map.                                                   *)
LEMMA ForgetStep ==
  ASSUME RInv, (\E i \in Ids : Forget(i)) \/ (\E c \in Clients : CloseMap(c))
  PROVE  RInv'
PROOF
<1> USE DEF topic, serverv, clientv
<1>1. TypeOK /\ Made /\ Mapped /\ Cancelled /\ Told /\ InHand /\ Given
  BY DEF RInv
<1>2. /\ UNCHANGED <<proto, topic, serverv, cpos, cur, popped, op, bpos, calls>>
      /\ early' \subseteq Ids /\ early \subseteq early'
  BY <1>1 DEF Forget, MapDelForCancel, CloseMap, TypeOK
<1>3. /\ outstanding' \in [Clients -> Maps]
      /\ \A c \in Clients : \A j \in DOMAIN outstanding'[c] :
           /\ j \in DOMAIN outstanding[c] /\ outstanding'[c][j] = outstanding[c][j]
           /\ cop'[j] = cop[j]
      /\ cop' \in [Ids -> {"new", "forgotten", "returned"}]
      /\ \A j \in Ids : \/ cop'[j] = cop[j]
                        \/ cop'[j] # "new" /\ (op[j] \notin {"new", "b_open"} \/ j \in early')
  <2>1. ASSUME NEW i \in Ids, Forget(i)
        PROVE  <1>3!1 /\ <1>3!2 /\ <1>3!3 /\ <1>3!4
    <3>1. ClientOf[i] \in Clients /\ cop \in [Ids -> {"new", "forgotten", "returned"}]
      BY <1>1, ConstantsAssumption DEF TypeOK
    <3>2. /\ cop' = [cop EXCEPT ![i] = "forgotten"] /\ MapDel(ClientOf[i], i)
          /\ early' = IF op[i] \in {"new", "b_open"} THEN early \cup {i} ELSE early
      BY <1>1, <2>1 DEF TypeOK, Forget, MapDelForCancel, NotYetPut
    <3>3. /\ outstanding' \in [Clients -> Maps]
          /\ \A d \in Clients : d # ClientOf[i] => outstanding'[d] = outstanding[d]
          /\ DOMAIN outstanding'[ClientOf[i]] = DOMAIN outstanding[ClientOf[i]] \ {i}
          /\ \A j \in DOMAIN outstanding'[ClientOf[i]] :
               outstanding'[ClientOf[i]][j] = outstanding[ClientOf[i]][j]
      BY <1>1, <3>1, <3>2, MapDelFacts
    <3>4. ASSUME NEW c \in Clients, NEW j \in DOMAIN outstanding'[c]
          PROVE  /\ j \in DOMAIN outstanding[c] /\ outstanding'[c][j] = outstanding[c][j]
                 /\ cop'[j] = cop[j]
      <4>1. j \in DOMAIN outstanding[c] /\ outstanding'[c][j] = outstanding[c][j]
        BY <3>3
      <4>2. j # i
        BY <1>1, <3>3, <4>1 DEF Mapped
      <4>3. outstanding[c] \in Maps
        BY <1>1 DEF TypeOK
      <4>4. j \in Ids
        BY <4>1, <4>3, MapFacts
      <4> QED BY <3>1, <3>2, <4>1, <4>2, <4>4
    <3> QED BY <3>1, <3>2, <3>3, <3>4
  <2>2. ASSUME NEW c \in Clients, CloseMap(c)
        PROVE  <1>3!1 /\ <1>3!2 /\ <1>3!3 /\ <1>3!4
    <3> DEFINE e == [i \in {} |-> "callback"]
    <3>1. DOMAIN e = {} /\ e \in [{} -> Cbs]
      OBVIOUS
    <3>2. e \in Maps
      BY <3>1, MapFacts
    <3>3. outstanding' = [outstanding EXCEPT ![c] = e] /\ cop' = cop
      BY <2>2 DEF CloseMap
    <3> HIDE DEF e
    <3> QED BY <1>1, <3>1, <3>2, <3>3 DEF TypeOK
  <2> QED BY <2>1, <2>2
<1>4. TypeOK'
  BY <1>1, <1>2, <1>3 DEF TypeOK
<1>5. Made' /\ Cancelled' /\ Given'
  BY <1>1, <1>2, <1>3 DEF Made, Cancelled, MadeBlocking, MayReport, Given, Ends
<1>6. Told'
  <2>1. \A q \in Packets : Sane(q, cop) => Sane(q, cop')
    BY <1>3 DEF Sane, Packets
  <2>2. /\ \A c \in Clients : cur[c] # Never => Sane(cur[c], cop')
        /\ \A n \in 1..Len(log) : Sane(log[n], cop')
    BY <1>1, <2>1 DEF Told, TypeOK
  <2> QED BY <1>2, <2>2 DEF Told, Sane
<1>7. Mapped'
  <2> SUFFICES ASSUME NEW c \in Clients, NEW j \in DOMAIN outstanding'[c]
               PROVE  /\ ClientOf[j] = c /\ op'[j] \notin {"new", "b_open"} /\ (cop'[j] = "new" \/ j \in early')
                      /\ outstanding'[c][j] = "callback" => ~MadeBlocking(j)' /\ ~Over(j)'
    BY DEF Mapped
  <2>1. (MadeBlocking(j)' <=> MadeBlocking(j)) /\ (Over(j)' <=> Over(j))
    BY <1>2 DEF MadeBlocking, Over, Ends
  <2> QED BY <1>1, <1>2, <1>3, <2>1 DEF Mapped
<1>8. InHand'
  <2> SUFFICES ASSUME NEW c \in Clients, cur[c] # Never, popped[c] # "none"
               PROVE  /\ ClientOf[cur[c].id] = c /\ MayReport(cur[c])'
                      /\ op'[cur[c].id] \notin {"new", "b_open"}
                      /\ popped[c] = "callback" =>
                           /\ ~MadeBlocking(cur[c].id)' /\ ~Over(cur[c].id)'
                           /\ Ends(cur[c])' => cur[c].id \notin DOMAIN outstanding'[c]
    BY <1>2 DEF InHand
  <2>1. /\ MadeBlocking(cur[c].id)' <=> MadeBlocking(cur[c].id)
        /\ Over(cur[c].id)' <=> Over(cur[c].id)
        /\ Ends(cur[c])' <=> Ends(cur[c])
    BY <1>2 DEF MadeBlocking, Over, Ends
  <2> QED BY <1>1, <1>2, <1>3, <2>1 DEF InHand, MayReport
<1> QED BY <1>4, <1>5, <1>6, <1>7, <1>8 DEF RInv

(* The blocking call opens its reader, and gives up at its deadline. *)
LEMMA BlockingStep ==
  ASSUME RInv, NEW i \in Ids, a0_rpc_client_send_blocking_timeout(i) \/ BlockingTimeout(i)
  PROVE  RInv'
PROOF
<1> USE DEF topic, serverv, clientv
<1>1. TypeOK /\ Made /\ Mapped /\ Cancelled /\ Told /\ InHand /\ Given
  BY DEF RInv
<1>2. UNCHANGED <<proto, topic, serverv, clientv, cop, calls, early>>
  BY DEF a0_rpc_client_send_blocking_timeout, BlockingTimeout
<1>3. /\ op' \in [Ids -> {"new", "put", "sent", "b_open", "b_put", "b_wait", "returned"}]
      /\ bpos' \in [Ids -> Nat]
      /\ \A j \in Ids : \/ op'[j] = op[j]
                        \/ op[j] = "new" /\ op'[j] = "b_open" /\ MadeBlocking(j)
                        \/ op[j] = "b_wait" /\ op'[j] = "returned"
  <2>1. Len(log) \in Nat /\ op \in [Ids -> {"new", "put", "sent", "b_open", "b_put", "b_wait", "returned"}]
    BY <1>1 DEF TypeOK
  <2>2. CASE a0_rpc_client_send_blocking_timeout(i)
    <3>1. /\ MadeBlocking(i) /\ op[i] = "new"
          /\ bpos' = [bpos EXCEPT ![i] = Len(log)] /\ op' = [op EXCEPT ![i] = "b_open"]
      BY <2>2 DEF a0_rpc_client_send_blocking_timeout
    <3>2. op'[i] = "b_open" /\ \A j \in Ids : j # i => op'[j] = op[j]
      BY <2>1, <3>1
    <3>3. \A j \in Ids : op'[j] = op[j] \/ (op[j] = "new" /\ op'[j] = "b_open" /\ MadeBlocking(j))
      BY <3>1, <3>2, Zenon
    <3> QED BY <1>1, <2>1, <3>1, <3>3 DEF TypeOK
  <2>3. CASE BlockingTimeout(i)
    BY <1>1, <2>1, <2>3 DEF TypeOK, BlockingTimeout
  <2> QED BY <2>2, <2>3
<1>4. TypeOK'
  BY <1>1, <1>2, <1>3 DEF TypeOK
<1>5. Made' /\ Cancelled' /\ Told'
  BY <1>1, <1>2, <1>3 DEF Made, Cancelled, MadeBlocking, Told, Sane
<1>6. Mapped'
  <2> SUFFICES ASSUME NEW c \in Clients, NEW j \in DOMAIN outstanding[c]
               PROVE  /\ ClientOf[j] = c /\ op'[j] \notin {"new", "b_open"} /\ (cop'[j] = "new" \/ j \in early')
                      /\ outstanding[c][j] = "callback" => ~MadeBlocking(j)' /\ ~Over(j)'
    BY <1>2 DEF Mapped
  <2>1. j \in Ids
    BY <1>1, MapFacts DEF TypeOK
  <2> QED BY <1>1, <1>2, <1>3, <2>1 DEF Mapped, MadeBlocking, Over, Ends
<1>7. InHand'
  <2>1. \A c \in Clients : cur[c] # Never => cur[c].id \in Ids
    BY <1>1 DEF TypeOK, Packets
  <2> QED BY <1>1, <1>2, <1>3, <2>1 DEF InHand, MadeBlocking, MayReport, Over, Ends
<1>8. Given'
  <2> SUFFICES ASSUME NEW j \in Ids
               PROVE  /\ \A k \in 1..Len(calls[j]) : calls[j][k].id = j /\ MayReport(calls[j][k])'
                      /\ \A k \in 1..Len(calls[j]) - 1 : ~Ends(calls[j][k])'
                      /\ op'[j] \in {"new", "b_open"} => calls[j] = <<>>
                      /\ MadeBlocking(j) /\ op'[j] # "returned" => calls[j] = <<>>
    BY <1>2 DEF Given, MadeBlocking
  <2>1. \A k \in 1..Len(calls[j]) : calls[j][k].id = j /\ MayReport(calls[j][k])'
    BY <1>1, <1>2 DEF Given, MayReport
  <2>2. \A k \in 1..Len(calls[j]) - 1 : ~Ends(calls[j][k])'
    BY <1>1, <1>2 DEF Given, Ends
  <2>3. /\ op'[j] \in {"new", "b_open"} => calls[j] = <<>>
        /\ MadeBlocking(j) /\ op'[j] # "returned" => calls[j] = <<>>
    BY <1>1, <1>3 DEF Given
  <2> QED BY <2>1, <2>2, <2>3
<1> QED BY <1>4, <1>5, <1>6, <1>7, <1>8 DEF RInv

(* The reader's thread takes a packet, or drops one nobody waits for. *)
LEMMA TakeStep ==
  ASSUME RInv, NEW c \in Clients, Take(c) \/ Ignore(c)
  PROVE  RInv'
PROOF
<1> USE DEF topic, serverv
<1>1. TypeOK /\ Made /\ Mapped /\ Cancelled /\ Told /\ InHand /\ Given
  BY DEF RInv
<1>2. UNCHANGED <<proto, topic, serverv, client, outstanding, op, cop, bpos, calls, early>>
  BY DEF Take, Ignore
<1>3. /\ cpos' \in [Clients -> Nat] /\ cur' \in [Clients -> Packets \cup {Never}]
      /\ popped' \in [Clients -> Cbs \cup {"none"}]
      /\ cur'[c] = Never \/ (popped'[c] = "none" /\ Sane(cur'[c], cop))
      /\ \A d \in Clients : d # c => cur'[d] = cur[d] /\ popped'[d] = popped[d]
  <2>1. cpos[c] \in Nat
    BY <1>1 DEF TypeOK
  <2>2. CASE Take(c)
    <3>1. NextFrame(cpos[c]) \in 1..Len(log) /\ log[NextFrame(cpos[c])] \in Packets
      BY <1>1, <2>1, <2>2, NextIsThere DEF Take
    <3>2. Sane(log[NextFrame(cpos[c])], cop)
      BY <1>1, <3>1 DEF Told
    <3> QED BY <1>1, <2>2, <3>1, <3>2 DEF Take, TypeOK
  <2>3. CASE Ignore(c)
    BY <1>1, <2>3 DEF Ignore, TypeOK
  <2> QED BY <2>2, <2>3
<1>4. TypeOK'
  BY <1>1, <1>2, <1>3 DEF TypeOK
<1>5. Made' /\ Cancelled' /\ Given' /\ Mapped'
  BY <1>1, <1>2 DEF Made, Cancelled, MadeBlocking, MayReport, Given, Ends, Mapped, Over
<1>6. Told'
  <2>1. \A d \in Clients : cur'[d] # Never => Sane(cur'[d], cop)
    BY <1>1, <1>3 DEF Told
  <2> QED BY <1>1, <1>2, <2>1 DEF Told, Sane
<1>7. InHand'
  <2> SUFFICES ASSUME NEW d \in Clients, cur'[d] # Never, popped'[d] # "none"
               PROVE  /\ ClientOf[cur'[d].id] = d /\ MayReport(cur[d])'
                      /\ op'[cur'[d].id] \notin {"new", "b_open"}
                      /\ popped'[d] = "callback" =>
                           /\ ~MadeBlocking(cur[d].id)' /\ ~Over(cur[d].id)'
                           /\ Ends(cur[d])' => cur'[d].id \notin DOMAIN outstanding'[d]
    BY DEF InHand
  <2>1. d # c /\ cur'[d] = cur[d] /\ popped'[d] = popped[d]
    BY <1>3
  <2> QED BY <1>1, <1>2, <2>1 DEF InHand, MadeBlocking, MayReport, Over, Ends
<1> QED BY <1>4, <1>5, <1>6, <1>7 DEF RInv

(* The reader's thread takes the callback that the packet is for. *)
LEMMA HoldStep ==
  ASSUME RInv, NEW c \in Clients, a0_rpc_client_onpacket(c) \/ a0_prpc_client_onpacket(c)
  PROVE  RInv'
PROOF
<1> USE DEF topic, serverv
<1>1. TypeOK /\ Made /\ Mapped /\ Cancelled /\ Told /\ InHand /\ Given
  BY DEF RInv
<1>2. CASE Ignore(c)
  BY <1>2, TakeStep
<1>3. CASE ~Ignore(c)
  <2> DEFINE p == cur[c]
  <2>1. /\ p # Never /\ popped[c] = "none" /\ Found(c) /\ Hold(c)
        /\ UNCHANGED <<proto, topic, serverv, client, cpos, cur, op, cop, bpos, calls, early>>
        /\ \/ proto = "rpc" /\ p.type = "response" /\ MapDel(c, p.id)
           \/ /\ proto = "prpc" /\ p.type # "connect"
              /\ \/ p.type = "complete" /\ MapDel(c, p.id)
                 \/ p.type # "complete" /\ UNCHANGED outstanding
    BY <1>3 DEF a0_rpc_client_onpacket, a0_prpc_client_onpacket
  <2>2. /\ p \in Packets /\ p.id \in Ids /\ p.type \in Types
        /\ outstanding \in [Clients -> Maps] /\ outstanding[c] \in Maps
        /\ p.id \in DOMAIN outstanding[c] /\ outstanding[c][p.id] \in Cbs
    BY <1>1, <2>1, MapFacts DEF TypeOK, Packets, Found
  <2>3. /\ ClientOf[p.id] = c /\ op[p.id] \notin {"new", "b_open"} /\ (cop[p.id] = "new" \/ p.id \in early)
        /\ outstanding[c][p.id] = "callback" => ~MadeBlocking(p.id) /\ ~Over(p.id)
    BY <1>1, <2>2 DEF Mapped
  <2>4. MayReport(p)
    BY <1>1, <2>1, <2>2, <2>3 DEF Told, Sane, Types, AnswerTypes, MayReport
  <2>5. /\ outstanding' \in [Clients -> Maps]
        /\ \A d \in Clients : d # c => outstanding'[d] = outstanding[d]
        /\ DOMAIN outstanding'[c] \subseteq DOMAIN outstanding[c]
        /\ \A j \in DOMAIN outstanding'[c] : outstanding'[c][j] = outstanding[c][j]
        /\ Ends(p) => p.id \notin DOMAIN outstanding'[c]
    <3>1. CASE MapDel(c, p.id)
      BY <1>1, <3>1, MapDelFacts
    <3>2. CASE ~MapDel(c, p.id)
      BY <2>1, <2>2, <3>2 DEF Ends
    <3> QED BY <3>1, <3>2
  <2>6. /\ popped' \in [Clients -> Cbs \cup {"none"}] /\ popped'[c] = outstanding[c][p.id]
        /\ \A d \in Clients : d # c => popped'[d] = popped[d]
    BY <1>1, <2>1, <2>2 DEF Hold, TypeOK
  <2>7. TypeOK'
    BY <1>1, <2>1, <2>5, <2>6 DEF TypeOK
  <2>8. Made' /\ Cancelled' /\ Told' /\ Given'
    BY <1>1, <2>1 DEF Made, Cancelled, MadeBlocking, MayReport, Told, Sane, Given, Ends
  <2>9. \A j : (MadeBlocking(j)' <=> MadeBlocking(j)) /\ (Over(j)' <=> Over(j))
    BY <2>1 DEF MadeBlocking, Over, Ends
  <2>10. Mapped'
    <3> SUFFICES ASSUME NEW d \in Clients, NEW j \in DOMAIN outstanding'[d]
                 PROVE  /\ ClientOf[j] = d /\ op'[j] \notin {"new", "b_open"} /\ (cop'[j] = "new" \/ j \in early')
                        /\ outstanding'[d][j] = "callback" => ~MadeBlocking(j)' /\ ~Over(j)'
      BY DEF Mapped
    <3>1. j \in DOMAIN outstanding[d] /\ outstanding'[d][j] = outstanding[d][j]
      BY <2>5
    <3> QED BY <1>1, <2>1, <2>9, <3>1 DEF Mapped
  <2>11. InHand'
    <3> SUFFICES ASSUME NEW d \in Clients, cur[d] # Never, popped'[d] # "none"
                 PROVE  /\ ClientOf[cur[d].id] = d /\ MayReport(cur[d])'
                        /\ op[cur[d].id] \notin {"new", "b_open"}
                        /\ popped'[d] = "callback" =>
                             /\ ~MadeBlocking(cur[d].id) /\ ~Over(cur[d].id)
                             /\ Ends(cur[d]) => cur[d].id \notin DOMAIN outstanding'[d]
      BY <2>1 DEF InHand, MadeBlocking, Over, Ends
    <3>1. CASE d = c
      BY <2>1, <2>3, <2>4, <2>5, <2>6, <3>1 DEF MayReport
    <3>2. CASE d # c
      BY <1>1, <2>1, <2>5, <2>6, <3>2 DEF InHand, MayReport
    <3> QED BY <3>1, <3>2
  <2> QED BY <2>7, <2>8, <2>10, <2>11 DEF RInv
<1> QED BY <1>2, <1>3

(* The callback is called without the mutex: what it is given ends the     *)
(* request only when the request has left the map.                         *)
LEMMA CallStep ==
  ASSUME RInv, NEW c \in Clients, Call(c)
  PROVE  RInv'
PROOF
<1> USE DEF topic, serverv
<1>1. TypeOK /\ Made /\ Mapped /\ Cancelled /\ Told /\ InHand /\ Given
  BY DEF RInv
<1>2. /\ UNCHANGED <<proto, topic, serverv, client, cpos, outstanding, op, cop, bpos, early>>
      /\ cur' = [cur EXCEPT ![c] = Never] /\ popped' = [popped EXCEPT ![c] = "none"]
      /\ calls' = IF popped[c] = "callback"
                    THEN [calls EXCEPT ![cur[c].id] = Append(@, cur[c])] ELSE calls
      /\ cur[c] # Never /\ popped[c] # "none"
  BY DEF Call
<1>3. /\ cur' \in [Clients -> Packets \cup {Never}] /\ popped' \in [Clients -> Cbs \cup {"none"}]
      /\ cur'[c] = Never
      /\ \A d \in Clients : d # c => cur'[d] = cur[d] /\ popped'[d] = popped[d]
  BY <1>1, <1>2 DEF TypeOK
<1>4. PICK p \in Packets, i \in Ids : p = cur[c] /\ i = cur[c].id
  BY <1>1, <1>2 DEF TypeOK, Packets
<1>5. /\ ClientOf[i] = c /\ MayReport(p) /\ op[i] \notin {"new", "b_open"}
      /\ popped[c] = "callback" => /\ ~MadeBlocking(i) /\ ~Over(i)
                                   /\ Ends(p) => i \notin DOMAIN outstanding[c]
  BY <1>1, <1>2, <1>4 DEF InHand
<1>6. /\ calls' \in [Ids -> Seq(Packets)]
      /\ \A j \in Ids : j # i => calls'[j] = calls[j]
  <2>1. CASE popped[c] = "callback"
    BY <1>1, <1>2, <1>4, <2>1, Handed
  <2>2. CASE popped[c] # "callback"
    BY <1>1, <1>2, <2>2 DEF TypeOK
  <2> QED BY <2>1, <2>2
<1>7. CASE popped[c] # "callback"
  <2>1. calls' = calls
    BY <1>2, <1>7
  <2>2. TypeOK'
    BY <1>1, <1>2, <1>3, <2>1 DEF TypeOK
  <2>3. Made' /\ Cancelled' /\ Mapped'
    BY <1>1, <1>2, <2>1 DEF Made, Cancelled, MadeBlocking, Ends, Mapped, Over
  <2>4. Given'
    BY <1>1, <1>2, <2>1 DEF Given, MayReport, Ends, MadeBlocking
  <2>5. Told'
    BY <1>1, <1>2, <1>3 DEF Told, Sane
  <2>6. \A d \in Clients : cur'[d] # Never => cur'[d] = cur[d] /\ popped'[d] = popped[d]
    BY <1>3
  <2>7. InHand'
    <3> SUFFICES ASSUME NEW d \in Clients, cur'[d] # Never, popped'[d] # "none"
                 PROVE  /\ ClientOf[cur'[d].id] = d /\ MayReport(cur[d])'
                        /\ op'[cur'[d].id] \notin {"new", "b_open"}
                        /\ popped'[d] = "callback" =>
                             /\ ~MadeBlocking(cur[d].id)' /\ ~Over(cur[d].id)'
                             /\ Ends(cur[d])' => cur'[d].id \notin DOMAIN outstanding'[d]
      BY DEF InHand
    <3>1. cur'[d] = cur[d] /\ popped'[d] = popped[d]
      BY <2>6
    <3> QED BY <1>1, <1>2, <2>1, <3>1 DEF InHand, MadeBlocking, MayReport, Over, Ends
  <2> QED BY <2>2, <2>3, <2>4, <2>5, <2>7 DEF RInv
<1>8. CASE popped[c] = "callback"
  <2>1. /\ Len(calls[i]) \in Nat /\ Len(calls'[i]) = Len(calls[i]) + 1
        /\ \A k \in 1..Len(calls[i]) : calls'[i][k] = calls[i][k]
        /\ calls'[i][Len(calls[i]) + 1] = p
    BY <1>1, <1>2, <1>4, <1>8, Handed
  <2>2. TypeOK'
    BY <1>1, <1>2, <1>3, <1>6 DEF TypeOK
  <2>3. Made' /\ Cancelled' /\ Told'
    BY <1>1, <1>2, <1>3 DEF Made, Cancelled, MadeBlocking, Told, Sane
  <2>4. \A j \in Ids : j # i => (Over(j)' <=> Over(j))
    BY <1>2, <1>6 DEF Over, Ends
  <2>5. Over(i)' <=> Ends(p)
    <3>1. \A k \in 1..Len(calls[i]) : ~Ends(calls[i][k])
      BY <1>5, <1>8 DEF Over
    <3>2. ASSUME Ends(p) PROVE Over(i)'
      <4>1. Len(calls[i]) + 1 \in 1..Len(calls'[i])
        BY <2>1
      <4>2. \E k \in 1..Len(calls'[i]) : proto' = "rpc" \/ calls'[i][k].type = "complete"
        BY <1>2, <2>1, <3>2, <4>1 DEF Ends
      <4> QED BY <4>2 DEF Over, Ends
    <3>3. ASSUME ~Ends(p) PROVE ~Over(i)'
      <4>1. \A k \in 1..Len(calls'[i]) : ~(proto' = "rpc" \/ calls'[i][k].type = "complete")
        BY <1>2, <2>1, <3>1, <3>3 DEF Ends
      <4> QED BY <4>1 DEF Over, Ends
    <3> QED BY <3>2, <3>3
  <2>6. Mapped'
    <3> SUFFICES ASSUME NEW d \in Clients, NEW j \in DOMAIN outstanding[d]
                 PROVE  /\ ClientOf[j] = d /\ op[j] \notin {"new", "b_open"} /\ (cop[j] = "new" \/ j \in early)
                        /\ outstanding[d][j] = "callback" => ~MadeBlocking(j) /\ ~Over(j)'
      BY <1>2 DEF Mapped, MadeBlocking
    <3>1. outstanding[d] \in Maps
      BY <1>1 DEF TypeOK
    <3>2. j \in Ids
      BY <3>1, MapFacts
    <3>3. CASE j = i
      <4>1. d = c
        BY <1>1, <1>5, <3>3 DEF Mapped
      <4> QED BY <1>1, <1>5, <1>8, <2>5, <3>3, <4>1 DEF Mapped
    <3>4. CASE j # i
      BY <1>1, <2>4, <3>2, <3>4 DEF Mapped
    <3> QED BY <3>3, <3>4
  <2>7. InHand'
    <3> SUFFICES ASSUME NEW d \in Clients, cur'[d] # Never, popped'[d] # "none"
                 PROVE  /\ ClientOf[cur'[d].id] = d /\ MayReport(cur[d])'
                        /\ op[cur'[d].id] \notin {"new", "b_open"}
                        /\ popped'[d] = "callback" =>
                             /\ ~MadeBlocking(cur'[d].id) /\ ~Over(cur[d].id)'
                             /\ Ends(cur[d])' => cur'[d].id \notin DOMAIN outstanding[d]
      BY <1>2 DEF InHand, MadeBlocking
    <3>1. d # c /\ cur'[d] = cur[d] /\ popped'[d] = popped[d]
      BY <1>3
    <3>2. ClientOf[cur[d].id] = d /\ cur[d].id \in Ids /\ cur[d].id # i
      BY <1>1, <1>5, <3>1 DEF InHand, TypeOK, Packets
    <3>3. Over(cur[d].id)' <=> Over(cur[d].id)
      BY <1>2, <1>6, <3>1, <3>2 DEF Over, Ends
    <3>4. Ends(cur[d])' <=> Ends(cur[d])
      BY <1>2, <3>1 DEF Ends
    <3> QED BY <1>1, <1>2, <3>1, <3>3, <3>4 DEF InHand, MayReport
  <2>8. Given'
    <3>1. \A k \in 1..Len(calls[i]) : /\ calls[i][k].id = i /\ MayReport(calls[i][k])
                                     /\ ~Ends(calls[i][k])
      BY <1>1, <1>4, <1>5, <1>8 DEF Given, Over
    <3>2. \A k \in 1..Len(calls'[i]) : calls'[i][k].id = i /\ MayReport(calls[i][k])'
      <4> SUFFICES ASSUME NEW k \in 1..Len(calls'[i])
                   PROVE  calls'[i][k].id = i /\ MayReport(calls[i][k])'
        OBVIOUS
      <4>1. p.id = i
        BY <1>4
      <4>2. CASE k = Len(calls[i]) + 1
        BY <1>2, <1>5, <2>1, <4>1, <4>2 DEF MayReport
      <4>3. CASE k \in 1..Len(calls[i])
        BY <1>2, <2>1, <3>1, <4>3 DEF MayReport
      <4> QED BY <2>1, <4>2, <4>3
    <3>3. \A k \in 1..Len(calls'[i]) - 1 : ~Ends(calls[i][k])'
      BY <1>2, <2>1, <3>1 DEF Ends
    <3>4. op[i] \notin {"new", "b_open"} /\ ~MadeBlocking(i)
      BY <1>5, <1>8
    <3> SUFFICES ASSUME NEW j \in Ids
                 PROVE  /\ \A k \in 1..Len(calls'[j]) :
                             calls'[j][k].id = j /\ MayReport(calls[j][k])'
                        /\ \A k \in 1..Len(calls'[j]) - 1 : ~Ends(calls[j][k])'
                        /\ op[j] \in {"new", "b_open"} => calls'[j] = <<>>
                        /\ MadeBlocking(j) /\ op[j] # "returned" => calls'[j] = <<>>
      BY <1>2 DEF Given, MadeBlocking
    <3>5. CASE j = i
      BY <3>2, <3>3, <3>4, <3>5
    <3>6. CASE j # i
      <4>1. calls'[j] = calls[j] /\ proto' = proto /\ early' = early
        BY <1>2, <1>6, <3>6
      <4> QED BY <1>1, <4>1 DEF Given, Ends, MayReport
    <3> QED BY <3>5, <3>6
  <2> QED BY <2>2, <2>3, <2>6, <2>7, <2>8 DEF RInv
<1> QED BY <1>7, <1>8

(* The blocking call's own reader is given a packet. *)
LEMMA BlockingReadStep ==
  ASSUME RInv, NEW i \in Ids, BlockingRead(i)
  PROVE  RInv'
PROOF
<1> USE DEF topic, serverv, clientv
<1>1. TypeOK /\ Made /\ Mapped /\ Cancelled /\ Told /\ InHand /\ Given
  BY DEF RInv
<1>2. PICK n \in 1..Len(log), p \in Packets : n = NextFrame(bpos[i]) /\ p = log[n]
  <2>1. bpos[i] \in Nat /\ HasNext(bpos[i])
    BY <1>1 DEF TypeOK, BlockingRead, BlockingReadAt
  <2> QED BY <1>1, <2>1, NextIsThere
<1> DEFINE mine == p.type # "request" /\ p.id = i
<1>3. /\ op[i] = "b_wait" /\ bpos' = [bpos EXCEPT ![i] = n]
      /\ op' = [op EXCEPT ![i] = IF mine THEN "returned" ELSE @]
      /\ calls' = IF mine /\ p.type = "response"
                    THEN [calls EXCEPT ![i] = Append(@, p)] ELSE calls
      /\ UNCHANGED <<proto, topic, serverv, clientv, cop, early>>
  BY <1>2 DEF BlockingRead, BlockingReadAt
<1>4. MadeBlocking(i) /\ calls[i] = <<>> /\ proto = "rpc"
  BY <1>1, <1>3 DEF Made, Given, MadeBlocking
<1>5. /\ bpos' \in [Ids -> Nat]
      /\ op' \in [Ids -> {"new", "put", "sent", "b_open", "b_put", "b_wait", "returned"}]
      /\ op'[i] \in {"b_wait", "returned"}
      /\ \A j \in Ids : j # i => op'[j] = op[j]
  <2>1. Len(log) \in Nat /\ bpos \in [Ids -> Nat]
    BY <1>1 DEF TypeOK
  <2> QED BY <1>1, <1>3, <2>1 DEF TypeOK
<1>6. /\ calls' \in [Ids -> Seq(Packets)]
      /\ \A j \in Ids : j # i => calls'[j] = calls[j]
      /\ calls'[i] # <<>> => op'[i] = "returned" /\ Len(calls'[i]) = 1 /\ calls'[i][1] = p
                             /\ p.id = i /\ p.type = "response"
  <2>1. CASE mine /\ p.type = "response"
    <3>1. calls' = [calls EXCEPT ![i] = Append(@, p)]
      BY <1>3, <2>1
    <3>2. /\ calls' \in [Ids -> Seq(Packets)]
          /\ \A j \in Ids : j # i => calls'[j] = calls[j]
          /\ Len(calls'[i]) = Len(calls[i]) + 1 /\ calls'[i][Len(calls[i]) + 1] = p
      BY <1>1, <3>1, Handed
    <3>3. Len(calls[i]) = 0
      BY <1>4
    <3>4. op'[i] = "returned"
      BY <1>1, <1>3, <2>1 DEF TypeOK
    <3> QED BY <2>1, <3>2, <3>3, <3>4
  <2>2. CASE ~(mine /\ p.type = "response")
    <3>1. calls' = calls
      BY <1>3, <2>2
    <3> QED BY <1>1, <1>4, <3>1 DEF TypeOK
  <2> QED BY <2>1, <2>2
<1> HIDE DEF mine
<1>7. TypeOK'
  BY <1>1, <1>3, <1>5, <1>6 DEF TypeOK
<1>8. \A j : MadeBlocking(j)' <=> MadeBlocking(j)
  BY <1>3 DEF MadeBlocking
<1>9. \A j \in Ids : j # i => (Over(j)' <=> Over(j))
  BY <1>3, <1>6 DEF Over, Ends
<1>10. Made' /\ Cancelled' /\ Told'
  <2>1. Made'
    <3> SUFFICES ASSUME NEW j \in Ids
                 PROVE  /\ op'[j] \in {"b_open", "b_put", "b_wait", "returned"} => MadeBlocking(j)
                        /\ op'[j] \in {"put", "sent"} => ~MadeBlocking(j)
      BY <1>8 DEF Made
    <3>1. CASE j = i
      BY <1>4, <1>5, <3>1
    <3>2. CASE j # i
      BY <1>1, <1>5, <3>2 DEF Made
    <3> QED BY <3>1, <3>2
  <2> QED BY <1>1, <1>3, <1>5, <2>1 DEF Cancelled, Told, Sane
<1>11. Mapped'
  <2> SUFFICES ASSUME NEW c \in Clients, NEW j \in DOMAIN outstanding[c]
               PROVE  /\ ClientOf[j] = c /\ op'[j] \notin {"new", "b_open"} /\ (cop[j] = "new" \/ j \in early)
                      /\ outstanding[c][j] = "callback" => ~MadeBlocking(j) /\ ~Over(j)'
    BY <1>3, <1>8 DEF Mapped
  <2>1. outstanding[c] \in Maps
    BY <1>1 DEF TypeOK
  <2>2. j \in Ids
    BY <2>1, MapFacts
  <2>3. CASE j = i
    BY <1>1, <1>4, <1>5, <2>3 DEF Mapped
  <2>4. CASE j # i
    BY <1>1, <1>5, <1>9, <2>2, <2>4 DEF Mapped
  <2> QED BY <2>3, <2>4
<1>12. InHand'
  <2> SUFFICES ASSUME NEW c \in Clients, cur[c] # Never, popped[c] # "none"
               PROVE  /\ ClientOf[cur[c].id] = c /\ MayReport(cur[c])'
                      /\ op'[cur[c].id] \notin {"new", "b_open"}
                      /\ popped[c] = "callback" =>
                           /\ ~MadeBlocking(cur[c].id) /\ ~Over(cur[c].id)'
                           /\ Ends(cur[c]) => cur[c].id \notin DOMAIN outstanding[c]
    BY <1>3, <1>8 DEF InHand, Ends
  <2>1. cur[c].id \in Ids
    BY <1>1 DEF TypeOK, Packets
  <2>2. CASE cur[c].id = i
    BY <1>1, <1>3, <1>4, <1>5, <2>2 DEF InHand, MayReport
  <2>3. CASE cur[c].id # i
    <3>1. Over(cur[c].id)' <=> Over(cur[c].id)
      BY <1>3, <1>6, <2>1, <2>3 DEF Over, Ends
    <3> QED BY <1>1, <1>3, <1>5, <2>1, <2>3, <3>1 DEF InHand, MayReport
  <2> QED BY <2>2, <2>3
<1>13. Given'
  <2> SUFFICES ASSUME NEW j \in Ids
               PROVE  /\ \A k \in 1..Len(calls'[j]) :
                           calls'[j][k].id = j /\ MayReport(calls[j][k])'
                      /\ \A k \in 1..Len(calls'[j]) - 1 : ~Ends(calls[j][k])'
                      /\ op'[j] \in {"new", "b_open"} => calls'[j] = <<>>
                      /\ MadeBlocking(j) /\ op'[j] # "returned" => calls'[j] = <<>>
    BY <1>8 DEF Given
  <2>1. CASE j = i
    <3>1. CASE calls'[i] = <<>>
      BY <2>1, <3>1
    <3>2. CASE calls'[i] # <<>>
      <4>1. /\ op'[i] = "returned" /\ Len(calls'[i]) = 1 /\ calls'[i][1] = p
            /\ p.id = i /\ p.type = "response"
        BY <1>6, <3>2, Zenon
      <4>2. \A k \in 1..Len(calls'[i]) : k = 1
        BY <4>1
      <4>3. \A k \in 1..Len(calls'[i]) - 1 : FALSE
        BY <4>1
      <4> QED BY <2>1, <4>1, <4>2, <4>3 DEF AnswerTypes, MayReport
    <3> QED BY <3>1, <3>2
  <2>2. CASE j # i
    <3>1. calls'[j] = calls[j] /\ proto' = proto /\ op'[j] = op[j] /\ early' = early
      BY <1>3, <1>5, <1>6, <2>2
    <3>2. \A k \in 1..Len(calls[j]) : calls[j][k].id = j /\ MayReport(calls[j][k])
      BY <1>1 DEF Given
    <3>3. \A k \in 1..Len(calls'[j]) : calls'[j][k].id = j /\ MayReport(calls[j][k])'
      BY <3>1, <3>2 DEF MayReport
    <3> QED BY <1>1, <3>1, <3>3 DEF Given, Ends
  <2> QED BY <2>1, <2>2
<1> QED BY <1>7, <1>10, <1>11, <1>12, <1>13 DEF RInv

-----------------------------------------------------------------------------
(* The invariant, and what it gives. *)

(* It holds before anyone has opened anything. *)
LEMMA InitRInv == Init => RInv
PROOF
<1> SUFFICES ASSUME Init PROVE RInv
  OBVIOUS
<1> DEFINE e == [i \in {} |-> "callback"]
<1>1. DOMAIN e = {} /\ e \in [{} -> Cbs]
  OBVIOUS
<1>2. e \in Maps
  BY <1>1, MapFacts
<1>3. outstanding = [c \in Clients |-> e]
  BY DEF Init
<1> HIDE DEF e
<1>4. TypeOK
  BY <1>2, <1>3 DEF Init, TypeOK
<1>5. Mapped
  BY <1>1, <1>3 DEF Mapped
<1> QED BY <1>4, <1>5 DEF Init, RInv, Made, Cancelled, Told, InHand, Given

(* Every step keeps it. *)
LEMMA NextRInv == RInv /\ [Next]_vars => RInv'
PROOF
<1> SUFFICES ASSUME RInv, [Next]_vars PROVE RInv'
  OBVIOUS
<1>1. CASE Evict \/ ServerNext
  BY <1>1, QuietStep
<1>2. ASSUME NEW i \in Ids, RequestNext(i)
      PROVE  RInv'
  <2>1. CASE a0_rpc_server_reply(i) \/ a0_prpc_server_send(i) \/ Send(i) \/ BlockingSend(i) \/ Tell(i)
    BY <2>1, WriteStep
  <2>2. CASE Put(i) \/ BlockingPut(i)
    BY <2>2, PutStep
  <2>3. CASE Forget(i)
    BY <2>3, ForgetStep
  <2>4. CASE a0_rpc_client_send_blocking_timeout(i) \/ BlockingTimeout(i)
    BY <2>4, BlockingStep
  <2>5. CASE BlockingRead(i)
    BY <2>5, BlockingReadStep
  <2> QED
    BY <1>2, <2>1, <2>2, <2>3, <2>4, <2>5
    DEF RequestNext, a0_rpc_client_send, a0_prpc_client_connect, a0_rpc_client_cancel, a0_prpc_client_cancel
<1>3. ASSUME NEW c \in Clients, ClientNext(c)
      PROVE  RInv'
  <2>1. CASE OpenClient(c) \/ CloseReader(c)
    BY <2>1, QuietStep
  <2>2. CASE CloseMap(c)
    BY <2>2, ForgetStep
  <2>3. CASE Take(c)
    BY <2>3, TakeStep
  <2>4. CASE a0_rpc_client_onpacket(c) \/ a0_prpc_client_onpacket(c)
    BY <2>4, HoldStep
  <2>5. CASE Call(c)
    BY <2>5, CallStep
  <2> QED
    BY <1>3, <2>1, <2>2, <2>3, <2>4, <2>5
    DEF ClientNext, ReaderThread, a0_rpc_client_init, a0_rpc_client_close, a0_prpc_client_init, a0_prpc_client_close
<1>4. CASE UNCHANGED vars
  BY <1>4 DEF vars, topic, serverv, clientv, RInv, TypeOK, Made, Mapped, Cancelled, Told, Sane,
              InHand, Given, Ends, Over, MadeBlocking, MayReport
<1> QED BY <1>1, <1>2, <1>3, <1>4 DEF Next

(* The inductive invariant, which a reader of rpc.c may rely on. *)
THEOREM RpcInvariant == Spec => []RInv
  BY InitRInv, NextRInv, PTL DEF Spec

(* However many answers a server sends, however often the topic evicts,    *)
(* and wherever the cancellation and the deadline fall: one response for a *)
(* request, nothing after the packet that completes a connection.  The     *)
(* thread that calls back holds no lock by then; what it relies on is that *)
(* the packet that ends a request is the one that removed it from the map. *)
THEOREM CallbacksOnceAndLast == Spec => []OnceAndLast
PROOF
<1>1. RInv => OnceAndLast
  <2> SUFFICES ASSUME RInv, NEW i \in Ids
               PROVE  /\ proto = "rpc" => Len(calls[i]) <= 1
                      /\ \A k \in 1..Len(calls[i]) - 1 : calls[i][k].type # "complete"
    BY DEF OnceAndLast
  <2>1. \A k \in 1..Len(calls[i]) - 1 : ~Ends(calls[i][k])
    BY DEF RInv, Given
  <2>2. Len(calls[i]) \in Nat
    BY DEF RInv, TypeOK
  <2>3. proto = "rpc" => Len(calls[i]) <= 1
    <3>1. Len(calls[i]) > 1 => 1 \in 1..Len(calls[i]) - 1
      BY <2>2
    <3> QED BY <2>1, <2>2, <3>1 DEF Ends
  <2> QED BY <2>1, <2>3 DEF Ends
<1> QED BY <1>1, RpcInvariant, PTL

(* A callback is given answers to its own request alone.  Its cancellation *)
(* can reach it only in prpc, and only when the cancel went through the    *)
(* map before connect did; a later one is on the topic only once its       *)
(* request is in no map.                                                   *)
THEOREM CallbacksOnlyTheirs == Spec => []OnlyItsAnswers
PROOF
<1>1. RInv => OnlyItsAnswers
  BY DEF RInv, Given, MayReport, AnswerTypes, OnlyItsAnswers
<1> QED BY <1>1, RpcInvariant, PTL
=============================================================================
