-------------------------------- MODULE Rpc --------------------------------
(***************************************************************************)
(* rpc.c and prpc.c: clients and servers that talk through one topic.      *)
(*                                                                         *)
(* Requests, answers and cancellations are packets of one log, read by     *)
(* everyone (Reader shows what a reader gets: every frame after its own    *)
(* creation, in order, unless it was evicted).  A client keeps the         *)
(* callbacks of its outstanding requests in a map under a mutex; its       *)
(* reader thread takes them out, and calls them without the mutex.  rpc    *)
(* answers a request once, and has a blocking call with a reader of its    *)
(* own; prpc answers a connection with any number of progress packets and  *)
(* a last one.  `proto` says which of the two a behaviour is about.        *)
(* A step is one critical section, of the map or of the transport.         *)
(***************************************************************************)
EXTENDS Integers, Sequences, FiniteSets

CONSTANTS
  Ids,         \* packet ids of requests and connections, each used once
  Clients,
  ClientOf,    \* the client that sends a request
  Blocking,    \* the requests of rpc that are made with the blocking call
  Never,       \* no packet
  MaxLog,      \* bound: packets written
  MaxAnswers,  \* bound: packets a server sends for one request
  MaxCancels,  \* bound: cancellations, of all requests
  MaxLost      \* bound: packets evicted

ASSUME ConstantsAssumption ==
  /\ MaxLog \in Nat /\ MaxAnswers \in Nat /\ MaxCancels \in Nat /\ MaxLost \in Nat
  /\ ClientOf \in [Ids -> Clients] /\ Blocking \subseteq Ids

VARIABLES
  proto,        \* "rpc" or "prpc"
  log, low,     \* the packets written; those before low are evicted
  server,       \* "none", "open", "closed"
  spos,         \* the server's reader has handled log[1..spos]
  accepted,     \* the requests that the server's callback was given
  client,       \* per client: "none", "open", "reader_closed", "closed"
  cpos,         \* per client: its reader has taken log[1..cpos]
  cur,          \* per client: the packet that its reader thread is handling
  popped,       \* per client: the callback that the thread has taken from the map
  outstanding,  \* per client: the map, from ids to "callback" or "empty"
  op,           \* per request: where the thread that sends it is
  cop,          \* per request: where the thread that cancels it is
  bpos,         \* per request: position of the blocking call's reader
  calls,        \* auxiliary: per request, the packets its callback was given
  early         \* auxiliary: the requests that were cancelled before they were in the map

topic == <<log, low>>
serverv == <<server, spos, accepted>>
clientv == <<client, cpos, cur, popped, outstanding>>
vars == <<proto, topic, serverv, clientv, op, cop, bpos, calls, early>>

Packet(type, id) == [type |-> type, id |-> id]
RequestType == IF proto = "rpc" THEN "request" ELSE "connect"

\* The frame that a reader at p is given next.
NextFrame(p) == IF p + 1 < low THEN low ELSE p + 1
HasNext(p) == NextFrame(p) <= Len(log)

a0_writer_write(p) ==
  /\ Len(log) < MaxLog
  /\ log' = Append(log, p)
  /\ UNCHANGED low

Init ==
  /\ proto \in {"rpc", "prpc"}
  /\ log = <<>> /\ low = 1
  /\ server = "none" /\ spos = 0 /\ accepted = {}
  /\ client = [c \in Clients |-> "none"]
  /\ cpos = [c \in Clients |-> 0]
  /\ cur = [c \in Clients |-> Never]
  /\ popped = [c \in Clients |-> "none"]
  /\ outstanding = [c \in Clients |-> [i \in {} |-> "callback"]]
  /\ op = [i \in Ids |-> "new"]
  /\ cop = [i \in Ids |-> "new"]
  /\ bpos = [i \in Ids |-> 0]
  /\ calls = [i \in Ids |-> <<>>]
  /\ early = {}

\* Writers of the topic push the oldest packet out.
Evict ==
  /\ low <= MaxLost /\ low <= Len(log)
  /\ low' = low + 1
  /\ UNCHANGED <<proto, log, serverv, clientv, op, cop, bpos, calls, early>>

-----------------------------------------------------------------------------
(* The server.  Its writer is made before its reader, whose callback may   *)
(* answer at once.                                                         *)

OpenServer ==
  /\ server = "none"
  /\ server' = "open" /\ spos' = Len(log)
  /\ UNCHANGED <<proto, topic, accepted, clientv, op, cop, bpos, calls, early>>

CloseServer ==
  /\ server = "open"
  /\ server' = "closed"
  /\ UNCHANGED <<proto, topic, spos, accepted, clientv, op, cop, bpos, calls, early>>

a0_rpc_server_init == proto = "rpc" /\ OpenServer
a0_rpc_server_close == proto = "rpc" /\ CloseServer
a0_prpc_server_init == proto = "prpc" /\ OpenServer
a0_prpc_server_close == proto = "prpc" /\ CloseServer

\* The reader's callback: requests are handed on; what the user does with a cancellation is open.
ServerOnPacket(type) ==
  /\ server = "open" /\ HasNext(spos)
  /\ spos' = NextFrame(spos)
  /\ LET p == log[NextFrame(spos)]
     IN accepted' = IF p.type = type THEN accepted \cup {p.id} ELSE accepted
  /\ UNCHANGED <<proto, topic, server, clientv, op, cop, bpos, calls, early>>

a0_rpc_server_onpacket == proto = "rpc" /\ ServerOnPacket("request")
a0_prpc_server_onpacket == proto = "prpc" /\ ServerOnPacket("connect")

Answers(i) == Cardinality({n \in 1..Len(log) : log[n].id = i /\ log[n].type \in {"response", "progress", "complete"}})

\* A careless server may reply twice.
a0_rpc_server_reply(i) ==
  /\ proto = "rpc" /\ server = "open" /\ i \in accepted /\ Answers(i) < MaxAnswers
  /\ a0_writer_write(Packet("response", i))
  /\ UNCHANGED <<proto, serverv, clientv, op, cop, bpos, calls, early>>

\* A careless server may go on after it is done.
a0_prpc_server_send(i) ==
  /\ proto = "prpc" /\ server = "open" /\ i \in accepted /\ Answers(i) < MaxAnswers
  /\ \E done \in BOOLEAN : a0_writer_write(Packet(IF done THEN "complete" ELSE "progress", i))
  /\ UNCHANGED <<proto, serverv, clientv, op, cop, bpos, calls, early>>

-----------------------------------------------------------------------------
(* The client.  The map is made before the reader is opened and closed     *)
(* after the reader is closed.                                             *)

OpenClient(c) ==
  /\ client[c] = "none"
  /\ client' = [client EXCEPT ![c] = "open"]
  /\ cpos' = [cpos EXCEPT ![c] = Len(log)]
  /\ UNCHANGED <<proto, topic, serverv, cur, popped, outstanding, op, cop, bpos, calls, early>>

Unused(c) ==
  \A i \in Ids : ClientOf[i] = c => op[i] \in {"new", "sent", "returned"} /\ cop[i] \in {"new", "returned"}

\* Closed by a user who is in none of the client's functions; the reader's thread is joined.
CloseReader(c) ==
  /\ client[c] = "open" /\ cur[c] = Never
  /\ Unused(c)
  /\ client' = [client EXCEPT ![c] = "reader_closed"]
  /\ UNCHANGED <<proto, topic, serverv, cpos, cur, popped, outstanding, op, cop, bpos, calls, early>>

CloseMap(c) ==
  /\ client[c] = "reader_closed"
  /\ client' = [client EXCEPT ![c] = "closed"]
  /\ outstanding' = [outstanding EXCEPT ![c] = [i \in {} |-> "callback"]]
  /\ UNCHANGED <<proto, topic, serverv, cpos, cur, popped, op, cop, bpos, calls, early>>

a0_rpc_client_init(c) == proto = "rpc" /\ OpenClient(c)
a0_rpc_client_close(c) == proto = "rpc" /\ (CloseReader(c) \/ CloseMap(c))
a0_prpc_client_init(c) == proto = "prpc" /\ OpenClient(c)
a0_prpc_client_close(c) == proto = "prpc" /\ (CloseReader(c) \/ CloseMap(c))

MapPut(i, cb) ==
  outstanding' = [outstanding EXCEPT ![ClientOf[i]] =
                    [j \in DOMAIN @ \cup {i} |-> IF j = i THEN cb ELSE @[j]]]

MapDel(c, i) == outstanding' = [outstanding EXCEPT ![c] = [j \in DOMAIN @ \ {i} |-> @[j]]]

MadeBlocking(i) == proto = "rpc" /\ i \in Blocking

\* Mutant: onto the topic first.
PutLate(i) ==
  \/ /\ op[i] = "new" /\ client[ClientOf[i]] = "open"
     /\ a0_writer_write(Packet(RequestType, i)) /\ ~MadeBlocking(i)
     /\ op' = [op EXCEPT ![i] = "late"]
     /\ UNCHANGED <<proto, serverv, clientv, cop, bpos, calls, early>>
  \/ /\ op[i] = "late"
     /\ MapPut(i, "callback")
     /\ op' = [op EXCEPT ![i] = "sent"]
     /\ UNCHANGED <<proto, topic, serverv, client, cpos, cur, popped, cop, bpos, calls, early>>

\* Sending: into the map, then onto the topic.
Put(i) ==
  /\ op[i] = "new" /\ client[ClientOf[i]] = "open" /\ ~MadeBlocking(i)
  /\ MapPut(i, "callback")
  /\ op' = [op EXCEPT ![i] = "put"]
  /\ UNCHANGED <<proto, topic, serverv, client, cpos, cur, popped, cop, bpos, calls, early>>

Send(i) ==
  /\ op[i] = "put"
  /\ a0_writer_write(Packet(RequestType, i))
  /\ op' = [op EXCEPT ![i] = "sent"]
  /\ UNCHANGED <<proto, serverv, clientv, cop, bpos, calls, early>>

a0_rpc_client_send(i) == proto = "rpc" /\ (Put(i) \/ Send(i))
a0_prpc_client_connect(i) == proto = "prpc" /\ (Put(i) \/ Send(i))

Cancels == Cardinality({n \in 1..Len(log) : log[n].type = "cancel"}) + Cardinality({i \in Ids : cop[i] = "forgotten"})

\* Deleting what is not in the map does nothing.
NotYetPut(i) == op[i] \notin {"put", "sent", "b_put", "b_wait", "returned"}
MapDelForCancel(i) ==
  /\ MapDel(ClientOf[i], i)
  /\ early' = IF NotYetPut(i) THEN early \cup {i} ELSE early

\* Mutant: onto the topic first.
ForgetLate(i) ==
  \/ /\ cop[i] \in {"new", "returned"} /\ client[ClientOf[i]] = "open" /\ Cancels < MaxCancels
     /\ a0_writer_write(Packet("cancel", i))
     /\ cop' = [cop EXCEPT ![i] = "told"]
     /\ UNCHANGED <<proto, serverv, clientv, op, bpos, calls, early>>
  \/ /\ cop[i] = "told"
     /\ MapDelForCancel(i)
     /\ cop' = [cop EXCEPT ![i] = "returned"]
     /\ UNCHANGED <<proto, topic, serverv, client, cpos, cur, popped, op, bpos, calls>>

(* Cancelling: out of the map, then onto the topic, whatever has become of *)
(* the request: another thread may be anywhere in the call that sends it,  *)
(* and a request may be cancelled again.                                   *)
Forget(i) ==
  /\ cop[i] \in {"new", "returned"} /\ client[ClientOf[i]] = "open" /\ Cancels < MaxCancels
  /\ MapDelForCancel(i)
  /\ cop' = [cop EXCEPT ![i] = "forgotten"]
  /\ UNCHANGED <<proto, topic, serverv, client, cpos, cur, popped, op, bpos, calls>>

Tell(i) ==
  /\ cop[i] = "forgotten"
  /\ a0_writer_write(Packet("cancel", i))
  /\ cop' = [cop EXCEPT ![i] = "returned"]
  /\ UNCHANGED <<proto, serverv, clientv, op, bpos, calls, early>>

a0_rpc_client_cancel(i) == proto = "rpc" /\ (Forget(i) \/ Tell(i))
a0_prpc_client_cancel(i) == proto = "prpc" /\ (Forget(i) \/ Tell(i))

(* The client's reader thread takes a packet, looks the callback up, and   *)
(* calls it.                                                               *)
Take(c) ==
  /\ client[c] = "open" /\ cur[c] = Never /\ HasNext(cpos[c])
  /\ cpos' = [cpos EXCEPT ![c] = NextFrame(cpos[c])]
  /\ cur' = [cur EXCEPT ![c] = log[NextFrame(cpos[c])]]
  /\ popped' = [popped EXCEPT ![c] = "none"]
  /\ UNCHANGED <<proto, topic, serverv, client, outstanding, op, cop, bpos, calls, early>>

Ignore(c) ==
  /\ cur' = [cur EXCEPT ![c] = Never]
  /\ UNCHANGED <<proto, topic, serverv, client, cpos, popped, outstanding, op, cop, bpos, calls, early>>

Found(c) == cur[c].id \in DOMAIN outstanding[c]

Hold(c) == popped' = [popped EXCEPT ![c] = outstanding[c][cur[c].id]]

\* Mutant: the callback stays in the map.
RpcKeep(c) ==
  /\ proto = "rpc" /\ cur[c] # Never /\ popped[c] = "none"
  /\ \/ (cur[c].type # "response" \/ ~Found(c)) /\ Ignore(c)
     \/ /\ cur[c].type = "response" /\ Found(c)
        /\ Hold(c)
        /\ UNCHANGED <<proto, topic, serverv, client, cpos, cur, outstanding, op, cop, bpos, calls, early>>

\* Only a response is looked up; it leaves the map.
a0_rpc_client_onpacket(c) ==
  /\ proto = "rpc" /\ cur[c] # Never /\ popped[c] = "none"
  /\ \/ (cur[c].type # "response" \/ ~Found(c)) /\ Ignore(c)
     \/ /\ cur[c].type = "response" /\ Found(c)
        /\ Hold(c)
        /\ MapDel(c, cur[c].id)
        /\ UNCHANGED <<proto, topic, serverv, client, cpos, cur, op, cop, bpos, calls, early>>

(* Whatever names a connection is looked up, a cancellation too; only the  *)
(* last packet takes the callback out of the map.                          *)
a0_prpc_client_onpacket(c) ==
  /\ proto = "prpc" /\ cur[c] # Never /\ popped[c] = "none"
  /\ \/ (cur[c].type = "connect" \/ ~Found(c)) /\ Ignore(c)
     \/ /\ cur[c].type # "connect" /\ Found(c)
        /\ Hold(c)
        /\ \/ cur[c].type = "complete" /\ MapDel(c, cur[c].id)
           \/ cur[c].type # "complete" /\ UNCHANGED outstanding
        /\ UNCHANGED <<proto, topic, serverv, client, cpos, cur, op, cop, bpos, calls, early>>

Call(c) ==
  /\ cur[c] # Never /\ popped[c] # "none"
  /\ calls' = IF popped[c] = "callback"
                THEN [calls EXCEPT ![cur[c].id] = Append(@, cur[c])] ELSE calls
  /\ cur' = [cur EXCEPT ![c] = Never]
  /\ popped' = [popped EXCEPT ![c] = "none"]
  /\ UNCHANGED <<proto, topic, serverv, client, cpos, outstanding, op, cop, bpos, early>>

-----------------------------------------------------------------------------
(* The blocking call: a reader of its own, placed before the request is    *)
(* sent, sees every packet of the topic.                                   *)

a0_rpc_client_send_blocking_timeout(i) ==
  /\ MadeBlocking(i) /\ op[i] = "new" /\ client[ClientOf[i]] = "open"
  /\ bpos' = [bpos EXCEPT ![i] = Len(log)]
  /\ op' = [op EXCEPT ![i] = "b_open"]
  /\ UNCHANGED <<proto, topic, serverv, clientv, cop, calls, early>>

BlockingPut(i) ==
  /\ op[i] = "b_open"
  /\ MapPut(i, "empty")
  /\ op' = [op EXCEPT ![i] = "b_put"]
  /\ UNCHANGED <<proto, topic, serverv, client, cpos, cur, popped, cop, bpos, calls, early>>

BlockingSend(i) ==
  /\ op[i] = "b_put"
  /\ a0_writer_write(Packet("request", i))
  /\ op' = [op EXCEPT ![i] = "b_wait"]
  /\ UNCHANGED <<proto, serverv, clientv, cop, bpos, calls, early>>

\* A request carries no request id; an answer or a cancellation of this request ends the call.
BlockingReadAt(i, n) ==
  /\ op[i] = "b_wait" /\ HasNext(bpos[i])
  /\ bpos' = [bpos EXCEPT ![i] = n]
  /\ LET mine == log[n].type # "request" /\ log[n].id = i
     IN /\ op' = [op EXCEPT ![i] = IF mine THEN "returned" ELSE @]
        /\ calls' = IF mine /\ log[n].type = "response" THEN [calls EXCEPT ![i] = Append(@, log[n])] ELSE calls
  /\ UNCHANGED <<proto, topic, serverv, clientv, cop, early>>

\* Mutant: the call's reader goes for the newest packet.
BlockingReadNewest(i) == BlockingReadAt(i, Len(log))

BlockingRead(i) == BlockingReadAt(i, NextFrame(bpos[i]))

\* The deadline passes.  The entry of the map stays.
BlockingTimeout(i) ==
  /\ op[i] = "b_wait"
  /\ op' = [op EXCEPT ![i] = "returned"]
  /\ UNCHANGED <<proto, topic, serverv, clientv, cop, bpos, calls, early>>

ServerNext ==
  \/ a0_rpc_server_init \/ a0_rpc_server_close \/ a0_rpc_server_onpacket
  \/ a0_prpc_server_init \/ a0_prpc_server_close \/ a0_prpc_server_onpacket

ReaderThread(c) == Take(c) \/ a0_rpc_client_onpacket(c) \/ a0_prpc_client_onpacket(c) \/ Call(c)

RequestNext(i) ==
  \/ a0_rpc_server_reply(i) \/ a0_prpc_server_send(i)
  \/ a0_rpc_client_send(i) \/ a0_prpc_client_connect(i)
  \/ a0_rpc_client_cancel(i) \/ a0_prpc_client_cancel(i)
  \/ a0_rpc_client_send_blocking_timeout(i) \/ BlockingPut(i) \/ BlockingSend(i)
  \/ BlockingRead(i) \/ BlockingTimeout(i)

ClientNext(c) ==
  \/ a0_rpc_client_init(c) \/ a0_rpc_client_close(c)
  \/ a0_prpc_client_init(c) \/ a0_prpc_client_close(c)
  \/ ReaderThread(c)

Next == Evict \/ ServerNext \/ (\E i \in Ids : RequestNext(i)) \/ (\E c \in Clients : ClientNext(c))

(* Reader threads and blocked calls run when they can.  Nobody has to      *)
(* send, answer, cancel or close, and no deadline has to pass.             *)
Spec ==
  /\ Init /\ [][Next]_vars
  /\ \A c \in Clients : WF_vars(ReaderThread(c))
  /\ \A i \in Ids : WF_vars(BlockingRead(i))

-----------------------------------------------------------------------------
(* Properties.                                                             *)

(* A request's callback, or its blocking call, is given at most one        *)
(* response, and a connection's callback nothing after the packet that     *)
(* completes it, however often the server answers and whatever races with  *)
(* the cancellation.                                                       *)
OnceAndLast ==
  \A i \in Ids :
    /\ proto = "rpc" => Len(calls[i]) <= 1
    /\ \A k \in 1..Len(calls[i]) - 1 : calls[i][k].type # "complete"

(* A callback is given only answers to its own request.  prpc's client     *)
(* does not look whether a packet is a cancellation: what keeps it from    *)
(* reporting its own as progress is that a cancel forgets the connection   *)
(* first.  A cancel that finds nothing to forget, because connect has not  *)
(* put the callback into the map yet, is the exception: its packet may     *)
(* come after, and is reported.                                            *)
OnlyItsAnswers ==
  \A i \in Ids : \A k \in 1..Len(calls[i]) :
    /\ calls[i][k].id = i
    /\ \/ calls[i][k].type \in {"response", "progress", "complete"}
       \/ calls[i][k].type = "cancel" /\ proto = "prpc" /\ i \in early

\* A packet of one of these types for request i is on the topic, after position p.
OnTopicAfter(p, i, types) == \E n \in low..Len(log) : n > p /\ log[n].id = i /\ log[n].type \in types
OnTopic(i, types) == OnTopicAfter(0, i, types)

(* What ends a request reaches the callback however soon it is written     *)
(* after the request, unless it was evicted, the request cancelled or the  *)
(* client closed: no answer finds the map without its request.  Progress   *)
(* alone does not count.                                                   *)
AnswerArrives ==
  \A i \in Ids :
    (op[i] = "sent" /\ OnTopic(i, {"response", "complete"}))
      ~> (\/ \E k \in 1..Len(calls[i]) : calls[i][k].type \in {"response", "complete"}
          \/ cop[i] # "new" \/ client[ClientOf[i]] # "open"
          \/ ~OnTopic(i, {"response", "complete"}))

(* A blocking call returns once its answer, or a cancellation of it, is on *)
(* the topic where its reader has yet to come, unless that packet is       *)
(* evicted first.  A cancellation written before the call placed its       *)
(* reader is never read, and ends nothing.                                 *)
BlockingReturns ==
  \A i \in Blocking :
    (op[i] = "b_wait" /\ OnTopicAfter(bpos[i], i, {"response", "cancel"}))
      ~> (op[i] = "returned" \/ ~OnTopic(i, {"response", "cancel"}))

-----------------------------------------------------------------------------
(* What one might expect of a cancellation, and the code does not give:    *)
(* RpcCancel.cfg and RpcCancelledCall.cfg find the schedules.              *)

(* A client never reports its own cancellation as progress: refuted by a   *)
(* cancel whose map_del runs before connect's map_put.                     *)
CancelIsNoProgress ==
  \A i \in Ids : \A k \in 1..Len(calls[i]) : calls[i][k].type # "cancel"

(* A blocking call that was cancelled returns: refuted by a cancel that is *)
(* written before the call has placed its reader.                          *)
CancelReturns ==
  \A i \in Blocking :
    (op[i] = "b_wait" /\ OnTopic(i, {"cancel"})) ~> (op[i] = "returned" \/ ~OnTopic(i, {"cancel"}))
=============================================================================
