----------------------------- MODULE UdpServer -----------------------------
(***************************************************************************)
(* The UDP side of stream outlets (udp_server.cpp): each host receives a   *)
(* query, answers it if its stream matches, and asks for the next packet.  *)
(* Its IO thread runs one handler at a time; end_serving posts the close   *)
(* of the socket to it.                                                    *)
(*                                                                         *)
(* The network loses, delays, duplicates and reorders: a packet stays in   *)
(* it, and may be delivered at any later time, again, or never.            *)
(***************************************************************************)
EXTENDS Naturals, Sequences, FiniteSets

CONSTANTS
  Matches,  \* host -> the queries its stream matches
  Queries,
  Ports,    \* the port range: what a resolve attempt may be bound to
  Others    \* queries of other resolvers on the network

Hosts == DOMAIN Matches

ASSUME UdpServerAssumption ==
  /\ Queries # {}
  /\ \A h \in Hosts : Matches[h] \subseteq Queries
  /\ Others \subseteq [query : Queries, port : Nat \ Ports]

VARIABLES
  requests,  \* queries on the network: [query, port]; multicast, to every host
  replies,   \* answers on the network: [host, id, port]
  packet,    \* host -> the query in buffer_
  sop,       \* host -> its operation: "receive" or "send" pending; "got" or "sent"
             \* completed, "aborted" by the close, or "bad" on a closed socket,
             \* with the handler yet to run; then "end"
  socket     \* host -> "open", "closing" (posted) or "closed"

hostVars == <<packet, sop, socket>>
udpVars  == <<requests, replies, hostVars>>

(* Port 0 stands in the query of a socket that is not bound.               *)
Query == [query : Queries, port : Ports \cup {0}] \cup Others
NoPacket == CHOOSE r \in Query : TRUE

(* begin_serving: the first packet is asked for.                           *)
UdpInit ==
  /\ requests = Others /\ replies = {}
  /\ packet = [h \in Hosts |-> NoPacket]
  /\ sop = [h \in Hosts |-> "receive"]
  /\ socket = [h \in Hosts |-> "open"]

(* A packet arrives.                                                       *)
HostReceive(h, r) ==
  /\ sop[h] = "receive" /\ r \in requests
  /\ packet' = [packet EXCEPT ![h] = r]
  /\ sop' = [sop EXCEPT ![h] = "got"]
  /\ UNCHANGED <<requests, replies, socket>>

(* An operation begun on a closed socket completes with bad_descriptor.    *)
BeginOp(h, kind) == sop' = [sop EXCEPT ![h] = IF socket[h] = "closed" THEN "bad" ELSE kind]

(* The answer, a packet to the port in the query.  The send fails on a     *)
(* closed socket, and to port 0.                                           *)
Answered(h) ==
  IF socket[h] = "closed" \/ packet[h].port = 0 THEN replies
  ELSE replies \cup {[host |-> h, id |-> packet[h].query, port |-> packet[h].port]}

(* Fault: a query that does not match is the last one.                     *)
HostHandleLast(h) ==
  /\ sop[h] = "got"
  /\ IF packet[h].query \in Matches[h]
     THEN BeginOp(h, "send") /\ replies' = Answered(h)
     ELSE sop' = [sop EXCEPT ![h] = "end"] /\ UNCHANGED replies
  /\ packet' = [packet EXCEPT ![h] = NoPacket]
  /\ UNCHANGED <<requests, socket>>

(* handle_receive_outcome: answer, or ask for the next packet.             *)
HostHandle(h) ==
  /\ sop[h] = "got"
  /\ IF packet[h].query \in Matches[h]
     THEN BeginOp(h, "send") /\ replies' = Answered(h)
     ELSE BeginOp(h, "receive") /\ UNCHANGED replies
  /\ packet' = [packet EXCEPT ![h] = NoPacket]
  /\ UNCHANGED <<requests, socket>>

HostSent(h) ==
  /\ sop[h] = "send"
  /\ sop' = [sop EXCEPT ![h] = "sent"]
  /\ UNCHANGED <<requests, replies, packet, socket>>

(* handle_send_outcome: ask for the next packet, also when the send failed.*)
HostNext(h) ==
  /\ sop[h] = "sent"
  /\ BeginOp(h, "receive")
  /\ UNCHANGED <<requests, replies, packet, socket>>

(* The handlers stop at operation_aborted; at bad_descriptor they ask for  *)
(* the next packet, which fails in the same way: the state stays.          *)
HostAborted(h) ==
  /\ sop[h] = "aborted"
  /\ sop' = [sop EXCEPT ![h] = "end"]
  /\ UNCHANGED <<requests, replies, packet, socket>>

(* end_serving                                                             *)
EndServing(h) ==
  /\ socket[h] = "open"
  /\ socket' = [socket EXCEPT ![h] = "closing"]
  /\ UNCHANGED <<requests, replies, packet, sop>>

(* The posted close_if_open: a pending operation is aborted, a completed   *)
(* one is not.                                                             *)
CloseSocket(h) ==
  /\ socket[h] = "closing"
  /\ socket' = [socket EXCEPT ![h] = "closed"]
  /\ sop' = [sop EXCEPT ![h] = IF @ \in {"receive", "send"} THEN "aborted" ELSE @]
  /\ UNCHANGED <<requests, replies, packet>>

Host(h) == HostHandle(h) \/ HostSent(h) \/ HostNext(h) \/ HostAborted(h) \/ CloseSocket(h)

UdpServerNext ==
  \E h \in Hosts : (\E r \in requests : HostReceive(h, r)) \/ Host(h) \/ EndServing(h)

UdpTypeOK ==
  /\ requests \subseteq Query
  /\ \A m \in replies : m.host \in Hosts /\ [query |-> m.id, port |-> m.port] \in Query
  /\ packet \in [Hosts -> Query]
  /\ sop \in [Hosts -> {"receive", "send", "got", "sent", "aborted", "bad", "end"}]
  /\ socket \in [Hosts -> {"open", "closing", "closed"}]
=============================================================================
