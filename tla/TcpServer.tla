----------------------------- MODULE TcpServer -----------------------------
(***************************************************************************)
(* The data side of a stream outlet: the tcp_servers of the IPv4 and the   *)
(* IPv6 stack with their client sessions (tcp_server.cpp), which share one *)
(* send_buffer, and the outlet's life from the first push_sample to the    *)
(* end of its destructor (stream_outlet_impl.cpp).                         *)
(*                                                                         *)
(* Threads: the user's thread, which pushes samples and later destroys the *)
(* outlet; one IO thread per server, which runs the handlers of its        *)
(* sessions one at a time; one transfer thread per session that feeds      *)
(* samples.  Of the clients nothing is assumed: they may be silent, slow   *)
(* or break off at any time.                                               *)
(***************************************************************************)
EXTENDS Naturals, Sequences, FiniteSetsExt

CONSTANTS
  NumServers,     \* the stacks: 1, or 2 for IPv4 and IPv6
  NumSessions,    \* bound: connections to each server
  Setups,         \* how the outlet may be used: [chunkSize |-> chunk_size_,
                  \* 0 for no preference; granularities |-> max-chunk-length in
                  \* the feed requests, likewise; clients |-> bound: the sessions
                  \* that may come; samples |-> bound: samples the user pushes;
                  \* flags |-> the pushthrough flags they may have]
  MaxCapacity     \* max_capacity_ of the send buffer

Servers  == 1 .. NumServers
Sessions == Servers \X (1 .. NumSessions)

UserSamples == Max({u.samples : u \in Setups})

(* Some use pushes the most samples.                                       *)
ASSUME TcpServerAssumption ==
  /\ NumServers \in Nat \ {0}
  /\ NumSessions \in Nat
  /\ \A u \in Setups : /\ u.chunkSize \in Nat /\ u.samples \in Nat
                       /\ u.clients \subseteq Sessions /\ u.granularities \subseteq Nat
                       /\ u.flags \subseteq BOOLEAN
  /\ MaxCapacity \in Nat \ {0}
  /\ UserSamples \in Nat

Srv(s)   == s[1]
Of(k)    == {s \in Sessions : Srv(s) = k}
Samples  == 1 .. UserSamples + NumServers

VARIABLES
  setup,     \* one of Setups, for good
  \* the send buffer, see SendBuffer
  cap, members, queue, taken, since, pushed, todo, serving, full,
  pushing, notifying,
  thru,      \* sample -> its pushthrough flag, shared by all who hold it
  main,      \* the user's thread: <<where, server>>
  forced,    \* history: some IO service was stopped by force
  shutdown,  \* server -> shutdown_
  acceptor,  \* server -> "open", "closing" (posted) or "closed"
  toClose,   \* server -> sockets whose closing is posted to its IO thread
  io,        \* server -> its IO thread: "run", "ended", "stopped", or
             \* "accept" in the middle of handle_accept_outcome
  inflight,  \* the sessions in the servers' inflight_
  op,        \* session -> its pending operation, or what became of it
  open,      \* session -> its socket is open
  tpc,       \* session -> its transfer thread
  gran,      \* session -> chunk_granularity_
  seqn,      \* session -> seqn, modulo the chunk size
  feed,      \* session -> the samples in feedbuf_
  outcome    \* session -> transfer_completed_, transfer_error_

bufferVars == <<cap, members, queue, taken, since, pushed, todo, serving, full,
                pushing, notifying>>
mainVars   == <<setup, main, forced, shutdown>>
ioVars     == <<acceptor, toClose, io, inflight>>
sessVars   == <<op, open, gran>>
feedVars   == <<tpc, seqn, feed, outcome>>
vars       == <<bufferVars, thru, mainVars, ioVars, sessVars, feedVars>>

Buffer == INSTANCE SendBuffer WITH
            Consumers <- Sessions, MaxBuffered <- {MaxCapacity},
            NumSamples <- UserSamples + NumServers, waiter <- "idle"

Init ==
  /\ setup \in Setups
  /\ Buffer!BufferInit
  /\ thru = [n \in Samples |-> FALSE]
  /\ main = <<"live", 1>>
  /\ forced = FALSE
  /\ shutdown = [k \in Servers |-> FALSE]
  /\ acceptor = [k \in Servers |-> "open"]
  /\ toClose = [k \in Servers |-> {}]
  /\ io = [k \in Servers |-> "run"]
  /\ inflight = {}
  /\ op = [s \in Sessions |-> "none"]
  /\ open = [s \in Sessions |-> TRUE]
  /\ gran = [s \in Sessions |-> 0]
  /\ tpc = [s \in Sessions |-> "none"]
  /\ seqn = [s \in Sessions |-> 0]
  /\ feed = [s \in Sessions |-> {}]
  /\ outcome = [s \in Sessions |-> "none"]

-----------------------------------------------------------------------------
(* new_sample(.., flag) and send_buffer_->push_sample, as far as the lock. *)
PushBegin(flag) ==
  /\ Buffer!PushBegin
  /\ thru' = [thru EXCEPT ![pushed + 1] = flag]

(* The rest of a push, by the user or by end_serving.                      *)
PushGoesOn ==
  /\ (\E s \in Sessions : Buffer!Serve(s)) \/ Buffer!PushEnd
  /\ UNCHANGED <<thru, mainVars, ioVars, sessVars, feedVars>>

UserPush ==
  /\ main[1] = "live"
  /\ pushed < setup.samples
  /\ \E flag \in setup.flags : PushBegin(flag)
  /\ UNCHANGED <<mainVars, ioVars, sessVars, feedVars>>

(* ~stream_outlet_impl: end_serving of one server after the other.         *)
Destroy ==
  /\ main[1] = "live" /\ ~pushing
  /\ main' = <<"flag", 1>>
  /\ UNCHANGED <<bufferVars, thru, setup, forced, shutdown, ioVars, sessVars, feedVars>>

(* end_serving: the flag ...                                               *)
SetFlag(k) ==
  /\ main = <<"flag", k>>
  /\ shutdown' = [shutdown EXCEPT ![k] = TRUE]
  /\ main' = <<"close", k>>
  /\ UNCHANGED <<bufferVars, thru, setup, forced, ioVars, sessVars, feedVars>>

(* Fault: the sessions' sockets are left open.                             *)
PostAcceptorOnly(k) ==
  /\ main = <<"close", k>>
  /\ acceptor' = [acceptor EXCEPT ![k] = "closing"]
  /\ main' = <<"ping", k>>
  /\ UNCHANGED <<bufferVars, thru, setup, forced, shutdown, toClose, io, inflight, sessVars,
                 feedVars>>

(* ... the closing of the acceptor and of the sockets in flight is posted  *)
PostCloses(k) ==
  /\ main = <<"close", k>>
  /\ acceptor' = [acceptor EXCEPT ![k] = "closing"]
  /\ toClose' = [toClose EXCEPT ![k] = inflight \cap Of(k)]
  /\ main' = <<"ping", k>>
  /\ UNCHANGED <<bufferVars, thru, setup, forced, shutdown, io, inflight, sessVars, feedVars>>

(* Fault: no ping.                                                         *)
PingNot(k) ==
  /\ main = <<"ping", k>>
  /\ main' = <<"pinged", k>>
  /\ UNCHANGED <<bufferVars, thru, setup, forced, shutdown, ioVars, sessVars, feedVars>>

(* ... and the ping: a sample, flagged, to every consumer.                 *)
Ping(k) ==
  /\ main = <<"ping", k>>
  /\ PushBegin(TRUE)
  /\ main' = <<"pinged", k>>
  /\ UNCHANGED <<setup, forced, shutdown, ioVars, sessVars, feedVars>>

(* The ping is delivered; on to the next server.                           *)
NextServer(k) ==
  /\ main = <<"pinged", k>> /\ ~pushing
  /\ main' = IF k < NumServers THEN <<"flag", k + 1>> ELSE <<"join", 1>>
  /\ UNCHANGED <<bufferVars, thru, setup, forced, shutdown, ioVars, sessVars, feedVars>>

(* The IO threads are joined in turn.                                      *)
Join(k) ==
  /\ main = <<"join", k>>
  /\ io[k] \in {"ended", "stopped"}
  /\ main' = IF k < NumServers THEN <<"join", k + 1>> ELSE <<"done", 1>>
  /\ UNCHANGED <<bufferVars, thru, setup, forced, shutdown, ioVars, sessVars, feedVars>>

Stopped(k) == io[k] \in {"ended", "stopped"}
Working(s) == tpc[s] \notin {"none", "done"}

(* All that server k's IO thread still has to wait for are its clients.    *)
WaitsForClients(k) ==
  /\ io[k] = "run"
  /\ acceptor[k] = "closed" /\ toClose[k] = {}
  /\ \A s \in Of(k) : ~Working(s) /\ (op[s] \in {"read", "header"} => open[s])
  /\ \E s \in Of(k) : op[s] \in {"read", "header"}

(* try_join_for has run out though the machine is idle: ios_[k]->stop().   *)
ForceStop(k) ==
  /\ main = <<"join", k>>
  /\ WaitsForClients(k)
  /\ io' = [io EXCEPT ![k] = "stopped"]
  /\ forced' = TRUE
  /\ UNCHANGED <<bufferVars, thru, setup, main, shutdown, acceptor, toClose, inflight, sessVars,
                 feedVars>>

DestroyStep ==
  \E k \in Servers : \/ SetFlag(k) \/ PostCloses(k) \/ Ping(k)
                     \/ NextServer(k) \/ Join(k) \/ ForceStop(k)

-----------------------------------------------------------------------------
(* A session ends: ~client_session unregisters and closes the socket.      *)
EndSession(s) ==
  /\ op' = [op EXCEPT ![s] = "gone"]
  /\ open' = [open EXCEPT ![s] = FALSE]
  /\ inflight' = inflight \ {s}

(* A client connects: handle_accept_outcome, up to its look at shutdown_.  *)
AcceptCheck(s) ==
  /\ io[Srv(s)] = "run"
  /\ acceptor[Srv(s)] # "closed"
  /\ op[s] = "none" /\ s \in setup.clients
  /\ ~shutdown[Srv(s)]
  /\ io' = [io EXCEPT ![Srv(s)] = "accept"]
  /\ op' = [op EXCEPT ![s] = "accepted"]
  /\ UNCHANGED <<bufferVars, thru, mainVars, acceptor, toClose, inflight, open, gran,
                 feedVars>>

(* Fault: the socket is not registered.                                    *)
BeginUnregistered(s) ==
  /\ op[s] = "accepted"
  /\ op' = [op EXCEPT ![s] = "read"]
  /\ io' = [io EXCEPT ![Srv(s)] = "run"]
  /\ UNCHANGED <<bufferVars, thru, mainVars, acceptor, toClose, inflight, open, gran,
                 feedVars>>

(* begin_processing: the socket is in flight, the request line is read;    *)
(* accept_next_connection.                                                 *)
AcceptBegin(s) ==
  /\ op[s] = "accepted"
  /\ inflight' = inflight \cup {s}
  /\ op' = [op EXCEPT ![s] = "read"]
  /\ io' = [io EXCEPT ![Srv(s)] = "run"]
  /\ UNCHANGED <<bufferVars, thru, mainVars, acceptor, toClose, open, gran, feedVars>>

(* A streamfeed request is read, handle_read_feedparams sends the header.  *)
ReadFeedRequest(s) ==
  /\ io[Srv(s)] = "run"
  /\ op[s] = "read" /\ open[s]
  /\ \E g \in setup.granularities : gran' = [gran EXCEPT ![s] = g]
  /\ op' = [op EXCEPT ![s] = "header"]
  /\ UNCHANGED <<bufferVars, thru, mainVars, ioVars, open, feedVars>>

(* Any other request is answered and ends the session, as does an error:   *)
(* the client breaks off, or the socket has been closed.                   *)
ReadOther(s) ==
  /\ io[Srv(s)] = "run"
  /\ op[s] \in {"read", "header"}
  /\ EndSession(s)
  /\ UNCHANGED <<bufferVars, thru, mainVars, acceptor, toClose, io, gran, feedVars>>

(* handle_send_feedheader_outcome starts the transfer thread, which ends   *)
(* at once if the client asked for no buffer.                              *)
HeaderSent(s) ==
  /\ io[Srv(s)] = "run"
  /\ op[s] = "header" /\ open[s]
  /\ op' = [op EXCEPT ![s] = "feeding"]
  /\ \E first \in {"start", "drop"} : tpc' = [tpc EXCEPT ![s] = first]
  /\ UNCHANGED <<bufferVars, thru, mainVars, ioVars, open, gran, seqn, feed, outcome>>

(* handle_chunk_transfer_outcome                                           *)
ChunkDone(s, result) ==
  /\ io[Srv(s)] = "run"
  /\ op[s] = "write"
  /\ result = "ok" => open[s]
  /\ op' = [op EXCEPT ![s] = "feeding"]
  /\ outcome' = [outcome EXCEPT ![s] = result]
  /\ UNCHANGED <<bufferVars, thru, mainVars, ioVars, open, gran, tpc, seqn, feed>>

CloseAcceptor(k) ==
  /\ io[k] = "run"
  /\ acceptor[k] = "closing"
  /\ acceptor' = [acceptor EXCEPT ![k] = "closed"]
  /\ UNCHANGED <<bufferVars, thru, mainVars, toClose, io, inflight, sessVars, feedVars>>

CloseSocket(s) ==
  /\ io[Srv(s)] = "run"
  /\ s \in toClose[Srv(s)]
  /\ toClose' = [toClose EXCEPT ![Srv(s)] = @ \ {s}]
  /\ open' = [open EXCEPT ![s] = FALSE]
  /\ UNCHANGED <<bufferVars, thru, mainVars, acceptor, io, inflight, op, gran, feedVars>>

(* Fault: a session that feeds holds no work_.                             *)
IoReturnsEarly(k) ==
  /\ io[k] = "run"
  /\ acceptor[k] = "closed" /\ toClose[k] = {}
  /\ \A s \in Of(k) : op[s] \in {"none", "gone", "feeding"}
  /\ io' = [io EXCEPT ![k] = "ended"]
  /\ UNCHANGED <<bufferVars, thru, mainVars, acceptor, toClose, inflight, sessVars,
                 feedVars>>

(* run() returns: no operation is pending and no session holds work_.      *)
IoReturns(k) ==
  /\ io[k] = "run"
  /\ acceptor[k] = "closed" /\ toClose[k] = {}
  /\ \A s \in Of(k) : op[s] \in {"none", "gone"}
  /\ io' = [io EXCEPT ![k] = "ended"]
  /\ UNCHANGED <<bufferVars, thru, mainVars, acceptor, toClose, inflight, sessVars,
                 feedVars>>

(* What the IO threads do by themselves, whatever the clients do.          *)
IoStep ==
  \/ \E k \in Servers : CloseAcceptor(k) \/ IoReturns(k)
  \/ \E s \in Sessions : \/ AcceptBegin(s) \/ CloseSocket(s)
                         \/ ~open[s] /\ (ReadOther(s) \/ ChunkDone(s, "error"))

ClientStep ==
  \E s \in Sessions : \/ AcceptCheck(s) \/ ReadFeedRequest(s) \/ ReadOther(s)
                      \/ HeaderSent(s) \/ ChunkDone(s, "ok") \/ ChunkDone(s, "error")

-----------------------------------------------------------------------------
(* transfer_samples_thread                                                 *)
GoesTo(s, where) == tpc' = [tpc EXCEPT ![s] = where]

(* The consumer queue is made before shutdown_ is looked at.               *)
MakeQueue(s) ==
  /\ tpc[s] = "start"
  /\ Buffer!Register(s, MaxCapacity)
  /\ GoesTo(s, "made")
  /\ UNCHANGED <<thru, mainVars, ioVars, sessVars, seqn, feed, outcome>>

QueueMade(s) ==
  /\ tpc[s] = "made"
  /\ Buffer!Notify(s)
  /\ GoesTo(s, "check")
  /\ UNCHANGED <<thru, mainVars, ioVars, sessVars, seqn, feed, outcome>>

(* while (!serv_->shutdown_)                                               *)
CheckShutdown(s) ==
  /\ tpc[s] = "check"
  /\ GoesTo(s, IF shutdown[Srv(s)] THEN "leave" ELSE "pop")
  /\ UNCHANGED <<bufferVars, thru, mainVars, ioVars, sessVars, seqn, feed, outcome>>

PopSample(s) ==
  /\ tpc[s] = "pop"
  /\ Buffer!Take(s)
  /\ GoesTo(s, "save")
  /\ UNCHANGED <<thru, mainVars, ioVars, sessVars, seqn, feed, outcome>>

(* Fault: the sender's chunk size comes before the receiver's.             *)
ChunkingSwapped(s) == IF setup.chunkSize # 0 THEN setup.chunkSize ELSE gran[s]

(* The chunk size that overrides the pushthrough flag, 0 if none.          *)
Chunking(s) == IF gran[s] # 0 THEN gran[s] ELSE setup.chunkSize

(* shutdown_ once more; the flag of the sample is overridden, the sample   *)
(* goes into feedbuf_.                                                     *)
SaveSample(s) ==
  /\ tpc[s] = "save"
  /\ IF shutdown[Srv(s)]
     THEN GoesTo(s, "leave") /\ UNCHANGED <<thru, seqn, feed>>
     ELSE /\ IF Chunking(s) = 0 THEN UNCHANGED <<thru, seqn>>
             ELSE /\ seqn' = [seqn EXCEPT ![s] = (@ + 1) % Chunking(s)]
                  /\ thru' = [thru EXCEPT ![taken[s]] = (seqn'[s] = 0)]
          /\ feed' = [feed EXCEPT ![s] = @ \cup {taken[s]}]
          /\ GoesTo(s, "ship")
  /\ UNCHANGED <<bufferVars, mainVars, ioVars, sessVars, outcome>>

(* if (samp->pushthrough) async_write                                      *)
ShipChunk(s) ==
  /\ tpc[s] = "ship"
  /\ IF thru[taken[s]]
     THEN GoesTo(s, "wait") /\ op' = [op EXCEPT ![s] = "write"]
     ELSE GoesTo(s, "check") /\ UNCHANGED op
  /\ UNCHANGED <<bufferVars, thru, mainVars, ioVars, open, gran, seqn, feed, outcome>>

(* completion_cond_: consume what was sent, or leave the loop.             *)
ChunkShipped(s) ==
  /\ tpc[s] = "wait"
  /\ outcome[s] # "none"
  /\ outcome' = [outcome EXCEPT ![s] = "none"]
  /\ IF outcome[s] = "ok"
     THEN GoesTo(s, "check") /\ feed' = [feed EXCEPT ![s] = {}]
     ELSE GoesTo(s, "leave") /\ UNCHANGED feed
  /\ UNCHANGED <<bufferVars, thru, mainVars, ioVars, sessVars, seqn>>

(* The queue is destroyed, then the thread's reference to the session.     *)
LeaveQueue(s) ==
  /\ tpc[s] = "leave"
  /\ Buffer!Unregister(s)
  /\ GoesTo(s, "drop")
  /\ UNCHANGED <<thru, mainVars, ioVars, sessVars, seqn, feed, outcome>>

DropSession(s) ==
  /\ tpc[s] = "drop"
  /\ EndSession(s)
  /\ GoesTo(s, "done")
  /\ UNCHANGED <<bufferVars, thru, mainVars, acceptor, toClose, io, gran, seqn, feed,
                 outcome>>

TransferStep(s) ==
  \/ MakeQueue(s) \/ QueueMade(s) \/ CheckShutdown(s) \/ PopSample(s) \/ SaveSample(s)
  \/ ShipChunk(s) \/ ChunkShipped(s) \/ LeaveQueue(s) \/ DropSession(s)

-----------------------------------------------------------------------------
Next ==
  \/ UserPush \/ PushGoesOn \/ Destroy \/ DestroyStep
  \/ IoStep \/ ClientStep
  \/ \E s \in Sessions : TransferStep(s)

Spec == Init /\ [][Next]_vars

(* All threads of the outlet run; the clients and the user may do nothing. *)
FairSpec ==
  /\ Spec
  /\ WF_vars(PushGoesOn)
  /\ WF_vars(DestroyStep)
  /\ \A k \in Servers :
       WF_vars(IoStep /\ \/ io'[k] # io[k] \/ acceptor'[k] # acceptor[k]
                         \/ toClose'[k] # toClose[k])
  /\ \A s \in Sessions :
       /\ WF_vars(IoStep /\ (op'[s] # op[s] \/ outcome'[s] # outcome[s]))
       /\ WF_vars(TransferStep(s))

-----------------------------------------------------------------------------
TypeOK ==
  /\ setup \in Setups
  /\ thru \in [Samples -> BOOLEAN]
  /\ main \in {"live", "flag", "close", "ping", "pinged", "join", "done"} \X Servers
  /\ forced \in BOOLEAN
  /\ shutdown \in [Servers -> BOOLEAN]
  /\ acceptor \in [Servers -> {"open", "closing", "closed"}]
  /\ \A k \in Servers : toClose[k] \subseteq Of(k)
  /\ io \in [Servers -> {"run", "accept", "ended", "stopped"}]
  /\ inflight \in SUBSET Sessions
  /\ op \in [Sessions -> {"none", "accepted", "read", "header", "feeding", "write", "gone"}]
  /\ open \in [Sessions -> BOOLEAN]
  /\ gran \in [Sessions -> setup.granularities \cup {0}]
  /\ tpc \in [Sessions -> {"none", "start", "made", "check", "pop", "save", "ship", "wait",
                           "leave", "drop", "done"}]
  /\ seqn \in [Sessions -> Nat]
  /\ feed \in [Sessions -> SUBSET Samples]
  /\ outcome \in [Sessions -> {"none", "ok", "error"}]

(* The queue a transfer thread pops exists as long as the thread may pop   *)
(* it, and no longer; the session outlives its thread (tcp_server.cpp:     *)
(* 138-153, 370-418).                                                      *)
ThreadHoldsItsSession ==
  \A s \in Sessions :
    /\ s \in members <=> tpc[s] \in {"made", "check", "pop", "save", "ship", "wait", "leave"}
    /\ Working(s) => op[s] \in {"feeding", "write"} /\ s \in inflight

(* The receiver's chunk size, or else the sender's, determines the chunks: *)
(* what is sent off is always that many samples (tcp_server.cpp:387-396).  *)
(* Needs a single session: the flag is shared.                             *)
ChunksAsAsked ==
  \A s \in setup.clients : op[s] = "write" /\ outcome[s] = "none" /\ setup.clients = {s} =>
    LET size == IF gran[s] # 0 THEN gran[s] ELSE setup.chunkSize
    IN  size # 0 => Cardinality(feed[s]) = size

(* Nothing is left of the sessions when the IO threads have ended by       *)
(* themselves (tcp_server.cpp:68-77).                                      *)
NothingLeft ==
  main[1] = "done" /\ ~forced =>
    inflight = {} /\ members = {} /\ \A s \in Sessions : op[s] \in {"none", "gone"}

(* The destructor returns, whatever the clients do (stream_outlet_impl.cpp: *)
(* 92-119).                                                                *)
DestructorReturns == main[1] = "flag" ~> main[1] = "done"

(* Every transfer thread ends once the outlet is destroyed: none sleeps on *)
(* in pop_sample, or waits for a client (tcp_server.cpp:68-77, 378-383).   *)
TransfersEnd == main[1] = "flag" ~> \A s \in Sessions : ~Working(s)
=============================================================================
