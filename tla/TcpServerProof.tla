--------------------------- MODULE TcpServerProof ---------------------------
(***************************************************************************)
(* Proofs about TcpServer, for any number of servers, sessions and samples *)
(* and any use of the outlet: a transfer thread never runs without its     *)
(* session and its queue, nothing is left when the destructor has joined   *)
(* IO threads that ended by themselves, and a single client gets chunks of *)
(* the size that was asked for.                                            *)
(*                                                                         *)
(* The first inductive invariant, IInv, relates, per session, the pending  *)
(* operation to the transfer thread and to the sockets in flight, and, per *)
(* server, the IO thread to what its sessions still do.  The steps of the  *)
(* server on the send buffer are steps of SendBuffer, so what              *)
(* SendBufferProof shows holds here (BufferInv): a thread takes samples    *)
(* with growing numbers, and none that was not pushed.  Hence a sample is  *)
(* new in feedbuf_ (FeedInv) and seqn counts what is there (ChunkInv).     *)
(***************************************************************************)
EXTENDS TcpServer, FiniteSetTheorems, TLAPS

Ops  == {"none", "accepted", "read", "header", "feeding", "write", "gone"}
Live == {"read", "header", "feeding", "write"}
Pcs  == {"none", "start", "made", "check", "pop", "save", "ship", "wait", "leave", "drop",
         "done"}

Typed ==
  /\ members \in SUBSET Sessions
  /\ op \in [Sessions -> Ops]
  /\ tpc \in [Sessions -> Pcs]
  /\ inflight \in SUBSET Sessions
  /\ io \in [Servers -> {"run", "accept", "ended", "stopped"}]
  /\ main \in {"live", "flag", "close", "ping", "pinged", "join", "done"} \X Servers
  /\ forced \in BOOLEAN

(* A session that does not feed yet has no transfer thread.                *)
ThreadComesLast ==
  \A s \in Sessions : op[s] \in {"none", "accepted", "read", "header"} => tpc[s] = "none"

(* The sockets in flight are those of the sessions that are alive.         *)
InflightIsLive == inflight = {s \in Sessions : op[s] \in Live}

(* One connection at a time is between its accept and begin_processing.    *)
AcceptsOne ==
  /\ \A s \in Sessions : op[s] = "accepted" => io[Srv(s)] = "accept"
  /\ \A s, r \in Sessions : op[s] = "accepted" /\ op[r] = "accepted" /\ Srv(s) = Srv(r) => s = r

(* An IO thread that has ended by itself left no session behind.           *)
EndedIsEmpty ==
  \A s \in Sessions : io[Srv(s)] = "ended" => op[s] \in {"none", "gone"}

(* The destructor is past the IO threads it has joined.                    *)
JoinedStopped ==
  \A k \in Servers : main[1] = "done" \/ (main[1] = "join" /\ k < main[2]) => Stopped(k)

ForcedIsSeen == \A k \in Servers : io[k] = "stopped" => forced

SessionsInv == Typed /\ ThreadHoldsItsSession /\ ThreadComesLast /\ InflightIsLive

ServersInv == AcceptsOne /\ EndedIsEmpty /\ JoinedStopped /\ ForcedIsSeen

IInv == SessionsInv /\ ServersInv

(* What the invariant looks at.                                            *)
watched == <<members, op, tpc, inflight, io, main, forced>>

LEMMA SrvType == \A s \in Sessions : Srv(s) \in Servers
BY DEF Sessions, Srv

LEMMA ServersInit == Init => IInv
<1> SUFFICES ASSUME Init PROVE IInv
  OBVIOUS
<1>1. Typed
  <2>1. main \in {"live", "flag", "close", "ping", "pinged", "join", "done"} \X Servers
    BY TcpServerAssumption DEF Init, Servers
  <2>2. QED
    BY <2>1 DEF Init, Buffer!BufferInit, Typed, Ops, Pcs
<1>2. ThreadHoldsItsSession /\ ThreadComesLast /\ InflightIsLive
  BY DEF Init, Buffer!BufferInit, ThreadHoldsItsSession, Working, ThreadComesLast,
         InflightIsLive, Live
<1>3. ServersInv
  BY SrvType
     DEF Init, ServersInv, AcceptsOne, EndedIsEmpty, JoinedStopped, ForcedIsSeen
<1>4. QED
  BY <1>1, <1>2, <1>3 DEF IInv, SessionsInv

LEMMA WatchedSame == ASSUME IInv, UNCHANGED watched PROVE IInv'
BY DEF watched, IInv, SessionsInv, ServersInv, Typed, ThreadHoldsItsSession, Working,
       ThreadComesLast, InflightIsLive, AcceptsOne, EndedIsEmpty, JoinedStopped, Stopped,
       ForcedIsSeen

(* A step of the user's thread that leaves the sessions alone.             *)
LEMMA MainMoves ==
  ASSUME IInv, UNCHANGED <<members, op, tpc, inflight, io, forced>>,
         main' \in {"live", "flag", "close", "ping", "pinged", "join", "done"} \X Servers,
         JoinedStopped'
  PROVE  IInv'
BY DEF IInv, SessionsInv, ServersInv, Typed, ThreadHoldsItsSession, Working, ThreadComesLast,
       InflightIsLive, AcceptsOne, EndedIsEmpty, ForcedIsSeen

LEMMA DestroyKeeps ==
  ASSUME IInv, NEW k \in Servers,
         Destroy \/ SetFlag(k) \/ PostCloses(k) \/ Ping(k) \/ NextServer(k) \/ Join(k)
  PROVE  IInv'
<1>0. Servers = 1 .. NumServers /\ NumServers \in Nat \ {0} /\ k \in Nat
  BY TcpServerAssumption DEF Servers
<1>1. CASE Destroy
  BY <1>0, <1>1, MainMoves
     DEF Destroy, bufferVars, ioVars, sessVars, feedVars, JoinedStopped, Servers
<1>2. CASE SetFlag(k)
  BY <1>0, <1>2, MainMoves
     DEF SetFlag, bufferVars, ioVars, sessVars, feedVars, JoinedStopped
<1>3. CASE PostCloses(k)
  BY <1>0, <1>3, MainMoves
     DEF PostCloses, bufferVars, sessVars, feedVars, JoinedStopped
<1>4. CASE Ping(k)
  BY <1>0, <1>4, MainMoves
     DEF Ping, PushBegin, Buffer!PushBegin, ioVars, sessVars, feedVars, JoinedStopped
<1>5. CASE NextServer(k)
  <2>1. /\ main' \in {<<"flag", k + 1>>, <<"join", 1>>}
        /\ main' = <<"flag", k + 1>> => k + 1 \in Servers
    BY <1>0, <1>5 DEF NextServer
  <2>2. JoinedStopped'
    BY <1>0, <2>1 DEF JoinedStopped
  <2>3. QED
    BY <1>0, <1>5, <2>1, <2>2, MainMoves
       DEF NextServer, bufferVars, ioVars, sessVars, feedVars
<1>6. CASE Join(k)
  <2>1. \A j \in Servers : j <= k => Stopped(j)
    BY <1>0, <1>6 DEF Join, IInv, ServersInv, JoinedStopped, Stopped
  <2>2. Stopped(k) /\ io' = io
    BY <1>6, <2>1, <1>0 DEF Join, ioVars
  <2>3. JoinedStopped'
    BY <1>0, <1>6, <2>1, <2>2 DEF Join, JoinedStopped, Stopped
  <2>4. main' \in {"live", "flag", "close", "ping", "pinged", "join", "done"} \X Servers
    BY <1>0, <1>6 DEF Join
  <2>5. QED
    BY <1>6, <2>3, <2>4, MainMoves DEF Join, bufferVars, ioVars, sessVars, feedVars
<1>7. QED
  BY <1>1, <1>2, <1>3, <1>4, <1>5, <1>6

(* A step that changes only the state of one IO thread, from running to    *)
(* its end.                                                                *)
LEMMA IoEnds ==
  ASSUME IInv, NEW k \in Servers, NEW how \in {"ended", "stopped"}, io[k] = "run",
         io' = [io EXCEPT ![k] = how],
         UNCHANGED <<members, op, tpc, inflight, main>>, forced' \in BOOLEAN,
         forced => forced', how = "stopped" => forced',
         how = "ended" => \A s \in Of(k) : op[s] \in {"none", "gone"}
  PROVE  IInv'
<1> USE DEF IInv, SessionsInv, ServersInv, Typed
<1>1. Typed'
  OBVIOUS
<1>2. ThreadHoldsItsSession' /\ ThreadComesLast' /\ InflightIsLive'
  BY DEF ThreadHoldsItsSession, Working, ThreadComesLast, InflightIsLive
<1>3. AcceptsOne'
  BY SrvType DEF AcceptsOne
<1>4. EndedIsEmpty'
  BY SrvType DEF EndedIsEmpty, Of
<1>5. JoinedStopped'
  BY DEF JoinedStopped, Stopped
<1>6. ForcedIsSeen'
  BY DEF ForcedIsSeen
<1>7. QED
  BY <1>1, <1>2, <1>3, <1>4, <1>5, <1>6

LEMMA IoReturnsKeeps ==
  ASSUME IInv, NEW k \in Servers, IoReturns(k) \/ ForceStop(k)
  PROVE  IInv'
<1>1. CASE IoReturns(k)
  BY <1>1, IoEnds, Zenon
     DEF IoReturns, bufferVars, mainVars, sessVars, feedVars, IInv, SessionsInv, Typed
<1>2. CASE ForceStop(k)
  BY <1>2, IoEnds, Zenon
     DEF ForceStop, WaitsForClients, bufferVars, sessVars, feedVars, IInv, SessionsInv, Typed
<1>3. QED
  BY <1>1, <1>2

(* A step of one session of a server whose IO thread runs, or of its       *)
(* transfer thread: its own part of the invariant is all there is to show. *)
LEMMA SessionMoves ==
  ASSUME IInv, NEW s \in Sessions, NEW o \in Ops, NEW p \in Pcs,
         op' = [op EXCEPT ![s] = o], tpc' = [tpc EXCEPT ![s] = p],
         UNCHANGED <<main, forced>>,
         io' \in [Servers -> {"run", "accept", "ended", "stopped"}],
         members' \in SUBSET Sessions, inflight' \in SUBSET Sessions,
         \A r \in Sessions \ {s} : r \in members' <=> r \in members,
         \A r \in Sessions \ {s} : r \in inflight' <=> r \in inflight,
         s \in inflight' <=> o \in Live,
         s \in members' <=> p \in {"made", "check", "pop", "save", "ship", "wait", "leave"},
         p \notin {"none", "done"} => o \in {"feeding", "write"},
         o \in {"none", "accepted", "read", "header"} => p = "none"
  PROVE  SessionsInv'
<1> USE DEF IInv, SessionsInv, Typed
<1>1. /\ op' \in [Sessions -> Ops] /\ tpc' \in [Sessions -> Pcs]
      /\ op'[s] = o /\ tpc'[s] = p
      /\ \A r \in Sessions \ {s} : op'[r] = op[r] /\ tpc'[r] = tpc[r]
  OBVIOUS
<1>2. ThreadHoldsItsSession'
  BY <1>1 DEF ThreadHoldsItsSession, Working, Live
<1>3. ThreadComesLast'
  BY <1>1 DEF ThreadComesLast
<1>4. InflightIsLive'
  BY <1>1 DEF InflightIsLive
<1>5. QED
  BY <1>1, <1>2, <1>3, <1>4

(* ... unless it goes on on an IO thread that has ended.                   *)
LEMMA ServersKeep ==
  ASSUME IInv, NEW s \in Sessions, NEW o \in Ops, op' = [op EXCEPT ![s] = o],
         o # "accepted", UNCHANGED <<io, main, forced>>,
         io[Srv(s)] = "ended" => o \in {"none", "gone"}
  PROVE  ServersInv'
<1> USE DEF IInv, SessionsInv, ServersInv, Typed
<1>1. op'[s] = o /\ \A r \in Sessions \ {s} : op'[r] = op[r]
  OBVIOUS
<1>2. AcceptsOne' /\ EndedIsEmpty'
  BY <1>1 DEF AcceptsOne, EndedIsEmpty
<1>3. JoinedStopped' /\ ForcedIsSeen'
  BY DEF JoinedStopped, Stopped, ForcedIsSeen
<1>4. QED
  BY <1>2, <1>3

LEMMA AcceptKeeps ==
  ASSUME IInv, NEW s \in Sessions, AcceptCheck(s) \/ AcceptBegin(s)
  PROVE  IInv'
<1> USE DEF IInv, SessionsInv, ServersInv, Typed
<1>1. Srv(s) \in Servers
  BY SrvType
<1>2. CASE AcceptCheck(s)
  <2>1. /\ op[s] = "none" /\ tpc[s] = "none" /\ io[Srv(s)] = "run"
        /\ op' = [op EXCEPT ![s] = "accepted"] /\ io' = [io EXCEPT ![Srv(s)] = "accept"]
        /\ UNCHANGED <<members, tpc, inflight, main, forced>>
    BY <1>2 DEF AcceptCheck, bufferVars, mainVars, feedVars, ThreadComesLast
  <2>2. SessionsInv'
    <3>1. tpc' = [tpc EXCEPT ![s] = "none"]
      BY <2>1
    <3>2. s \notin inflight /\ s \notin members
      BY <2>1 DEF InflightIsLive, Live, ThreadHoldsItsSession
    <3>3. io' \in [Servers -> {"run", "accept", "ended", "stopped"}]
      BY <1>1, <2>1
    <3>4. QED
      BY <2>1, <3>1, <3>2, <3>3, SessionMoves DEF Ops, Pcs, Live
  <2>3. AcceptsOne'
    BY <1>1, <2>1, SrvType DEF AcceptsOne
  <2>4. EndedIsEmpty' /\ JoinedStopped' /\ ForcedIsSeen'
    BY <1>1, <2>1, SrvType DEF EndedIsEmpty, JoinedStopped, Stopped, ForcedIsSeen
  <2>5. QED
    BY <2>2, <2>3, <2>4
<1>3. CASE AcceptBegin(s)
  <2>1. /\ op[s] = "accepted" /\ tpc[s] = "none" /\ io[Srv(s)] = "accept"
        /\ op' = [op EXCEPT ![s] = "read"] /\ io' = [io EXCEPT ![Srv(s)] = "run"]
        /\ inflight' = inflight \cup {s}
        /\ UNCHANGED <<members, tpc, main, forced>>
    BY <1>3 DEF AcceptBegin, bufferVars, mainVars, feedVars, ThreadComesLast, AcceptsOne
  <2>2. SessionsInv'
    <3>1. tpc' = [tpc EXCEPT ![s] = "none"]
      BY <2>1
    <3>2. s \notin members
      BY <2>1 DEF ThreadHoldsItsSession
    <3>3. io' \in [Servers -> {"run", "accept", "ended", "stopped"}]
      BY <1>1, <2>1
    <3>4. QED
      BY <2>1, <3>1, <3>2, <3>3, SessionMoves DEF Ops, Pcs, Live
  <2>3. AcceptsOne'
    BY <1>1, <2>1, SrvType DEF AcceptsOne
  <2>4. EndedIsEmpty' /\ JoinedStopped' /\ ForcedIsSeen'
    BY <1>1, <2>1, SrvType DEF EndedIsEmpty, JoinedStopped, Stopped, ForcedIsSeen
  <2>5. QED
    BY <2>2, <2>3, <2>4
<1>4. QED
  BY <1>2, <1>3

(* The rest of what the clients bring about.                               *)
LEMMA ClientKeeps ==
  ASSUME IInv, NEW s \in Sessions,
         \/ ReadFeedRequest(s) \/ ReadOther(s) \/ HeaderSent(s)
         \/ \E result \in {"ok", "error"} : ChunkDone(s, result)
  PROVE  IInv'
<1> USE DEF IInv, SessionsInv, ServersInv, Typed
<1>1. io[Srv(s)] = "run" /\ UNCHANGED <<members, io, main, forced>>
  BY DEF ReadFeedRequest, ReadOther, HeaderSent, ChunkDone, bufferVars, mainVars, ioVars
<1>2. PICK o \in Ops, p \in Pcs :
        /\ op' = [op EXCEPT ![s] = o] /\ tpc' = [tpc EXCEPT ![s] = p]
        /\ o # "accepted"
        /\ inflight' = IF o \in Live THEN inflight ELSE inflight \ {s}
        /\ op[s] \in Live
        /\ p = tpc[s] \/ (tpc[s] = "none" /\ p \in {"start", "drop"})
        /\ p \notin {"none", "done"} => o \in {"feeding", "write"}
        /\ o \in {"none", "accepted", "read", "header"} => p = "none"
  <2>1. CASE ReadFeedRequest(s)
    <3>1. /\ op' = [op EXCEPT ![s] = "header"] /\ tpc' = [tpc EXCEPT ![s] = "none"]
          /\ inflight' = inflight /\ op[s] = "read" /\ tpc[s] = "none"
      BY <2>1 DEF ReadFeedRequest, ioVars, feedVars, ThreadComesLast
    <3>2. QED
      BY <3>1 DEF Ops, Pcs, Live
  <2>2. CASE ReadOther(s)
    <3>1. /\ op' = [op EXCEPT ![s] = "gone"] /\ tpc' = [tpc EXCEPT ![s] = "none"]
          /\ inflight' = inflight \ {s} /\ op[s] \in {"read", "header"} /\ tpc[s] = "none"
      BY <2>2 DEF ReadOther, EndSession, feedVars, ThreadComesLast
    <3>2. QED
      BY <3>1 DEF Ops, Pcs, Live
  <2>3. CASE HeaderSent(s)
    <3>1. PICK first \in {"start", "drop"} : tpc' = [tpc EXCEPT ![s] = first]
      BY <2>3 DEF HeaderSent
    <3>2. /\ op' = [op EXCEPT ![s] = "feeding"]
          /\ inflight' = inflight /\ op[s] = "header" /\ tpc[s] = "none"
      BY <2>3 DEF HeaderSent, ioVars, ThreadComesLast
    <3>3. QED
      BY <3>1, <3>2 DEF Ops, Pcs, Live
  <2>4. CASE \E result \in {"ok", "error"} : ChunkDone(s, result)
    <3>1. /\ op' = [op EXCEPT ![s] = "feeding"] /\ tpc' = [tpc EXCEPT ![s] = tpc[s]]
          /\ inflight' = inflight /\ op[s] = "write" /\ tpc[s] \in Pcs
      BY <2>4 DEF ChunkDone, ioVars
    <3>2. QED
      BY <3>1 DEF Ops, Live
  <2>5. QED
    BY <2>1, <2>2, <2>3, <2>4
<1>3. s \in inflight /\ (s \in members <=>
        tpc[s] \in {"made", "check", "pop", "save", "ship", "wait", "leave"})
  BY <1>2 DEF InflightIsLive, ThreadHoldsItsSession
<1>4. SessionsInv'
  BY <1>1, <1>2, <1>3, SessionMoves
<1>5. ServersInv'
  BY <1>1, <1>2, ServersKeep
<1>6. QED
  BY <1>4, <1>5

LEMMA TransferKeeps ==
  ASSUME IInv, NEW s \in Sessions, TransferStep(s)
  PROVE  IInv'
<1> USE DEF IInv, SessionsInv, ServersInv, Typed
<1>1. /\ tpc[s] \notin {"none", "done"} /\ UNCHANGED <<io, main, forced>>
  BY DEF TransferStep, MakeQueue, QueueMade, CheckShutdown, PopSample, SaveSample, ShipChunk,
         ChunkShipped, LeaveQueue, DropSession, GoesTo, mainVars, ioVars
<1>2. op[s] \in {"feeding", "write"} /\ s \in inflight /\ (s \in members <=>
        tpc[s] \in {"made", "check", "pop", "save", "ship", "wait", "leave"})
  BY <1>1 DEF ThreadHoldsItsSession, Working
<1>3. PICK o \in Ops, p \in Pcs :
        /\ op' = [op EXCEPT ![s] = o] /\ tpc' = [tpc EXCEPT ![s] = p]
        /\ p # "none" /\ o \in {"feeding", "write", "gone"} /\ (p = "done" <=> o = "gone")
        /\ inflight' = IF o = "gone" THEN inflight \ {s} ELSE inflight
        /\ members' = IF p \in {"made", "check", "pop", "save", "ship", "wait", "leave"}
                      THEN members \cup {s} ELSE members \ {s}
  <2>1. CASE MakeQueue(s)
    <3>1. /\ tpc' = [tpc EXCEPT ![s] = "made"] /\ op' = [op EXCEPT ![s] = op[s]]
          /\ inflight' = inflight /\ members' = members \cup {s}
      BY <2>1 DEF MakeQueue, Buffer!Register, GoesTo, ioVars, sessVars
    <3>2. QED
      BY <1>2, <3>1 DEF Ops, Pcs
  <2>2. CASE QueueMade(s) \/ CheckShutdown(s) \/ PopSample(s) \/ SaveSample(s) \/ ChunkShipped(s)
    <3>1. \E p \in {"check", "leave", "pop", "save", "ship"} : tpc' = [tpc EXCEPT ![s] = p]
      BY <2>2 DEF QueueMade, CheckShutdown, PopSample, SaveSample, ChunkShipped, GoesTo
    <3>2. /\ op' = [op EXCEPT ![s] = op[s]] /\ inflight' = inflight /\ members' = members
          /\ tpc[s] \in {"made", "check", "pop", "save", "wait"}
      BY <2>2 DEF QueueMade, CheckShutdown, PopSample, SaveSample, ChunkShipped,
                  Buffer!Notify, Buffer!Take, ioVars, sessVars, bufferVars
    <3>3. members' = members \cup {s}
      BY <1>2, <3>2
    <3>4. QED
      BY <1>2, <3>1, <3>2, <3>3 DEF Ops, Pcs
  <2>3. CASE ShipChunk(s)
    <3>1. \/ tpc' = [tpc EXCEPT ![s] = "wait"] /\ op' = [op EXCEPT ![s] = "write"]
          \/ tpc' = [tpc EXCEPT ![s] = "check"] /\ op' = [op EXCEPT ![s] = op[s]]
      BY <2>3 DEF ShipChunk, GoesTo
    <3>2. tpc[s] = "ship" /\ inflight' = inflight /\ members' = members
      BY <2>3 DEF ShipChunk, ioVars, bufferVars
    <3>3. members' = members \cup {s}
      BY <1>2, <3>2
    <3>4. QED
      BY <1>2, <3>1, <3>2, <3>3 DEF Ops, Pcs
  <2>4. CASE LeaveQueue(s)
    <3>1. /\ tpc' = [tpc EXCEPT ![s] = "drop"] /\ op' = [op EXCEPT ![s] = op[s]]
          /\ inflight' = inflight /\ members' = members \ {s}
      BY <2>4 DEF LeaveQueue, Buffer!Unregister, GoesTo, ioVars, sessVars
    <3>2. QED
      BY <1>2, <3>1 DEF Ops, Pcs
  <2>5. CASE DropSession(s)
    <3>1. /\ tpc' = [tpc EXCEPT ![s] = "done"] /\ op' = [op EXCEPT ![s] = "gone"]
          /\ inflight' = inflight \ {s} /\ members' = members /\ tpc[s] = "drop"
      BY <2>5 DEF DropSession, EndSession, GoesTo, bufferVars
    <3>2. members' = members \ {s}
      BY <1>2, <3>1
    <3>3. QED
      BY <3>1, <3>2 DEF Ops, Pcs
  <2>6. QED
    BY <2>1, <2>2, <2>3, <2>4, <2>5 DEF TransferStep
<1>4. SessionsInv'
  BY <1>1, <1>2, <1>3, SessionMoves DEF Live
<1>5. io[Srv(s)] # "ended"
  BY <1>2 DEF EndedIsEmpty
<1>6. ServersInv'
  BY <1>1, <1>3, <1>5, ServersKeep
<1>7. QED
  BY <1>4, <1>6

LEMMA ServersStep == ASSUME IInv, [Next]_vars PROVE IInv'
<1>1. CASE UserPush \/ PushGoesOn
  <2>1. UNCHANGED watched
    BY <1>1 DEF UserPush, PushGoesOn, PushBegin, Buffer!PushBegin, Buffer!Serve,
                Buffer!Deliver, Buffer!FindFull, Buffer!Drop, Buffer!PushEnd, mainVars, ioVars, sessVars, feedVars, watched
  <2>2. QED
    BY <2>1, WatchedSame
<1>2. CASE Destroy \/ DestroyStep
  <2>1. 1 \in Servers
    BY TcpServerAssumption DEF Servers
  <2>2. QED
    BY <1>2, <2>1, DestroyKeeps, IoReturnsKeeps DEF DestroyStep
<1>3. CASE IoStep \/ ClientStep
  <2>1. \/ \E k \in Servers : CloseAcceptor(k) \/ IoReturns(k)
        \/ \E s \in Sessions :
             \/ CloseSocket(s) \/ AcceptCheck(s) \/ AcceptBegin(s)
             \/ ReadFeedRequest(s) \/ ReadOther(s) \/ HeaderSent(s)
             \/ \E result \in {"ok", "error"} : ChunkDone(s, result)
    BY <1>3, Zenon DEF IoStep, ClientStep
  <2>2. ASSUME NEW k \in Servers, CloseAcceptor(k) PROVE IInv'
    BY <2>2, WatchedSame
       DEF CloseAcceptor, bufferVars, mainVars, sessVars, feedVars, watched
  <2>3. ASSUME NEW s \in Sessions, CloseSocket(s) PROVE IInv'
    BY <2>3, WatchedSame
       DEF CloseSocket, bufferVars, mainVars, feedVars, watched
  <2>4. QED
    BY <2>1, <2>2, <2>3, IoReturnsKeeps, AcceptKeeps, ClientKeeps, Zenon
<1>4. CASE \E s \in Sessions : TransferStep(s)
  BY <1>4, TransferKeeps
<1>5. CASE UNCHANGED vars
  BY <1>5, WatchedSame DEF vars, bufferVars, mainVars, ioVars, sessVars, feedVars, watched
<1>6. QED
  BY <1>1, <1>2, <1>3, <1>4, <1>5 DEF Next

THEOREM Invariance == Spec => []IInv
BY ServersInit, ServersStep, PTL DEF Spec

(* A transfer thread never outlives its session, and pops its queue only   *)
(* while the queue exists (tcp_server.cpp:138-153, 370-418).               *)
THEOREM ThreadAlwaysHoldsItsSession == Spec => []ThreadHoldsItsSession
<1>1. IInv => ThreadHoldsItsSession
  BY DEF IInv, SessionsInv
<1>2. QED
  BY <1>1, Invariance, PTL

(* When the destructor is done and none of the IO threads had to be        *)
(* stopped by force, no session, socket or queue is left                   *)
(* (tcp_server.cpp:68-77).                                                 *)
THEOREM NothingIsLeft == Spec => []NothingLeft
<1>1. IInv => NothingLeft
  <2> SUFFICES ASSUME IInv, main[1] = "done", ~forced
               PROVE  /\ inflight = {} /\ members = {}
                      /\ \A s \in Sessions : op[s] \in {"none", "gone"}
    BY DEF NothingLeft
  <2> USE DEF IInv, SessionsInv, ServersInv, Typed
  <2>1. \A k \in Servers : io[k] = "ended"
    BY DEF JoinedStopped, Stopped, ForcedIsSeen
  <2>2. \A s \in Sessions : op[s] \in {"none", "gone"}
    BY <2>1, SrvType DEF EndedIsEmpty
  <2>3. inflight = {}
    BY <2>2 DEF InflightIsLive, Live
  <2>4. members = {}
    BY <2>2 DEF ThreadHoldsItsSession, Working
  <2>5. QED
    BY <2>2, <2>3, <2>4
<1>2. QED
  BY <1>1, Invariance, PTL

-----------------------------------------------------------------------------
(* The send buffer, as the server uses it.                                 *)
SB == INSTANCE SendBufferProof WITH
        Consumers <- Sessions, MaxBuffered <- {MaxCapacity},
        NumSamples <- UserSamples + NumServers, waiter <- "idle"

BufferInv == SB!IInv /\ SB!TakenInv

LEMMA BufferAssumption == SB!SendBufferAssumption
BY TcpServerAssumption DEF SB!SendBufferAssumption

(* The thread that waits for consumers does not exist here.                *)
LEMMA BufferStep == [Next]_vars => [SB!Next]_SB!bufferVars
<1> SUFFICES ASSUME [Next]_vars
             PROVE  SB!Next \/ UNCHANGED SB!bufferVars
  OBVIOUS
<1>0. UNCHANGED bufferVars => UNCHANGED SB!bufferVars
  BY DEF bufferVars, SB!bufferVars
<1>1. ASSUME NEW flag, PushBegin(flag)
      PROVE  SB!Next
  <2>1. SB!PushBegin
    BY <1>1 DEF PushBegin, Buffer!PushBegin, SB!PushBegin
  <2>2. QED
    BY <2>1 DEF SB!Next
<1>2. CASE UserPush \/ DestroyStep
  <2>1. UNCHANGED bufferVars \/ \E flag : PushBegin(flag)
    BY <1>2 DEF UserPush, DestroyStep, SetFlag, PostCloses, Ping, NextServer, Join, ForceStop
  <2>2. QED
    BY <1>0, <1>1, <2>1
<1>3. CASE PushGoesOn
  <2>1. SB!PushEnd \/ \E s \in Sessions : SB!Serve(s)
    BY <1>3 DEF PushGoesOn, Buffer!PushEnd, SB!PushEnd, Buffer!Serve, SB!Serve,
                Buffer!Deliver, SB!Deliver, Buffer!FindFull, SB!FindFull, Buffer!Drop, SB!Drop,
                Buffer!InTurn, SB!InTurn
  <2>2. QED
    BY <2>1 DEF SB!Next
<1>4. CASE Destroy \/ IoStep \/ ClientStep \/ UNCHANGED vars
  <2>1. UNCHANGED bufferVars
    BY <1>4 DEF Destroy, IoStep, ClientStep, CloseAcceptor, IoReturns, AcceptBegin, CloseSocket,
                ReadOther, ChunkDone, AcceptCheck, ReadFeedRequest, HeaderSent, vars
  <2>2. QED
    BY <1>0, <2>1
<1>5. ASSUME NEW s \in Sessions, TransferStep(s)
      PROVE  SB!Next \/ UNCHANGED SB!bufferVars
  <2>1. \/ UNCHANGED bufferVars
        \/ SB!Register(s, MaxCapacity) \/ SB!Notify(s) \/ SB!Take(s) \/ SB!Unregister(s)
    <3>1. CASE MakeQueue(s)
      BY <3>1 DEF MakeQueue, Buffer!Register, SB!Register, Buffer!Granted, SB!Granted
    <3>2. CASE QueueMade(s)
      BY <3>2 DEF QueueMade, Buffer!Notify, SB!Notify
    <3>3. CASE PopSample(s)
      BY <3>3 DEF PopSample, Buffer!Take, SB!Take, Buffer!Ready, SB!Ready
    <3>4. CASE LeaveQueue(s)
      BY <3>4 DEF LeaveQueue, Buffer!Unregister, SB!Unregister, Buffer!Ready, SB!Ready
    <3>5. CASE CheckShutdown(s) \/ SaveSample(s) \/ ShipChunk(s) \/ ChunkShipped(s)
               \/ DropSession(s)
      BY <3>5 DEF CheckShutdown, SaveSample, ShipChunk, ChunkShipped, DropSession
    <3>6. QED
      BY <1>5, <3>1, <3>2, <3>3, <3>4, <3>5 DEF TransferStep
  <2>2. CASE SB!Register(s, MaxCapacity) \/ SB!Notify(s) \/ SB!Take(s) \/ SB!Unregister(s)
    BY <2>2 DEF SB!Next
  <2>3. QED
    BY <1>0, <2>1, <2>2
<1>6. QED
  BY <1>2, <1>3, <1>4, <1>5 DEF Next

LEMMA BufferAlways == Spec => []BufferInv
<1>1. Init => SB!Init
  BY DEF Init, Buffer!BufferInit, SB!Init, SB!BufferInit
<1>2. Spec => SB!Spec
  BY <1>1, BufferStep, PTL DEF Spec, SB!Spec
<1>3. SB!Spec => [](SB!IInv /\ SB!TakenInv /\ SB!FullInv)
  BY SB!TakenAlways, BufferAssumption, PTL
<1>4. QED
  BY <1>2, <1>3, PTL DEF BufferInv

(* The send buffer keeps its promises under the server: what waits for a   *)
(* client is the latest samples since it registered, in order and without  *)
(* a gap, pings included, and a push never serves the queue of a session   *)
(* that has gone (tcp_server.cpp:68-77, send_buffer.h:35-41).              *)
THEOREM BufferPromises ==
  Spec => [](Buffer!LatestInOrder /\ Buffer!WithinCapacity /\ Buffer!NoDeadQueueServed)
<1>1. Init => SB!Init
  BY DEF Init, Buffer!BufferInit, SB!Init, SB!BufferInit
<1>2. Spec => SB!Spec
  BY <1>1, BufferStep, PTL DEF Spec, SB!Spec
<1>3. /\ SB!LatestInOrder <=> Buffer!LatestInOrder
      /\ SB!WithinCapacity <=> Buffer!WithinCapacity
      /\ SB!NoDeadQueueServed <=> Buffer!NoDeadQueueServed
  BY DEF SB!LatestInOrder, Buffer!LatestInOrder, SB!WithinCapacity, Buffer!WithinCapacity,
         SB!NoDeadQueueServed, Buffer!NoDeadQueueServed, SB!Served, Buffer!Served
<1>4. SB!Spec => []SB!LatestInOrder
  BY SB!AlwaysLatestInOrder, BufferAssumption, PTL
<1>5. SB!Spec => []SB!WithinCapacity
  BY SB!AlwaysWithinCapacity, BufferAssumption, PTL
<1>6. SB!Spec => []SB!NoDeadQueueServed
  BY SB!DeadQueueNeverServed, BufferAssumption, PTL
<1>7. QED
  BY <1>2, <1>3, <1>4, <1>5, <1>6, PTL

-----------------------------------------------------------------------------
(* What a thread puts into its feedbuf_.                                   *)
FeedOK(s) ==
  /\ tpc[s] \in {"none", "start", "made"} => feed[s] = {} /\ seqn[s] = 0
  /\ \A n \in feed[s] : n <= taken[s]
  /\ tpc[s] \in {"save", "ship"} => taken[s] > 0
  /\ tpc[s] = "save" => taken[s] \notin feed[s]

(* Only sessions of the clients that may come do anything.                 *)
OnlyClients == \A s \in Sessions : op[s] # "none" => s \in setup.clients

Pushed == pushed <= UserSamples + NumServers

FeedInv == TypeOK /\ OnlyClients /\ Pushed /\ \A s \in Sessions : FeedOK(s)

LEMMA FeedInit == Init => FeedInv
<1> SUFFICES ASSUME Init
             PROVE  FeedInv
  OBVIOUS
<1> USE DEF Init, Buffer!BufferInit
<1>1. main \in {"live", "flag", "close", "ping", "pinged", "join", "done"} \X Servers
  BY TcpServerAssumption DEF Servers
<1>2. TypeOK
  BY <1>1 DEF TypeOK
<1>3. Pushed
  BY TcpServerAssumption DEF Pushed
<1>4. QED
  BY <1>2, <1>3 DEF FeedInv, OnlyClients, FeedOK

(* A sample a thread holds has been pushed.                                *)
LEMMA HeldIsSample ==
  ASSUME IInv, BufferInv, FeedInv, NEW s \in Sessions, tpc[s] \in {"save", "ship"}
  PROVE  taken[s] \in Samples /\ taken[s] <= pushed
<1>1. s \in members /\ pushed \in Nat /\ taken[s] \in Nat
  BY DEF IInv, SessionsInv, ThreadHoldsItsSession, BufferInv, SB!IInv, SB!TypeOK
<1>2. taken[s] <= pushed
  <2>1. SB!Served(s) \in Int /\ SB!Served(s) <= pushed
    BY <1>1 DEF SB!Served
  <2>2. Len(queue[s]) \in Nat
    BY DEF BufferInv, SB!IInv, SB!TypeOK
  <2>3. taken[s] + Len(queue[s]) <= SB!Served(s)
    BY <1>1 DEF BufferInv, SB!TakenInv
  <2>4. QED
    BY <1>1, <2>1, <2>2, <2>3
<1>3. taken[s] > 0
  BY DEF FeedInv, FeedOK
<1>4. QED
  BY <1>1, <1>2, <1>3, TcpServerAssumption DEF FeedInv, Pushed, Samples

LEMMA ChunkingType ==
  ASSUME TypeOK, NEW s \in Sessions
  PROVE  Chunking(s) \in Nat
BY TcpServerAssumption DEF TypeOK, Chunking

LEMMA PushTypes ==
  ASSUME FeedInv, BufferInv, NEW flag \in BOOLEAN, PushBegin(flag)
  PROVE  /\ thru' \in [Samples -> BOOLEAN] /\ Pushed'
         /\ \A n \in Samples : n <= pushed => thru'[n] = thru[n]
<1>1. /\ pushed \in Nat /\ pushed < UserSamples + NumServers /\ pushed' = pushed + 1
      /\ thru' = [thru EXCEPT ![pushed + 1] = flag]
  BY DEF PushBegin, Buffer!PushBegin, BufferInv, SB!IInv, SB!TypeOK
<1>2. thru \in [Samples -> BOOLEAN]
  BY DEF FeedInv, TypeOK
<1>3. thru' \in [Samples -> BOOLEAN]
  BY <1>1, <1>2
<1>4. \A n \in Samples : n <= pushed => thru'[n] = thru[n]
  <2>1. \A n \in Samples : n \in Nat
    BY DEF Samples
  <2>2. QED
    BY <1>1, <1>2, <2>1
<1>5. Pushed'
  BY <1>1, TcpServerAssumption DEF Pushed
<1>6. QED
  BY <1>3, <1>4, <1>5

LEMMA MainTypeStep ==
  ASSUME FeedInv, BufferInv, UserPush \/ PushGoesOn \/ Destroy \/ DestroyStep
  PROVE  TypeOK'
<1> USE DEF FeedInv, TypeOK
<1>0. main \in {"live", "flag", "close", "ping", "pinged", "join", "done"} \X Servers
  OBVIOUS
<1>1. CASE UserPush
  <2>1. PICK flag \in BOOLEAN : PushBegin(flag)
    BY <1>1, TcpServerAssumption DEF UserPush
  <2>2. thru' \in [Samples -> BOOLEAN]
    BY <2>1, PushTypes
  <2>3. QED
    BY <1>1, <2>2 DEF UserPush, mainVars, ioVars, sessVars, feedVars
<1>2. CASE PushGoesOn
  BY <1>2 DEF PushGoesOn, mainVars, ioVars, sessVars, feedVars
<1>3. CASE Destroy
  <2>1. main' \in {"live", "flag", "close", "ping", "pinged", "join", "done"} \X Servers
    BY <1>3, TcpServerAssumption DEF Destroy, Servers
  <2>2. QED
    BY <1>3, <2>1 DEF Destroy, ioVars, sessVars, feedVars
<1>4. ASSUME NEW k \in Servers,
             \/ SetFlag(k) \/ PostCloses(k) \/ Ping(k) \/ NextServer(k) \/ Join(k) \/ ForceStop(k)
      PROVE  TypeOK'
  <2>1. /\ main' \in {"live", "flag", "close", "ping", "pinged", "join", "done"} \X Servers
    <3>1. /\ Servers = 1 .. NumServers /\ NumServers \in Nat \ {0} /\ k \in 1 .. NumServers
      BY TcpServerAssumption DEF Servers
    <3>2. \/ main' \in {<<"close", k>>, <<"ping", k>>, <<"pinged", k>>, <<"join", 1>>,
                        <<"done", 1>>}
          \/ k < NumServers /\ main' \in {<<"flag", k + 1>>, <<"join", k + 1>>}
          \/ main' = main
      BY <1>4 DEF SetFlag, PostCloses, Ping, NextServer, Join, ForceStop
    <3>3. 1 \in Servers /\ (k < NumServers => k + 1 \in Servers)
      BY <3>1
    <3>4. QED
      BY <3>2, <3>3
  <2>2. CASE SetFlag(k)
    BY <2>1, <2>2 DEF SetFlag, ioVars, sessVars, feedVars
  <2>3. CASE PostCloses(k)
    <3>1. \A j \in Servers : toClose'[j] \subseteq Of(j)
      BY <2>3 DEF PostCloses
    <3>2. QED
      BY <2>1, <2>3, <3>1 DEF PostCloses, sessVars, feedVars
  <2>4. CASE Ping(k)
    <3>1. thru' \in [Samples -> BOOLEAN]
      BY <2>4, PushTypes DEF Ping
    <3>2. QED
      BY <2>1, <2>4, <3>1 DEF Ping, ioVars, sessVars, feedVars
  <2>5. CASE NextServer(k) \/ Join(k)
    BY <2>1, <2>5 DEF NextServer, Join, ioVars, sessVars, feedVars
  <2>6. CASE ForceStop(k)
    BY <2>1, <2>6 DEF ForceStop, sessVars, feedVars
  <2>7. QED
    BY <1>4, <2>2, <2>3, <2>4, <2>5, <2>6
<1>5. QED
  BY <1>1, <1>2, <1>3, <1>4, Zenon DEF DestroyStep

LEMMA IoTypeStep ==
  ASSUME FeedInv, IoStep \/ ClientStep
  PROVE  TypeOK'
<1> USE DEF FeedInv, TypeOK
<1>1. ASSUME NEW k \in Servers, CloseAcceptor(k) \/ IoReturns(k)
      PROVE  TypeOK'
  <2>1. acceptor' \in [Servers -> {"open", "closing", "closed"}]
    BY <1>1 DEF CloseAcceptor, IoReturns
  <2>2. io' \in [Servers -> {"run", "accept", "ended", "stopped"}]
    BY <1>1 DEF CloseAcceptor, IoReturns
  <2>3. /\ UNCHANGED <<thru, mainVars, toClose, inflight, sessVars, feedVars>>
    BY <1>1 DEF CloseAcceptor, IoReturns
  <2>4. QED
    BY <2>1, <2>2, <2>3 DEF mainVars, sessVars, feedVars
<1>2. ASSUME NEW s \in Sessions, AcceptCheck(s) \/ AcceptBegin(s)
      PROVE  TypeOK'
  <2>1. Srv(s) \in Servers
    BY SrvType
  <2>2. io' \in [Servers -> {"run", "accept", "ended", "stopped"}]
    BY <1>2, <2>1 DEF AcceptCheck, AcceptBegin
  <2>3. /\ op' \in [Sessions -> {"none", "accepted", "read", "header", "feeding", "write", "gone"}]
        /\ inflight' \in SUBSET Sessions
    BY <1>2 DEF AcceptCheck, AcceptBegin
  <2>4. UNCHANGED <<thru, mainVars, acceptor, toClose, open, gran, feedVars>>
    BY <1>2 DEF AcceptCheck, AcceptBegin
  <2>5. QED
    BY <2>2, <2>3, <2>4 DEF mainVars, feedVars
<1>3. ASSUME NEW s \in Sessions, CloseSocket(s)
      PROVE  TypeOK'
  <2>1. \A k \in Servers : toClose'[k] \subseteq Of(k)
    BY <1>3 DEF CloseSocket
  <2>2. open' \in [Sessions -> BOOLEAN]
    BY <1>3 DEF CloseSocket
  <2>3. UNCHANGED <<thru, mainVars, acceptor, io, inflight, op, gran, feedVars>>
    BY <1>3 DEF CloseSocket
  <2>4. QED
    BY <2>1, <2>2, <2>3 DEF mainVars, feedVars
<1>4. ASSUME NEW s \in Sessions, ReadFeedRequest(s)
      PROVE  TypeOK'
  <2>1. /\ gran' \in [Sessions -> setup.granularities \cup {0}]
        /\ op' \in [Sessions -> {"none", "accepted", "read", "header", "feeding", "write", "gone"}]
        /\ UNCHANGED <<thru, mainVars, ioVars, open, feedVars>>
    BY <1>4 DEF ReadFeedRequest
  <2>2. QED
    BY <2>1 DEF mainVars, ioVars, feedVars
<1>5. ASSUME NEW s \in Sessions, ReadOther(s)
      PROVE  TypeOK'
  <2>1. /\ open' \in [Sessions -> BOOLEAN] /\ inflight' \in SUBSET Sessions
        /\ op' \in [Sessions -> {"none", "accepted", "read", "header", "feeding", "write", "gone"}]
        /\ UNCHANGED <<thru, mainVars, acceptor, toClose, io, gran, feedVars>>
    BY <1>5 DEF ReadOther, EndSession
  <2>2. QED
    BY <2>1 DEF mainVars, feedVars
<1>6. ASSUME NEW s \in Sessions, HeaderSent(s)
      PROVE  TypeOK'
  <2>1. /\ op' \in [Sessions -> {"none", "accepted", "read", "header", "feeding", "write", "gone"}]
        /\ tpc' \in [Sessions -> {"none", "start", "made", "check", "pop", "save", "ship", "wait",
                                  "leave", "drop", "done"}]
        /\ UNCHANGED <<thru, mainVars, ioVars, open, gran, seqn, feed, outcome>>
    BY <1>6 DEF HeaderSent
  <2>2. QED
    BY <2>1 DEF mainVars, ioVars
<1>7. ASSUME NEW s \in Sessions, NEW result \in {"ok", "error"}, ChunkDone(s, result)
      PROVE  TypeOK'
  <2>1. /\ op' \in [Sessions -> {"none", "accepted", "read", "header", "feeding", "write", "gone"}]
        /\ outcome' \in [Sessions -> {"none", "ok", "error"}]
        /\ UNCHANGED <<thru, mainVars, ioVars, open, gran, tpc, seqn, feed>>
    BY <1>7 DEF ChunkDone
  <2>2. QED
    BY <2>1 DEF mainVars, ioVars
<1>8. QED
  BY <1>1, <1>2, <1>3, <1>4, <1>5, <1>6, <1>7, Zenon DEF IoStep, ClientStep

LEMMA TransferTypeStep ==
  ASSUME IInv, BufferInv, FeedInv, NEW s \in Sessions, TransferStep(s)
  PROVE  TypeOK'
<1> USE DEF FeedInv, TypeOK
<1>0. /\ UNCHANGED <<mainVars, acceptor, toClose, io, gran>>
      /\ tpc' \in [Sessions -> {"none", "start", "made", "check", "pop", "save", "ship", "wait",
                                "leave", "drop", "done"}]
  BY DEF TransferStep, MakeQueue, QueueMade, CheckShutdown, PopSample, SaveSample, ShipChunk,
         ChunkShipped, LeaveQueue, DropSession, GoesTo, ioVars, sessVars
<1>1. CASE MakeQueue(s) \/ QueueMade(s) \/ CheckShutdown(s) \/ PopSample(s) \/ LeaveQueue(s)
  <2>1. UNCHANGED <<thru, inflight, sessVars, seqn, feed, outcome>>
    BY <1>1 DEF MakeQueue, QueueMade, CheckShutdown, PopSample, LeaveQueue, ioVars
  <2>2. QED
    BY <1>0, <2>1 DEF mainVars, sessVars
<1>2. CASE SaveSample(s)
  <2>1. /\ thru' \in [Samples -> BOOLEAN] /\ seqn' \in [Sessions -> Nat]
        /\ feed' \in [Sessions -> SUBSET Samples]
    <3>1. CASE shutdown[Srv(s)]
      BY <1>2, <3>1 DEF SaveSample
    <3>2. CASE ~shutdown[Srv(s)]
      <4>1. tpc[s] = "save" /\ feed' = [feed EXCEPT ![s] = feed[s] \cup {taken[s]}]
        BY <1>2, <3>2 DEF SaveSample
      <4>2. taken[s] \in Samples
        BY <4>1, HeldIsSample
      <4>3. feed' \in [Sessions -> SUBSET Samples]
        BY <4>1, <4>2
      <4>4. CASE Chunking(s) = 0
        BY <1>2, <3>2, <4>3, <4>4 DEF SaveSample
      <4>5. CASE Chunking(s) # 0
        <5>1. /\ seqn' = [seqn EXCEPT ![s] = (seqn[s] + 1) % Chunking(s)]
              /\ thru' = [thru EXCEPT ![taken[s]] = (seqn'[s] = 0)]
          BY <1>2, <3>2, <4>5 DEF SaveSample
        <5>2. (seqn[s] + 1) % Chunking(s) \in Nat
          <6>1. Chunking(s) \in Nat \ {0} /\ seqn[s] + 1 \in Nat
            BY <4>5, ChunkingType
          <6>2. QED
            BY <6>1
        <5>3. seqn' \in [Sessions -> Nat]
          BY <5>1, <5>2
        <5>4. (seqn'[s] = 0) \in BOOLEAN
          OBVIOUS
        <5>5. thru' \in [Samples -> BOOLEAN]
          BY <5>1, <5>4
        <5>6. QED
          BY <4>3, <5>3, <5>5
      <4>6. QED
        BY <4>4, <4>5
    <3>3. QED
      BY <3>1, <3>2
  <2>2. UNCHANGED <<inflight, sessVars, outcome>>
    BY <1>2 DEF SaveSample, ioVars
  <2>3. QED
    BY <1>0, <2>1, <2>2 DEF mainVars, sessVars
<1>3. CASE ShipChunk(s)
  <2>1. /\ op' \in [Sessions -> {"none", "accepted", "read", "header", "feeding", "write", "gone"}]
        /\ UNCHANGED <<thru, inflight, open, seqn, feed, outcome>>
    BY <1>3 DEF ShipChunk, ioVars
  <2>2. QED
    BY <1>0, <2>1 DEF mainVars
<1>4. CASE ChunkShipped(s)
  <2>1. /\ outcome' \in [Sessions -> {"none", "ok", "error"}]
        /\ feed' \in [Sessions -> SUBSET Samples]
        /\ UNCHANGED <<thru, inflight, sessVars, seqn>>
    BY <1>4 DEF ChunkShipped, ioVars
  <2>2. QED
    BY <1>0, <2>1 DEF mainVars, sessVars
<1>5. CASE DropSession(s)
  <2>1. /\ op' \in [Sessions -> {"none", "accepted", "read", "header", "feeding", "write", "gone"}]
        /\ open' \in [Sessions -> BOOLEAN] /\ inflight' \in SUBSET Sessions
        /\ UNCHANGED <<thru, seqn, feed, outcome>>
    BY <1>5 DEF DropSession, EndSession
  <2>2. QED
    BY <1>0, <2>1 DEF mainVars
<1>6. QED
  BY <1>1, <1>2, <1>3, <1>4, <1>5 DEF TransferStep

(* FeedOK is about the session's own thread.                               *)
LEMMA FeedSame ==
  ASSUME NEW s, FeedOK(s), tpc'[s] = tpc[s], seqn'[s] = seqn[s], feed'[s] = feed[s],
         taken'[s] = taken[s]
  PROVE  FeedOK(s)'
BY DEF FeedOK

(* A transfer thread leaves the other sessions' state alone; its own last  *)
(* sample is the only one it changes.                                      *)
LEMMA TransferOthers ==
  ASSUME TypeOK, BufferInv, NEW s \in Sessions, TransferStep(s)
  PROVE  /\ setup' = setup /\ gran' = gran /\ pushed' = pushed
         /\ \A r \in Sessions \ {s} :
              /\ tpc'[r] = tpc[r] /\ seqn'[r] = seqn[r] /\ feed'[r] = feed[r]
              /\ taken'[r] = taken[r] /\ op'[r] = op[r] /\ outcome'[r] = outcome[r]
<1> USE DEF TypeOK
<1>0. taken \in [Sessions -> Nat]
  BY DEF BufferInv, SB!IInv, SB!TypeOK
<1>1. CASE MakeQueue(s) \/ QueueMade(s) \/ LeaveQueue(s)
  BY <1>0, <1>1 DEF MakeQueue, QueueMade, LeaveQueue, Buffer!Register, Buffer!Notify,
                    Buffer!Unregister, GoesTo, mainVars, sessVars
<1>2. CASE CheckShutdown(s) \/ PopSample(s)
  BY <1>0, <1>2 DEF CheckShutdown, PopSample, Buffer!Take, GoesTo, bufferVars, mainVars, sessVars
<1>3. CASE SaveSample(s)
  BY <1>0, <1>3 DEF SaveSample, GoesTo, bufferVars, mainVars, sessVars
<1>4. CASE ShipChunk(s) \/ ChunkShipped(s) \/ DropSession(s)
  BY <1>0, <1>4 DEF ShipChunk, ChunkShipped, DropSession, EndSession, GoesTo, bufferVars,
                    mainVars, sessVars
<1>5. QED
  BY <1>1, <1>2, <1>3, <1>4 DEF TransferStep

LEMMA TakeOfBuffer ==
  ASSUME TypeOK, BufferInv, NEW s \in Sessions, PopSample(s)
  PROVE  taken'[s] > taken[s] /\ taken[s] \in Nat /\ taken'[s] \in Nat
<1>1. SB!Take(s)
  BY DEF PopSample, Buffer!Take, SB!Take, Buffer!Ready, SB!Ready
<1>2. taken'[s] \in Nat /\ taken[s] < taken'[s]
  BY <1>1, SB!TakeGrows, BufferAssumption DEF BufferInv
<1>3. taken[s] \in Nat
  BY DEF BufferInv, SB!IInv, SB!TypeOK
<1>4. QED
  BY <1>2, <1>3

LEMMA FeedOfTransfer ==
  ASSUME IInv, BufferInv, FeedInv, NEW s \in Sessions, TransferStep(s)
  PROVE  FeedOK(s)'
<1> USE DEF FeedInv
<1>0. /\ taken[s] \in Nat /\ tpc \in [Sessions -> Pcs] /\ seqn \in [Sessions -> Nat]
      /\ feed \in [Sessions -> SUBSET Samples]
      /\ FeedOK(s) /\ \A n \in Samples : n \in Nat
  BY DEF BufferInv, SB!IInv, SB!TypeOK, TypeOK, Pcs, Samples
<1>1. CASE MakeQueue(s) \/ QueueMade(s) \/ CheckShutdown(s) \/ LeaveQueue(s) \/ DropSession(s)
           \/ ShipChunk(s)
  <2>1. /\ UNCHANGED <<seqn, feed, taken>>
        /\ tpc'[s] \in {"made", "check", "leave", "drop", "done", "wait", "pop"}
        /\ tpc'[s] = "made" => tpc[s] = "start"
    BY <1>0, <1>1 DEF MakeQueue, QueueMade, CheckShutdown, LeaveQueue, DropSession, ShipChunk,
                      Buffer!Register, Buffer!Notify, Buffer!Unregister, GoesTo, bufferVars
  <2>2. QED
    BY <1>0, <2>1 DEF FeedOK
<1>2. CASE PopSample(s)
  <2>1. UNCHANGED <<seqn, feed>> /\ tpc'[s] = "save"
    BY <1>0, <1>2 DEF PopSample, GoesTo
  <2>2. taken'[s] > taken[s] /\ taken'[s] \in Nat
    BY <1>2, TakeOfBuffer
  <2>3. \A n \in feed[s] : n \in Nat /\ n <= taken[s]
    BY <1>0 DEF FeedOK
  <2>4. QED
    BY <1>0, <2>1, <2>2, <2>3 DEF FeedOK
<1>3. CASE SaveSample(s)
  <2>1. tpc[s] = "save" /\ taken' = taken /\ tpc'[s] \in {"leave", "ship"}
    BY <1>0, <1>3 DEF SaveSample, GoesTo, bufferVars
  <2>2. feed'[s] = feed[s] \/ feed'[s] = feed[s] \cup {taken[s]}
    BY <1>0, <1>3 DEF SaveSample
  <2>3. \A n \in feed'[s] : n <= taken[s]
    BY <1>0, <2>2 DEF FeedOK
  <2>4. QED
    BY <1>0, <2>1, <2>3 DEF FeedOK
<1>4. CASE ChunkShipped(s)
  <2>1. /\ taken' = taken /\ tpc'[s] \in {"check", "leave"}
        /\ feed'[s] = feed[s] \/ feed'[s] = {}
    BY <1>0, <1>4 DEF ChunkShipped, GoesTo, bufferVars
  <2>2. QED
    BY <1>0, <2>1 DEF FeedOK
<1>5. QED
  BY <1>1, <1>2, <1>3, <1>4 DEF TransferStep

LEMMA FeedStep == IInv /\ BufferInv /\ FeedInv /\ [Next]_vars => FeedInv'
<1> SUFFICES ASSUME IInv, BufferInv, FeedInv, [Next]_vars
             PROVE  FeedInv'
  OBVIOUS
<1>0. /\ TypeOK /\ OnlyClients /\ Pushed /\ \A s \in Sessions : FeedOK(s)
  BY DEF FeedInv
<1>1. CASE UserPush \/ PushGoesOn \/ Destroy \/ DestroyStep
  <2>1. TypeOK'
    BY <1>1, MainTypeStep
  <2>2. /\ UNCHANGED <<setup, op, feedVars, taken>>
        /\ pushed' = pushed \/ \E flag \in BOOLEAN : PushBegin(flag)
    <3>1. CASE UserPush
      BY <1>0, <3>1, TcpServerAssumption
         DEF UserPush, PushBegin, Buffer!PushBegin, mainVars, sessVars, TypeOK
    <3>2. CASE PushGoesOn
      BY <3>2 DEF PushGoesOn, Buffer!Serve, Buffer!Deliver, Buffer!FindFull,
                  Buffer!Drop, Buffer!PushEnd, mainVars, sessVars
    <3>3. CASE Destroy
      BY <3>3 DEF Destroy, bufferVars, sessVars
    <3>4. CASE DestroyStep
      BY <3>4 DEF DestroyStep, SetFlag, PostCloses, Ping, PushBegin, Buffer!PushBegin, NextServer,
                  Join, ForceStop, bufferVars, sessVars
    <3>5. QED
      BY <1>1, <3>1, <3>2, <3>3, <3>4
  <2>3. Pushed'
    BY <1>0, <2>2, PushTypes DEF Pushed
  <2>4. \A s \in Sessions : FeedOK(s)'
    BY <1>0, <2>2, FeedSame DEF feedVars
  <2>5. QED
    BY <1>0, <2>1, <2>2, <2>3, <2>4 DEF FeedInv, OnlyClients
<1>2. CASE IoStep \/ ClientStep
  <2>1. TypeOK'
    BY <1>2, IoTypeStep
  <2>2. UNCHANGED <<setup, seqn, feed, taken, pushed>>
    BY <1>2 DEF IoStep, ClientStep, CloseAcceptor, IoReturns, AcceptBegin, CloseSocket,
                ReadOther, ChunkDone, AcceptCheck, ReadFeedRequest, HeaderSent, bufferVars,
                mainVars, feedVars
  <2>3. \/ tpc' = tpc
        \/ \E s \in Sessions, first \in {"start", "drop"} :
             tpc' = [tpc EXCEPT ![s] = first] /\ tpc[s] = "none"
    BY <1>2 DEF IoStep, ClientStep, CloseAcceptor, IoReturns, AcceptBegin, CloseSocket,
                ReadOther, ChunkDone, AcceptCheck, ReadFeedRequest, HeaderSent, feedVars,
                IInv, SessionsInv, ThreadComesLast
  <2>4. \A s \in Sessions : FeedOK(s)'
    <3>1. CASE tpc' = tpc
      BY <1>0, <2>2, <3>1, FeedSame
    <3>2. ASSUME NEW s \in Sessions, NEW first \in {"start", "drop"},
                 tpc' = [tpc EXCEPT ![s] = first], tpc[s] = "none"
          PROVE  \A r \in Sessions : FeedOK(r)'
      BY <1>0, <2>2, <3>2 DEF FeedOK, TypeOK
    <3>3. QED
      BY <2>3, <3>1, <3>2
  <2>5. OnlyClients'
    <3>1. \/ op' = op
          \/ \E s \in Sessions, o \in Ops :
               op' = [op EXCEPT ![s] = o] /\ (op[s] # "none" \/ s \in setup.clients)
      BY <1>2 DEF IoStep, ClientStep, CloseAcceptor, IoReturns, AcceptBegin, CloseSocket,
                  ReadOther, EndSession, ChunkDone, AcceptCheck, ReadFeedRequest, HeaderSent,
                  sessVars, Ops
    <3>2. QED
      BY <1>0, <2>2, <3>1 DEF OnlyClients, TypeOK
  <2>6. QED
    BY <1>0, <2>1, <2>2, <2>4, <2>5 DEF FeedInv, Pushed
<1>3. ASSUME NEW s \in Sessions, TransferStep(s)
      PROVE  FeedInv'
  <2>1. TypeOK' /\ FeedOK(s)'
    BY <1>3, TransferTypeStep, FeedOfTransfer
  <2>2. ASSUME NEW r \in Sessions \ {s}
        PROVE  FeedOK(r)'
    BY <1>0, <1>3, TransferOthers, FeedSame
  <2>3. OnlyClients'
    <3>1. op[s] # "none"
      BY <1>0, <1>3 DEF TransferStep, MakeQueue, QueueMade, CheckShutdown, PopSample, SaveSample,
                        ShipChunk, ChunkShipped, LeaveQueue, DropSession, IInv, SessionsInv,
                        ThreadComesLast
    <3>2. QED
      BY <1>0, <1>3, <3>1, TransferOthers DEF OnlyClients
  <2>4. Pushed'
    BY <1>0, <1>3, TransferOthers DEF Pushed
  <2>5. QED
    BY <2>1, <2>2, <2>3, <2>4 DEF FeedInv
<1>4. CASE UNCHANGED vars
  <2>1. TypeOK'
    BY <1>0, <1>4 DEF vars, mainVars, ioVars, sessVars, feedVars, TypeOK
  <2>2. QED
    BY <1>0, <1>4, <2>1, FeedSame
       DEF vars, bufferVars, mainVars, sessVars, feedVars, FeedInv, OnlyClients, Pushed
<1>5. QED
  BY <1>1, <1>2, <1>3, <1>4 DEF Next

-----------------------------------------------------------------------------
(* A session has a write pending, or its outcome at hand, only while its   *)
(* thread waits for it.                                                    *)
WriteOK(s) ==
  /\ op[s] = "write" => tpc[s] = "wait" /\ outcome[s] = "none"
  /\ outcome[s] # "none" => tpc[s] = "wait"

(* With a single client, seqn counts the samples in its feedbuf_.          *)
CountOK(s) ==
  setup.clients = {s} /\ Chunking(s) # 0 =>
    /\ tpc[s] \in {"check", "pop", "save"} =>
         seqn[s] < Chunking(s) /\ Cardinality(feed[s]) = seqn[s]
    /\ tpc[s] = "ship" =>
         /\ seqn[s] < Chunking(s)
         /\ Cardinality(feed[s]) = IF seqn[s] = 0 THEN Chunking(s) ELSE seqn[s]
         /\ thru[taken[s]] = (seqn[s] = 0)
    /\ tpc[s] = "wait" => seqn[s] = 0 /\ Cardinality(feed[s]) = Chunking(s)

ChunkInv == \A s \in Sessions : WriteOK(s) /\ CountOK(s)

LEMMA ChunkInit == Init => ChunkInv
BY DEF Init, ChunkInv, WriteOK, CountOK

LEMMA ChunkSame ==
  ASSUME NEW s, WriteOK(s), CountOK(s), setup' = setup, gran'[s] = gran[s], tpc'[s] = tpc[s],
         seqn'[s] = seqn[s], feed'[s] = feed[s], taken'[s] = taken[s], op'[s] = op[s],
         outcome'[s] = outcome[s],
         tpc[s] = "ship" /\ setup.clients = {s} => thru'[taken[s]] = thru[taken[s]]
  PROVE  WriteOK(s)' /\ CountOK(s)'
BY DEF WriteOK, CountOK, Chunking

LEMMA FeedFinite ==
  ASSUME FeedInv, NEW s \in Sessions
  PROVE  IsFiniteSet(feed[s])
<1>1. feed[s] \subseteq Samples
  BY DEF FeedInv, TypeOK
<1>2. IsFiniteSet(Samples)
  BY FS_Interval, TcpServerAssumption DEF Samples
<1>3. QED
  BY <1>1, <1>2, FS_Subset

LEMMA NextInChunk ==
  ASSUME NEW c \in Nat \ {0}, NEW n \in Nat, n < c
  PROVE  (n + 1) % c = IF n + 1 = c THEN 0 ELSE n + 1
<1>1. CASE n + 1 = c
  BY <1>1
<1>2. CASE n + 1 # c
  <2>1. n + 1 \in 0 .. c - 1
    BY <1>2
  <2>2. QED
    BY <1>2, <2>1
<1>3. QED
  BY <1>1, <1>2

LEMMA ChunkOfTransfer ==
  ASSUME IInv, BufferInv, FeedInv, ChunkInv, NEW s \in Sessions, TransferStep(s)
  PROVE  WriteOK(s)' /\ CountOK(s)'
<1>0. /\ tpc \in [Sessions -> Pcs] /\ seqn \in [Sessions -> Nat]
      /\ thru \in [Samples -> BOOLEAN] /\ op \in [Sessions -> Ops]
      /\ outcome \in [Sessions -> {"none", "ok", "error"}]
      /\ feed \in [Sessions -> SUBSET Samples]
      /\ Chunking(s) \in Nat /\ WriteOK(s) /\ CountOK(s) /\ FeedOK(s)
  BY ChunkingType DEF FeedInv, TypeOK, Pcs, Ops, ChunkInv
<1>1. Chunking(s)' = Chunking(s) /\ setup' = setup
  BY <1>0, TransferOthers DEF Chunking, FeedInv
<1>2. CASE MakeQueue(s) \/ QueueMade(s) \/ CheckShutdown(s) \/ PopSample(s) \/ LeaveQueue(s)
  <2>1. /\ UNCHANGED <<op, outcome, seqn, feed>>
        /\ \/ tpc'[s] \in {"made", "leave", "drop"}
           \/ tpc[s] = "made" /\ tpc'[s] = "check"
           \/ tpc[s] = "check" /\ tpc'[s] = "pop"
           \/ tpc[s] = "pop" /\ tpc'[s] = "save"
        /\ tpc[s] # "wait"
    BY <1>0, <1>2 DEF MakeQueue, QueueMade, CheckShutdown, PopSample, LeaveQueue, GoesTo, sessVars
  <2>2. tpc[s] = "made" => feed[s] = {} /\ seqn[s] = 0
    BY <1>0 DEF FeedOK
  <2>3. WriteOK(s)'
    BY <1>0, <2>1 DEF WriteOK
  <2>4. CountOK(s)'
    <3>1. tpc[s] = "made" => Cardinality(feed'[s]) = 0 /\ seqn'[s] = 0
      BY <2>1, <2>2, FS_EmptySet
    <3>2. ASSUME setup.clients = {s}, Chunking(s) # 0, tpc'[s] \in {"check", "pop", "save"}
          PROVE  seqn'[s] < Chunking(s) /\ Cardinality(feed'[s]) = seqn'[s]
      BY <1>0, <2>1, <3>1, <3>2 DEF CountOK
    <3>3. tpc'[s] # "ship" /\ tpc'[s] # "wait"
      BY <2>1
    <3>4. QED
      BY <1>1, <3>2, <3>3 DEF CountOK
  <2>5. QED
    BY <2>3, <2>4
<1>3. CASE SaveSample(s)
  <2>1. /\ tpc[s] = "save" /\ UNCHANGED <<op, outcome, taken>>
        /\ tpc'[s] \in {"leave", "ship"}
    BY <1>0, <1>3 DEF SaveSample, GoesTo, sessVars, bufferVars
  <2>2. WriteOK(s)'
    BY <1>0, <2>1 DEF WriteOK
  <2>3. ASSUME tpc'[s] = "ship", setup.clients = {s}, Chunking(s) # 0
        PROVE  /\ seqn'[s] < Chunking(s)
               /\ Cardinality(feed'[s]) = IF seqn'[s] = 0 THEN Chunking(s) ELSE seqn'[s]
               /\ thru'[taken[s]] = (seqn'[s] = 0)
    <3>1. /\ seqn' = [seqn EXCEPT ![s] = (seqn[s] + 1) % Chunking(s)]
          /\ thru' = [thru EXCEPT ![taken[s]] = (seqn'[s] = 0)]
          /\ feed' = [feed EXCEPT ![s] = feed[s] \cup {taken[s]}]
      BY <1>0, <1>3, <2>3 DEF SaveSample, GoesTo
    <3>2. taken[s] \in Samples /\ taken[s] \notin feed[s]
      BY <1>0, <2>1, HeldIsSample DEF FeedOK
    <3>3. seqn[s] < Chunking(s) /\ Cardinality(feed[s]) = seqn[s]
      BY <1>0, <2>1, <2>3 DEF CountOK
    <3>4. Cardinality(feed'[s]) = seqn[s] + 1
      <4>1. feed'[s] = feed[s] \cup {taken[s]}
        BY <1>0, <3>1
      <4>2. QED
        BY <3>2, <3>3, <4>1, FeedFinite, FS_AddElement
    <3>5. seqn'[s] = IF seqn[s] + 1 = Chunking(s) THEN 0 ELSE seqn[s] + 1
      <4>1. Chunking(s) \in Nat \ {0} /\ seqn[s] \in Nat
        BY <1>0, <2>3
      <4>2. QED
        BY <1>0, <3>1, <3>3, <4>1, NextInChunk
    <3>6. thru'[taken[s]] = (seqn'[s] = 0)
      BY <1>0, <3>1, <3>2
    <3>7. QED
      BY <1>0, <2>3, <3>3, <3>4, <3>5, <3>6
  <2>4. CountOK(s)'
    BY <1>1, <2>1, <2>3 DEF CountOK
  <2>5. QED
    BY <2>2, <2>4
<1>4. CASE ShipChunk(s)
  <2>1. /\ tpc[s] = "ship" /\ UNCHANGED <<outcome, seqn, feed>>
        /\ \/ thru[taken[s]] /\ tpc'[s] = "wait" /\ op'[s] = "write"
           \/ ~thru[taken[s]] /\ tpc'[s] = "check" /\ op' = op
    BY <1>0, <1>4 DEF ShipChunk, GoesTo
  <2>2. WriteOK(s)'
    BY <1>0, <2>1 DEF WriteOK
  <2>3. CountOK(s)'
    BY <1>0, <1>1, <2>1 DEF CountOK
  <2>4. QED
    BY <2>2, <2>3
<1>5. CASE ChunkShipped(s)
  <2>1. /\ tpc[s] = "wait" /\ outcome[s] # "none" /\ outcome'[s] = "none"
        /\ UNCHANGED <<op, seqn>>
        /\ \/ tpc'[s] = "check" /\ feed'[s] = {}
           \/ tpc'[s] = "leave"
    BY <1>0, <1>5 DEF ChunkShipped, GoesTo, sessVars
  <2>2. WriteOK(s)'
    BY <1>0, <2>1 DEF WriteOK
  <2>3. CountOK(s)'
    <3>1. ASSUME setup.clients = {s}, Chunking(s) # 0, tpc'[s] = "check"
          PROVE  seqn'[s] < Chunking(s) /\ Cardinality(feed'[s]) = seqn'[s]
      <4>1. Cardinality(feed'[s]) = 0
        BY <2>1, <3>1, FS_EmptySet
      <4>2. QED
        BY <1>0, <2>1, <3>1, <4>1 DEF CountOK
    <3>2. QED
      BY <1>1, <2>1, <3>1 DEF CountOK
  <2>4. QED
    BY <2>2, <2>3
<1>6. CASE DropSession(s)
  <2>1. tpc[s] = "drop" /\ tpc'[s] = "done" /\ op'[s] = "gone" /\ outcome' = outcome
    BY <1>0, <1>6 DEF DropSession, EndSession, GoesTo
  <2>2. QED
    BY <1>0, <2>1 DEF WriteOK, CountOK
<1>7. QED
  BY <1>2, <1>3, <1>4, <1>5, <1>6 DEF TransferStep

LEMMA ChunkStep == IInv /\ BufferInv /\ FeedInv /\ ChunkInv /\ [Next]_vars => ChunkInv'
<1> SUFFICES ASSUME IInv, BufferInv, FeedInv, ChunkInv, [Next]_vars
             PROVE  ChunkInv'
  OBVIOUS
<1>0. TypeOK /\ OnlyClients /\ \A s \in Sessions : WriteOK(s) /\ CountOK(s)
  BY DEF FeedInv, ChunkInv
<1>1. CASE UserPush \/ PushGoesOn \/ Destroy \/ DestroyStep \/ UNCHANGED vars
  <2>1. /\ UNCHANGED <<setup, sessVars, feedVars, taken>>
        /\ thru' = thru \/ \E flag \in BOOLEAN : PushBegin(flag)
    <3>1. CASE UserPush
      BY <1>0, <3>1, TcpServerAssumption
         DEF UserPush, PushBegin, Buffer!PushBegin, mainVars, TypeOK
    <3>2. CASE PushGoesOn
      BY <3>2 DEF PushGoesOn, Buffer!Serve, Buffer!Deliver, Buffer!FindFull,
                  Buffer!Drop, Buffer!PushEnd, mainVars
    <3>3. CASE Destroy \/ UNCHANGED vars
      BY <3>3 DEF Destroy, bufferVars, mainVars, vars
    <3>4. CASE DestroyStep
      BY <3>4 DEF DestroyStep, SetFlag, PostCloses, Ping, PushBegin, Buffer!PushBegin, NextServer,
                  Join, ForceStop, bufferVars
    <3>5. QED
      BY <1>1, <3>1, <3>2, <3>3, <3>4
  <2>2. ASSUME NEW s \in Sessions
        PROVE  WriteOK(s)' /\ CountOK(s)'
    <3>1. tpc[s] = "ship" => thru'[taken[s]] = thru[taken[s]]
      BY <2>1, HeldIsSample, PushTypes
    <3>2. QED
      BY <1>0, <2>1, <3>1, ChunkSame DEF sessVars, feedVars
  <2>3. QED
    BY <2>2 DEF ChunkInv
<1>2. CASE IoStep \/ ClientStep
  <2>1. UNCHANGED <<setup, thru, seqn, feed, taken>>
    BY <1>2 DEF IoStep, ClientStep, CloseAcceptor, IoReturns, AcceptBegin, CloseSocket,
                ReadOther, ChunkDone, AcceptCheck, ReadFeedRequest, HeaderSent, bufferVars,
                mainVars, feedVars
  <2>2. ASSUME NEW s \in Sessions, op' = op, gran' = gran, tpc' = tpc, outcome' = outcome
        PROVE  WriteOK(s)' /\ CountOK(s)'
    BY <1>0, <2>1, <2>2, ChunkSame
  <2>3. ASSUME NEW s \in Sessions, NEW r \in Sessions,
               AcceptCheck(s) \/ AcceptBegin(s) \/ ReadOther(s) \/ ReadFeedRequest(s)
               \/ HeaderSent(s)
        PROVE  WriteOK(r)' /\ CountOK(r)'
    <3>1. tpc[s] = "none" /\ outcome' = outcome
      BY <2>3 DEF AcceptCheck, AcceptBegin, ReadOther, ReadFeedRequest, HeaderSent, feedVars,
                  IInv, SessionsInv, ThreadComesLast
    <3>2. /\ op'[s] # "write" /\ tpc'[s] \in {"none", "start", "drop"}
          /\ \A q \in Sessions \ {s} : op'[q] = op[q] /\ tpc'[q] = tpc[q] /\ gran'[q] = gran[q]
      BY <1>0, <2>3, <3>1
         DEF AcceptCheck, AcceptBegin, ReadOther, EndSession, ReadFeedRequest, HeaderSent,
             feedVars, TypeOK
    <3>3. CASE r = s
      BY <1>0, <3>1, <3>2, <3>3 DEF WriteOK, CountOK
    <3>4. CASE r # s
      BY <1>0, <2>1, <3>1, <3>2, <3>4, ChunkSame
    <3>5. QED
      BY <3>3, <3>4
  <2>4. ASSUME NEW s \in Sessions, NEW r \in Sessions, NEW result \in {"ok", "error"},
               ChunkDone(s, result)
        PROVE  WriteOK(r)' /\ CountOK(r)'
    <3>1. op[s] = "write" /\ tpc' = tpc /\ gran' = gran
      BY <2>4 DEF ChunkDone
    <3>2. /\ op'[s] = "feeding" /\ outcome'[s] = result
          /\ \A q \in Sessions \ {s} : op'[q] = op[q] /\ outcome'[q] = outcome[q]
      BY <1>0, <2>4 DEF ChunkDone, TypeOK
    <3>3. CASE r = s
      <4>1. tpc[s] = "wait"
        BY <1>0, <3>1 DEF WriteOK
      <4>2. WriteOK(s)'
        BY <3>1, <3>2, <4>1 DEF WriteOK
      <4>3. CountOK(s)'
        BY <1>0, <2>1, <3>1, <4>1 DEF CountOK, Chunking
      <4>4. QED
        BY <3>3, <4>2, <4>3
    <3>4. CASE r # s
      BY <1>0, <2>1, <3>1, <3>2, <3>4, ChunkSame
    <3>5. QED
      BY <3>3, <3>4
  <2>5. ASSUME NEW r \in Sessions
        PROVE  WriteOK(r)' /\ CountOK(r)'
    <3>1. \/ \E k \in Servers : CloseAcceptor(k) \/ IoReturns(k)
          \/ \E s \in Sessions :
               \/ CloseSocket(s) \/ AcceptCheck(s) \/ AcceptBegin(s)
               \/ ReadFeedRequest(s) \/ ReadOther(s) \/ HeaderSent(s)
               \/ \E result \in {"ok", "error"} : ChunkDone(s, result)
      BY <1>2, Zenon DEF IoStep, ClientStep
    <3>2. CASE (\E k \in Servers : CloseAcceptor(k) \/ IoReturns(k))
               \/ \E s \in Sessions : CloseSocket(s)
      <4>1. op' = op /\ gran' = gran /\ tpc' = tpc /\ outcome' = outcome
        BY <3>2 DEF CloseAcceptor, IoReturns, CloseSocket, sessVars, feedVars
      <4>2. QED
        BY <2>2, <4>1
    <3>3. QED
      BY <2>3, <2>4, <3>1, <3>2, Zenon
  <2>6. QED
    BY <2>5 DEF ChunkInv
<1>3. ASSUME NEW s \in Sessions, TransferStep(s)
      PROVE  ChunkInv'
  <2>1. WriteOK(s)' /\ CountOK(s)'
    BY <1>3, ChunkOfTransfer
  <2>2. s \in setup.clients
    <3>1. op[s] # "none"
      BY <1>3 DEF TransferStep, MakeQueue, QueueMade, CheckShutdown, PopSample, SaveSample,
                  ShipChunk, ChunkShipped, LeaveQueue, DropSession, IInv, SessionsInv,
                  ThreadComesLast
    <3>2. QED
      BY <1>0, <3>1 DEF OnlyClients
  <2>3. ASSUME NEW r \in Sessions \ {s}
        PROVE  WriteOK(r)' /\ CountOK(r)'
    <3>1. setup.clients # {r}
      BY <2>2
    <3>2. QED
      BY <1>0, <1>3, <3>1, TransferOthers, ChunkSame
  <2>4. QED
    BY <2>1, <2>3 DEF ChunkInv
<1>4. QED
  BY <1>1, <1>2, <1>3 DEF Next

LEMMA ChunkInvariant == Spec => [](FeedInv /\ ChunkInv)
<1>1. IInv /\ BufferInv /\ FeedInv /\ ChunkInv /\ [Next]_vars => FeedInv' /\ ChunkInv'
  BY FeedStep, ChunkStep
<1>2. QED
  BY <1>1, FeedInit, ChunkInit, Invariance, BufferAlways, PTL DEF Spec

(* Every variable of the server keeps its type; a thread that marks a      *)
(* sample or puts it into its feedbuf_ has one that was pushed.            *)
THEOREM TypeCorrect == Spec => []TypeOK
<1>1. FeedInv => TypeOK
  BY DEF FeedInv
<1>2. QED
  BY <1>1, ChunkInvariant, PTL

(* Whatever chunk size a single receiver asks for, or else the sender      *)
(* prefers, what is sent off is always that many samples, however pushes,  *)
(* pings and writes interleave with the transfer (tcp_server.cpp:387-396). *)
THEOREM ChunksAlwaysAsAsked == Spec => []ChunksAsAsked
<1>1. FeedInv /\ ChunkInv => ChunksAsAsked
  <2> SUFFICES ASSUME FeedInv, ChunkInv, NEW s \in setup.clients, op[s] = "write",
                      setup.clients = {s}, Chunking(s) # 0
               PROVE  Cardinality(feed[s]) = Chunking(s)
    BY DEF ChunksAsAsked, Chunking
  <2>1. s \in Sessions
    BY TcpServerAssumption DEF FeedInv, TypeOK
  <2>2. QED
    BY <2>1 DEF ChunkInv, WriteOK, CountOK
<1>2. QED
  BY <1>1, ChunkInvariant, PTL
=============================================================================
