----------------------------- MODULE InletProof -----------------------------
(***************************************************************************)
(* Proofs about Inlet, for any uses of the inlet, any number of hosts that *)
(* come and go, and any sizes of queue and wave.                           *)
(*                                                                         *)
(* The arguments: a stream gets the address of the present host, or none   *)
(* yet, and the step that replaces the host cancels every stream; a reply  *)
(* of the present wave comes from a host the wave has asked.               *)
(***************************************************************************)
EXTENDS Inlet, FiniteSetTheorems, TLAPS

(* Hosts known to the inlet have been started.                             *)
WorldOK ==
  /\ uses \in Uses
  /\ born \in 1 .. Starts[uses]
  /\ up \subseteq 1 .. born
  /\ host \in 1 .. born

Buf == [state : {"none", "on", "cancelled", "failed"}, at : {0} \cup Hosts]

StreamOK == stream \in [Streams -> Buf]

RecOK ==
  /\ rec \in [Threads -> [pc : {"none", "lock", "query", "update"}, found : SUBSET Hosts]]
  /\ \A t \in Threads : rec[t].found \subseteq 1 .. born

QueueOK == queue \in Seq({"sample", "sentinel"}) /\ Len(queue) <= MaxSamples

TimeOK ==
  /\ sent \in Nat
  /\ network \subseteq Reply
  /\ offset \in {0} \cup Hosts
  /\ \A e \in estimates : e[1] \in Hosts
  /\ asked \subseteq Hosts

(* The replies on their way that belong to the present wave.               *)
RepliesOfAsked == \A r \in network : r.new => r.from \in asked

WaveInv == TimeOK /\ RepliesOfAsked /\ OffsetOfItsWave

-----------------------------------------------------------------------------
LEMMA HostsOfUses == WorldOK => 1 .. born \subseteq Hosts /\ host \in Hosts
<1> SUFFICES ASSUME WorldOK
             PROVE  1 .. born \subseteq Hosts
  BY DEF WorldOK
<1>1. Starts[uses] \in Nat
  BY InletAssumption DEF WorldOK
<1>2. 1 .. born \subseteq 1 .. Starts[uses]
  BY <1>1 DEF WorldOK
<1>3. QED
  BY <1>2 DEF Hosts, WorldOK

LEMMA InitOK == Init => WorldOK /\ StreamOK /\ RecOK /\ QueueOK /\ WaveInv /\ NoStreamOfOldHost
<1> SUFFICES ASSUME Init
             PROVE  WorldOK /\ StreamOK /\ RecOK /\ QueueOK /\ WaveInv /\ NoStreamOfOldHost
  OBVIOUS
<1> USE DEF Init, ConnInit, DataInit, InfoInit, TimeInit
<1>1. WorldOK
  BY InletAssumption DEF WorldOK
<1>2. StreamOK /\ NoStreamOfOldHost
  BY DEF StreamOK, Buf, NoStream, NoStreamOfOldHost
<1>3. RecOK
  BY DEF RecOK, NoRec
<1>4. QueueOK
  BY DataAssumption DEF QueueOK
<1>5. WaveInv
  BY DEF WaveInv, TimeOK, RepliesOfAsked, OffsetOfItsWave
<1>6. QED
  BY <1>1, <1>2, <1>3, <1>4, <1>5

-----------------------------------------------------------------------------
(* The hosts.                                                              *)
LEMMA WorldStep == WorldOK /\ RecOK /\ [Next]_vars => WorldOK'
<1> SUFFICES ASSUME WorldOK, RecOK, [Next]_vars
             PROVE  WorldOK'
  OBVIOUS
<1> USE DEF WorldOK
<1>1. CASE HostStarts
  BY <1>1, InletAssumption DEF HostStarts, settings, connVars
<1>2. CASE HostStops
  BY <1>2 DEF HostStops, settings, connVars
<1>3. CASE Switch
  <2>1. PICK t \in Threads : RecoverSwitch(t)
    BY <1>3 DEF Switch
  <2>2. host' \in 1 .. born /\ UNCHANGED <<uses, born, up>>
    BY <2>1 DEF RecoverSwitch, RecOK, settings, world
  <2>3. QED
    BY <2>2
<1>4. CASE \/ TimePasses \/ Watchdog \/ Disengage \/ (\E t \in Threads : RecoverStep(t))
           \/ Data \/ InfoNext \/ TimeNext \/ Wait \/ TimesOut \/ Destroy \/ UNCHANGED vars
  <2>1. UNCHANGED <<uses, born, up, host>>
    <3>1. CASE TimePasses \/ Watchdog \/ Disengage \/ (\E t \in Threads : RecoverStep(t))
      BY <3>1 DEF TimePasses, Watchdog, Disengage, RecoverStep, settings, world
    <3>2. CASE Data
      BY <3>2 DEF Data, DataThread, DataBegin, DataTest, DataConnect, DataConnected, DataStream,
                  DataCancelled, DataRecovered, DataEnds, DataNegotiated, DataSample, DataError,
                  Open, CloseStream, Pull, PullPops, settings, world, connVars
    <3>3. CASE InfoNext
      BY <3>3 DEF InfoNext, InfoThread, InfoBegin, InfoTest, InfoConnect, InfoCancelled,
                  InfoAnswered, InfoRead, InfoError, Info, settings, world, connVars
    <3>4. CASE TimeNext
      BY <3>4 DEF TimeNext, TimeThread, StartWave, Aggregate, NextProbe, Receive, TimeCorrection,
                  WasReset, TimeStopped, settings, world, connVars
    <3>5. CASE Wait \/ TimesOut \/ Destroy \/ UNCHANGED vars
      BY <3>5 DEF Wait, TimesOut, Destroy, vars, settings, world, connVars
    <3>6. QED
      BY <1>4, <3>1, <3>2, <3>3, <3>4, <3>5
  <2>2. QED
    BY <2>1
<1>5. QED
  BY <1>1, <1>2, <1>3, <1>4 DEF Next, Conn

(* What a query has found.                                                 *)
LEMMA RecStep == WorldOK /\ RecOK /\ [Next]_vars => RecOK'
<1> SUFFICES ASSUME WorldOK, RecOK, [Next]_vars
             PROVE  RecOK'
  OBVIOUS
<1> USE DEF RecOK
<1>1. born <= born' /\ born \in Nat /\ born' \in Nat
  <2>1. born' = born \/ born' = born + 1
    <3>1. CASE HostStarts
      BY <3>1 DEF HostStarts
    <3>2. CASE ~HostStarts
      BY <3>2 DEF Next, Conn, HostStops, TimePasses, Watchdog, Disengage, RecoverStep, Switch,
                  RecoverSwitch, Data, InfoNext, TimeNext, Wait, TimesOut, Destroy, vars, world,
                  settings
    <3>3. QED
      BY <3>1, <3>2
  <2>2. QED
    BY <2>1 DEF WorldOK
<1>2. CASE rec' = rec
  BY <1>1, <1>2
<1>3. ASSUME NEW t \in Threads, NEW r, rec' = [rec EXCEPT ![t] = r],
             r.pc \in {"none", "lock", "query", "update"}, r.found \subseteq 1 .. born,
             r = [pc |-> r.pc, found |-> r.found]
      PROVE  RecOK'
  <2>1. r.found \subseteq Hosts
    BY <1>3, HostsOfUses
  <2>2. r \in [pc : {"none", "lock", "query", "update"}, found : SUBSET Hosts]
    BY <1>3, <2>1
  <2>3. rec' \in [Threads -> [pc : {"none", "lock", "query", "update"}, found : SUBSET Hosts]]
    BY <1>3, <2>2
  <2>4. \A u \in Threads : rec'[u].found \subseteq 1 .. born
    BY <1>3
  <2>5. QED
    BY <1>1, <2>3, <2>4
<1>4. ASSUME NEW t \in Threads, rec' = [rec EXCEPT ![t].pc = "lock"]
      PROVE  RecOK'
  <2> DEFINE r == [rec[t] EXCEPT !.pc = "lock"]
  <2>1. rec' = [rec EXCEPT ![t] = r] /\ r = [pc |-> "lock", found |-> rec[t].found]
    BY <1>4
  <2>2. rec[t].found \subseteq 1 .. born
    OBVIOUS
  <2> HIDE DEF r
  <2>3. r.pc = "lock" /\ r.found = rec[t].found
    BY <2>1
  <2>4. QED
    BY <1>3, <2>1, <2>2, <2>3
<1>5. ASSUME NEW t \in Threads,
             RecoverLock(t) \/ RecoverResolved(t) \/ RecoverStay(t) \/ RecoverSwitch(t)
      PROVE  RecOK'
  <2>1. \/ rec' = [rec EXCEPT ![t] = NoRec]
        \/ rec' = [rec EXCEPT ![t] = [pc |-> "query", found |-> {}]]
        \/ \E hs \in SUBSET up : rec' = [rec EXCEPT ![t] = [pc |-> "update", found |-> hs]]
    BY <1>5 DEF RecoverLock, RecoverResolved, RecoverStay, RecoverSwitch, Query
  <2>2. PICK p \in {"none", "query", "update"}, hs \in SUBSET up :
          rec' = [rec EXCEPT ![t] = [pc |-> p, found |-> hs]]
    BY <2>1 DEF NoRec
  <2>3. hs \subseteq 1 .. born
    BY DEF WorldOK
  <2>4. QED
    BY <1>3, <2>2, <2>3
<1>6. CASE Conn
  <2>1. CASE HostStarts \/ HostStops \/ TimePasses \/ Disengage
    BY <1>2, <2>1 DEF HostStarts, HostStops, TimePasses, Disengage, connVars
  <2>2. CASE \E t \in Threads : RecoverStep(t)
    BY <1>5, <2>2 DEF RecoverStep
  <2>3. CASE Watchdog
    <3>1. rec' = rec \/ rec' = [rec EXCEPT !["watchdog"].pc = "lock"]
      BY <2>3 DEF Watchdog
    <3>2. QED
      BY <1>2, <1>4, <3>1 DEF Threads
  <2>4. QED
    BY <1>6, <2>1, <2>2, <2>3 DEF Conn
<1>7. CASE Switch
  BY <1>5, <1>7 DEF Switch
<1>8. CASE Data
  <2>1. rec' = rec \/ rec' = [rec EXCEPT !["data"].pc = "lock"]
    BY <1>8 DEF Data, DataThread, DataBegin, DataTest, DataConnect, DataConnected, DataStream,
                DataCancelled, DataRecovered, DataEnds, DataNegotiated, DataSample, DataError,
                Open, CloseStream, Pull, PullPops, connVars, RecoverFromError
  <2>2. QED
    BY <1>2, <1>4, <2>1 DEF Threads, Streams
<1>9. CASE InfoNext
  <2>1. rec' = rec \/ rec' = [rec EXCEPT !["info"].pc = "lock"]
    BY <1>9 DEF InfoNext, InfoThread, InfoBegin, InfoTest, InfoConnect, InfoCancelled,
                 InfoAnswered, InfoRead, InfoError, Info, connVars, RecoverFromError
  <2>2. QED
    BY <1>2, <1>4, <2>1 DEF Threads, Streams
<1>10. CASE TimeNext \/ Wait \/ TimesOut \/ Destroy \/ UNCHANGED vars
  <2>1. rec' = rec
    BY <1>10 DEF TimeNext, TimeThread, StartWave, Aggregate, NextProbe, Receive, TimeCorrection,
                 WasReset, TimeStopped, connVars, Wait, TimesOut, Destroy, vars
  <2>2. QED
    BY <1>2, <2>1
<1>11. QED
  BY <1>6, <1>7, <1>8, <1>9, <1>10 DEF Next

-----------------------------------------------------------------------------
(* The streams and their host.                                             *)
StreamInv == StreamOK /\ NoStreamOfOldHost

LEMMA StreamsSame == StreamInv /\ UNCHANGED <<stream, host>> => StreamInv'
BY DEF StreamInv, StreamOK, NoStreamOfOldHost

(* One stream changes: what it goes on with is of the present host.        *)
LEMMA OneStream ==
  ASSUME StreamInv, NEW r \in Streams, NEW s \in Buf, stream' = [stream EXCEPT ![r] = s],
         host' = host, s.state = "on" /\ s.at # 0 => s.at = host
  PROVE  StreamInv'
<1>1. stream \in [Streams -> Buf]
  BY DEF StreamInv, StreamOK
<1>2. stream' \in [Streams -> Buf]
  BY <1>1
<1>3. \A q \in Streams : stream'[q] = stream[q] \/ stream'[q] = s
  BY <1>1
<1>4. NoStreamOfOldHost'
  BY <1>3 DEF NoStreamOfOldHost, StreamInv
<1>5. QED
  BY <1>2, <1>4 DEF StreamInv, StreamOK

LEMMA UnregisterKeeps ==
  ASSUME StreamInv, NEW r \in Streams, Unregister(r), host' = host
  PROVE  StreamInv'
BY OneStream DEF Unregister, NoStream, Buf

LEMMA ConnectKeeps ==
  ASSUME StreamInv, WorldOK, NEW r \in Streams, Register(r) \/ Endpoint(r), host' = host
  PROVE  StreamInv'
<1>1. CASE Register(r)
  BY <1>1, OneStream DEF Register, Buf
<1>2. CASE Endpoint(r)
  <2> DEFINE s == [stream[r] EXCEPT !.at = host]
  <2>1. stream' = [stream EXCEPT ![r] = s]
    BY <1>2 DEF Endpoint
  <2>2. s \in Buf /\ s.at = host
    BY HostsOfUses DEF StreamInv, StreamOK, Buf
  <2> HIDE DEF s
  <2>3. QED
    BY <2>1, <2>2, OneStream
<1>3. QED
  BY <1>1, <1>2

LEMMA CancelledType ==
  ASSUME NEW s \in Buf
  PROVE  Cancelled(s) \in Buf /\ Cancelled(s).state # "on" /\ Cancelled(s).at = s.at
BY DEF Cancelled, Buf

LEMMA CancelAllKeeps == StreamInv /\ CancelAll => StreamInv'
<1> SUFFICES ASSUME StreamInv, CancelAll
             PROVE  StreamInv'
  OBVIOUS
<1>1. \A r \in Streams : stream'[r] \in Buf /\ stream'[r].state # "on"
  BY CancelledType DEF CancelAll, StreamInv, StreamOK
<1>2. stream' \in [Streams -> Buf]
  BY <1>1 DEF CancelAll
<1>3. QED
  BY <1>1, <1>2 DEF StreamInv, StreamOK, NoStreamOfOldHost

LEMMA StreamStep == StreamInv /\ WorldOK /\ [Next]_vars => StreamInv'
<1> SUFFICES ASSUME StreamInv, WorldOK, [Next]_vars
             PROVE  StreamInv'
  OBVIOUS
<1>0. "data" \in Streams /\ "info" \in Streams
  BY DEF Streams
<1>1. CASE Conn
  <2>1. CASE Disengage
    BY <2>1, StreamsSame, CancelAllKeeps DEF Disengage
  <2>2. CASE ~Disengage
    BY <1>1, <2>2, StreamsSame
       DEF Conn, HostStarts, HostStops, TimePasses, RecoverStep, Watchdog, connVars
  <2>3. QED
    BY <2>1, <2>2
<1>2. CASE Switch
  BY <1>2, CancelAllKeeps DEF Switch, RecoverSwitch
<1>3. CASE Data
  <2>1. CASE DataConnect
    BY <1>0, <2>1, StreamsSame, ConnectKeeps DEF DataConnect
  <2>2. CASE DataStream
    BY <1>0, <2>2, StreamsSame, UnregisterKeeps DEF DataStream
  <2>3. CASE DataSample
    <3>1. CASE UNCHANGED stream
      BY <2>3, <3>1, StreamsSame DEF DataSample
    <3>2. CASE stream' = [stream EXCEPT !["data"].state = "failed"]
      <4> DEFINE s == [stream["data"] EXCEPT !.state = "failed"]
      <4>1. s \in Buf /\ s.state = "failed"
        BY <1>0 DEF StreamInv, StreamOK, Buf
      <4>2. stream' = [stream EXCEPT !["data"] = s] /\ host' = host
        BY <2>3, <3>2 DEF DataSample
      <4> HIDE DEF s
      <4>3. QED
        BY <1>0, <4>1, <4>2, OneStream
    <3>3. QED
      BY <2>3, <3>1, <3>2 DEF DataSample
  <2>4. CASE DataError \/ DataCancelled
    BY <1>0, <2>4, UnregisterKeeps DEF DataCancelled, DataError
  <2>5. CASE CloseStream
    <3>1. Cancelled(stream["data"]) \in Buf /\ Cancelled(stream["data"]).state # "on"
      BY <1>0, CancelledType DEF StreamInv, StreamOK
    <3>2. stream' = [stream EXCEPT !["data"] = Cancelled(stream["data"])] /\ host' = host
      BY <2>5 DEF CloseStream
    <3>3. QED
      BY <1>0, <3>1, <3>2, OneStream
  <2>6. CASE \/ DataBegin \/ DataTest \/ DataConnected \/ DataRecovered \/ DataEnds
             \/ DataNegotiated \/ Open \/ Pull \/ PullPops
    BY <2>6, StreamsSame
       DEF DataBegin, DataTest, DataConnected, DataRecovered, DataEnds, DataNegotiated, Open,
           Pull, PullPops, connVars
  <2>7. QED
    BY <1>3, <2>1, <2>2, <2>3, <2>4, <2>5, <2>6 DEF Data, DataThread
<1>4. CASE InfoNext
  <2>1. CASE InfoConnect
    BY <1>0, <2>1, StreamsSame, ConnectKeeps DEF InfoConnect
  <2>2. CASE InfoRead \/ InfoError \/ InfoCancelled
    BY <1>0, <2>2, UnregisterKeeps DEF InfoRead, InfoCancelled, InfoError
  <2>3. CASE InfoBegin \/ InfoTest \/ InfoAnswered \/ Info
    BY <2>3, StreamsSame DEF InfoBegin, InfoTest, InfoAnswered, Info, connVars
  <2>4. QED
    BY <1>4, <2>1, <2>2, <2>3 DEF InfoNext, InfoThread
<1>5. CASE TimeNext \/ Wait \/ TimesOut \/ Destroy \/ UNCHANGED vars
  BY <1>5, StreamsSame
     DEF TimeNext, TimeThread, StartWave, Aggregate, NextProbe, Receive, TimeCorrection, WasReset,
         TimeStopped, connVars, Wait, TimesOut, Destroy, vars
<1>6. QED
  BY <1>1, <1>2, <1>3, <1>4, <1>5 DEF Next

-----------------------------------------------------------------------------
(* The waves of probes.                                                    *)
LEMMA WaveSame == WaveInv /\ UNCHANGED <<sent, asked, network, estimates, offset>> => WaveInv'
BY DEF WaveInv, TimeOK, RepliesOfAsked, OffsetOfItsWave

(* A reply to a probe of an earlier wave is still a reply.                 *)
LEMMA LateReply ==
  ASSUME NEW r \in Reply
  PROVE  [r EXCEPT !.new = FALSE] \in Reply /\ ~[r EXCEPT !.new = FALSE].new
<1> DEFINE P == 1 .. NumProbes
<1>1. r \in [new : BOOLEAN, from : Hosts, probe : P]
  BY DEF Reply
<1>2. SUFFICES /\ [r EXCEPT !.new = FALSE] \in [new : BOOLEAN, from : Hosts, probe : P]
               /\ ~[r EXCEPT !.new = FALSE].new
  BY DEF Reply
<1> HIDE DEF P
<1>3. QED
  BY <1>1

LEMMA ProbeKeeps ==
  ASSUME WorldOK, TimeOK, NEW n \in 1 .. NumProbes, NEW hosts \in SUBSET Hosts,
         NEW late \in SUBSET Reply, \A r \in late : r.new => r.from \in hosts,
         SendProbe(n, hosts, late)
  PROVE  /\ sent' \in Nat /\ asked' \subseteq Hosts /\ network' \subseteq Reply
         /\ hosts \subseteq asked' /\ RepliesOfAsked'
<1>1. host \in Hosts
  BY HostsOfUses
<1>2. [new |-> TRUE, from |-> host, probe |-> n] \in Reply
  BY <1>1 DEF Reply
<1>3. network' \subseteq late \cup {[new |-> TRUE, from |-> host, probe |-> n]}
  BY DEF SendProbe
<1>4. sent' = n /\ asked' = hosts \cup {host}
  BY DEF SendProbe
<1>5. network' \subseteq Reply
  BY <1>2, <1>3
<1>6. RepliesOfAsked'
  BY <1>3, <1>4 DEF RepliesOfAsked
<1>7. QED
  BY <1>1, <1>4, <1>5, <1>6

LEMMA WaveStep == WaveInv /\ WorldOK /\ [Next]_vars => WaveInv'
<1> SUFFICES ASSUME WaveInv, WorldOK, [Next]_vars
             PROVE  WaveInv'
  OBVIOUS
<1>1. CASE TimeNext
  <2>1. CASE StartWave
    <3> DEFINE late == {[r EXCEPT !.new = FALSE] : r \in network}
    <3>0. \A r \in network : r \in Reply
      BY DEF WaveInv, TimeOK
    <3>1. \A r \in late : r \in Reply /\ ~r.new
      <4> SUFFICES ASSUME NEW r \in network
                   PROVE  /\ [r EXCEPT !.new = FALSE] \in Reply
                          /\ ~[r EXCEPT !.new = FALSE].new
        OBVIOUS
      <4>1. r \in Reply
        BY <3>0
      <4>2. QED
        BY <4>1, LateReply
    <3>2. estimates' = {} /\ offset' = offset /\ SendProbe(1, {}, late)
      BY <2>1 DEF StartWave
    <3> HIDE DEF late
    <3>3. /\ sent' \in Nat /\ asked' \subseteq Hosts /\ network' \subseteq Reply
          /\ RepliesOfAsked'
      BY <3>1, <3>2, ProbeKeeps, TimeAssumption DEF WaveInv
    <3>4. QED
      BY <3>2, <3>3 DEF WaveInv, TimeOK, OffsetOfItsWave
  <2>2. CASE NextProbe
    <3>1. /\ sent + 1 \in 1 .. NumProbes /\ SendProbe(sent + 1, asked, network)
          /\ UNCHANGED <<estimates, offset>>
      BY <2>2, TimeAssumption DEF NextProbe
    <3>2. /\ sent' \in Nat /\ asked' \subseteq Hosts /\ network' \subseteq Reply
          /\ asked \subseteq asked' /\ RepliesOfAsked'
      BY <3>1, ProbeKeeps DEF WaveInv, TimeOK, RepliesOfAsked
    <3>3. QED
      BY <3>1, <3>2 DEF WaveInv, TimeOK, OffsetOfItsWave
  <2>3. CASE Receive
    <3>1. PICK r \in network :
            /\ network' = network \ {r}
            /\ \/ r.new /\ estimates' = estimates \cup {<<r.from, r.probe>>}
               \/ UNCHANGED estimates
      BY <2>3 DEF Receive
    <3>2. r.from \in Hosts /\ (r.new => r.from \in asked)
      BY DEF WaveInv, TimeOK, Reply, RepliesOfAsked
    <3>3. UNCHANGED <<sent, asked, offset>>
      BY <2>3 DEF Receive
    <3>4. \A e \in estimates' : e[1] \in Hosts /\ e[1] \in asked
      BY <3>1, <3>2 DEF WaveInv, TimeOK, OffsetOfItsWave
    <3>5. QED
      BY <3>1, <3>3, <3>4 DEF WaveInv, TimeOK, RepliesOfAsked, OffsetOfItsWave
  <2>4. CASE Aggregate
    <3>1. /\ UNCHANGED <<sent, asked, network, estimates>>
          /\ offset' = offset \/ \E e \in estimates : offset' = e[1]
      BY <2>4 DEF Aggregate
    <3>2. offset' \in {0} \cup Hosts
      BY <3>1 DEF WaveInv, TimeOK
    <3>3. QED
      BY <3>1, <3>2 DEF WaveInv, TimeOK, RepliesOfAsked, OffsetOfItsWave
  <2>5. CASE TimeCorrection \/ WasReset \/ TimeStopped
    BY <2>5, WaveSame DEF TimeCorrection, WasReset, TimeStopped
  <2>6. QED
    BY <1>1, <2>1, <2>2, <2>3, <2>4, <2>5 DEF TimeNext, TimeThread
<1>2. CASE Switch
  BY <1>2 DEF Switch, ResetOffset, WaveInv, TimeOK, RepliesOfAsked, OffsetOfItsWave
<1>3. CASE UNCHANGED timeVars
  BY <1>3, WaveSame DEF timeVars
<1>4. QED
  BY <1>1, <1>2, <1>3 DEF Next, Wait, TimesOut, Destroy, vars

-----------------------------------------------------------------------------
(* The receivers at work, and their number.                                *)
Working == {i \in {"d", "i", "t"} :
              \/ i = "d" /\ dpc \notin {"off", "start", "end"}
              \/ i = "i" /\ ipc \notin {"off", "start", "end"}
              \/ i = "t" /\ tpc \in {"probing", "pausing"}}

ActiveOK == active = Cardinality(Working)

LEMMA WorkingFinite == IsFiniteSet(Working) /\ IsFiniteSet(Working')
<1>1. IsFiniteSet({"d", "i", "t"})
  <2>1. {"d", "i", "t"} = ({"d"} \cup {"i"}) \cup {"t"}
    OBVIOUS
  <2>2. IsFiniteSet({"d"} \cup {"i"})
    BY FS_Singleton, FS_Union
  <2>3. IsFiniteSet(({"d"} \cup {"i"}) \cup {"t"})
    BY <2>2, FS_Singleton, FS_Union
  <2>4. QED
    BY <2>1, <2>3
<1>2. Working \subseteq {"d", "i", "t"} /\ Working' \subseteq {"d", "i", "t"}
  BY DEF Working
<1>3. QED
  BY <1>1, <1>2, FS_Subset

LEMMA ActiveKeeps ==
  ASSUME ActiveOK,
         \/ Working' = Working /\ active' = active
         \/ \E i : i \notin Working /\ Working' = Working \cup {i} /\ active' = active + 1
         \/ \E i : i \in Working /\ Working' = Working \ {i} /\ active' = active - 1
  PROVE  ActiveOK'
<1>1. CASE Working' = Working /\ active' = active
  BY <1>1 DEF ActiveOK
<1>2. CASE \E i : i \notin Working /\ Working' = Working \cup {i} /\ active' = active + 1
  BY <1>2, WorkingFinite, FS_AddElement DEF ActiveOK
<1>3. CASE \E i : i \in Working /\ Working' = Working \ {i} /\ active' = active - 1
  BY <1>3, WorkingFinite, FS_RemoveElement DEF ActiveOK
<1>4. QED
  BY <1>1, <1>2, <1>3

LEMMA ActiveStep == ActiveOK /\ [Next]_vars => ActiveOK'
<1> SUFFICES ASSUME ActiveOK, [Next]_vars
             PROVE  ActiveOK'
  OBVIOUS
<1>0. ASSUME Working' = Working, active' = active
      PROVE  ActiveOK'
  BY <1>0, ActiveKeeps
<1>1. CASE Conn /\ UNCHANGED <<dataVars, infoVars, timeVars>>
  <2>1. active' = active
    BY <1>1 DEF Conn, HostStarts, HostStops, TimePasses, RecoverStep, Watchdog, Disengage, connVars
  <2>2. Working' = Working
    BY <1>1 DEF Working, dataVars, infoVars, timeVars
  <2>3. QED
    BY <1>0, <2>1, <2>2
<1>2. CASE Switch
  <2>1. UNCHANGED <<active, dpc, ipc, tpc>>
    BY <1>2 DEF Switch, RecoverSwitch, ResetOffset, dataVars, infoVars
  <2>2. QED
    BY <1>0, <2>1 DEF Working
<1>3. CASE Data /\ UNCHANGED <<infoVars, timeVars>>
  <2>0. UNCHANGED <<ipc, tpc>>
    BY <1>3 DEF infoVars, timeVars
  <2>1. CASE DataBegin
    <3>1. "d" \notin Working /\ Working' = Working \cup {"d"} /\ active' = active + 1
      BY <2>0, <2>1 DEF DataBegin, Working
    <3>2. QED
      BY <3>1, ActiveKeeps
  <2>2. CASE DataEnds
    <3>1. CASE dpc = "sentinel"
      <4>1. UNCHANGED active /\ dpc' = "release"
        BY <2>2, <3>1 DEF DataEnds
      <4>2. QED
        BY <1>0, <2>0, <3>1, <4>1 DEF Working
    <3>2. CASE dpc = "release"
      <4>1. "d" \in Working /\ Working' = Working \ {"d"} /\ active' = active - 1
        BY <2>0, <2>2, <3>2 DEF DataEnds, Working
      <4>2. QED
        BY <4>1, ActiveKeeps
    <3>3. QED
      BY <2>2, <3>1, <3>2 DEF DataEnds
  <2>3. CASE \/ DataTest \/ DataConnect \/ DataConnected \/ DataStream \/ DataRecovered
             \/ DataNegotiated \/ DataSample \/ DataError \/ DataCancelled
    <3>1. /\ active' = active
          /\ dpc \notin {"off", "start", "end"} /\ dpc' \notin {"off", "start", "end"}
      BY <2>3 DEF DataTest, DataConnect, DataConnected, DataStream, DataRecovered, DataNegotiated,
                  DataSample, DataError, DataCancelled, RecoverFromError, connVars
    <3>2. QED
      BY <1>0, <2>0, <3>1 DEF Working
  <2>4. CASE Open \/ CloseStream \/ Pull \/ PullPops
    <3>1. active' = active /\ (dpc' = dpc \/ (dpc = "off" /\ dpc' = "start"))
      BY <2>4 DEF Open, CloseStream, Pull, PullPops, StartData, connVars
    <3>2. QED
      BY <1>0, <2>0, <3>1 DEF Working
  <2>5. QED
    BY <1>3, <2>1, <2>2, <2>3, <2>4 DEF Data, DataThread
<1>4. CASE InfoNext /\ UNCHANGED <<dataVars, timeVars>>
  <2>0. UNCHANGED <<dpc, tpc>>
    BY <1>4 DEF dataVars, timeVars
  <2>1. CASE InfoBegin
    <3>1. CASE ipc = "start"
      <4>1. "i" \notin Working /\ Working' = Working \cup {"i"} /\ active' = active + 1
        BY <2>0, <2>1, <3>1 DEF InfoBegin, Working
      <4>2. QED
        BY <4>1, ActiveKeeps
    <3>2. CASE ipc = "release"
      <4>1. "i" \in Working /\ Working' = Working \ {"i"} /\ active' = active - 1
        BY <2>0, <2>1, <3>2 DEF InfoBegin, Working
      <4>2. QED
        BY <4>1, ActiveKeeps
    <3>3. QED
      BY <2>1, <3>1, <3>2 DEF InfoBegin
  <2>2. CASE InfoTest \/ InfoConnect \/ InfoAnswered \/ InfoRead \/ InfoError \/ InfoCancelled
    <3>1. /\ active' = active
          /\ ipc \notin {"off", "start", "end"} /\ ipc' \notin {"off", "start", "end"}
      BY <2>2 DEF InfoTest, InfoConnect, InfoAnswered, InfoRead, InfoError, InfoCancelled,
                  RecoverFromError, connVars
    <3>2. QED
      BY <1>0, <2>0, <3>1 DEF Working
  <2>3. CASE Info
    <3>1. active' = active /\ (ipc' = ipc \/ (ipc = "off" /\ ipc' = "start"))
      BY <2>3 DEF Info, connVars
    <3>2. QED
      BY <1>0, <2>0, <3>1 DEF Working
  <2>4. QED
    BY <1>4, <2>1, <2>2, <2>3 DEF InfoNext, InfoThread
<1>5. CASE TimeNext /\ UNCHANGED <<dataVars, infoVars>>
  <2>0. UNCHANGED <<dpc, ipc>>
    BY <1>5 DEF dataVars, infoVars
  <2>1. CASE StartWave
    <3>1. CASE tpc = "start"
      <4>1. "t" \notin Working /\ Working' = Working \cup {"t"} /\ active' = active + 1
        BY <2>0, <2>1, <3>1 DEF StartWave, Working
      <4>2. QED
        BY <4>1, ActiveKeeps
    <3>2. CASE tpc = "pausing"
      BY <1>0, <2>0, <2>1, <3>2 DEF StartWave, Working
    <3>3. QED
      BY <2>1, <3>1, <3>2 DEF StartWave
  <2>2. CASE TimeStopped
    <3>1. CASE tpc \in {"probing", "pausing"}
      <4>1. "t" \in Working /\ Working' = Working \ {"t"} /\ active' = active - 1
        BY <2>0, <2>2, <3>1 DEF TimeStopped, Working
      <4>2. QED
        BY <4>1, ActiveKeeps
    <3>2. CASE tpc \notin {"probing", "pausing"}
      BY <1>0, <2>0, <2>2, <3>2 DEF TimeStopped, Working
    <3>3. QED
      BY <3>1, <3>2
  <2>3. CASE Aggregate \/ NextProbe \/ Receive \/ TimeCorrection \/ WasReset
    <3>1. /\ active' = active
          /\ \/ tpc' = tpc
             \/ tpc = "probing" /\ tpc' = "pausing"
             \/ tpc = "off" /\ tpc' = "start"
      BY <2>3 DEF Aggregate, NextProbe, Receive, TimeCorrection, WasReset, connVars
    <3>2. QED
      BY <1>0, <2>0, <3>1 DEF Working
  <2>4. QED
    BY <1>5, <2>1, <2>2, <2>3 DEF TimeNext, TimeThread
<1>6. CASE Wait \/ TimesOut \/ Destroy \/ UNCHANGED vars
  <2>1. UNCHANGED <<active, dpc, ipc, tpc>>
    BY <1>6 DEF Wait, TimesOut, Destroy, vars, connVars, dataVars, infoVars, timeVars
  <2>2. QED
    BY <1>0, <2>1 DEF Working
<1>7. QED
  BY <1>1, <1>2, <1>3, <1>4, <1>5, <1>6 DEF Next

-----------------------------------------------------------------------------
(* The queue.                                                              *)
LEMMA PushKeeps ==
  ASSUME QueueOK, NEW x \in {"sample", "sentinel"}, Push(x)
  PROVE  QueueOK'
<1> DEFINE E == {"sample", "sentinel"}
<1> USE DataAssumption
<1>1. queue \in Seq(E) /\ Len(queue) \in Nat /\ Len(queue) <= MaxSamples
  BY DEF QueueOK
<1> HIDE DEF E
<1>2. CASE Len(queue) = MaxSamples
  <2>1. Tail(queue) \in Seq(E) /\ Len(Tail(queue)) = Len(queue) - 1
    BY <1>1, <1>2
  <2>2. queue' = Append(Tail(queue), x) /\ x \in E
    BY <1>2 DEF Push, E
  <2>3. queue' \in Seq(E) /\ Len(queue') = MaxSamples
    BY <1>2, <2>1, <2>2
  <2>4. QED
    BY <2>3 DEF QueueOK, E
<1>3. CASE Len(queue) # MaxSamples
  <2>1. queue' = Append(queue, x) /\ x \in E
    BY <1>3 DEF Push, E
  <2>2. queue' \in Seq(E) /\ Len(queue') = Len(queue) + 1
    BY <1>1, <2>1
  <2>3. QED
    BY <1>1, <1>3, <2>2 DEF QueueOK, E
<1>4. QED
  BY <1>2, <1>3

LEMMA QueueStep == QueueOK /\ [Next]_vars => QueueOK'
<1> SUFFICES ASSUME QueueOK, [Next]_vars
             PROVE  QueueOK'
  OBVIOUS
<1>1. CASE queue' = queue
  BY <1>1 DEF QueueOK
<1>2. CASE DataSample \/ DataEnds
  BY <1>1, <1>2, PushKeeps DEF DataSample, DataEnds
<1>3. CASE PullPops
  <2> DEFINE E == {"sample", "sentinel"}
  <2>1. queue \in Seq(E) /\ queue # <<>> /\ queue' = Tail(queue)
    BY <1>3 DEF PullPops, QueueOK
  <2> HIDE DEF E
  <2>2. queue' \in Seq(E) /\ Len(queue') = Len(queue) - 1 /\ Len(queue) \in Nat
    BY <2>1
  <2>3. QED
    BY <2>2, DataAssumption DEF QueueOK, E
<1>4. CASE Data /\ ~DataSample /\ ~DataEnds /\ ~PullPops
  BY <1>1, <1>4 DEF Data, DataThread, DataBegin, DataTest, DataConnect, DataConnected, DataStream,
                    DataCancelled, DataRecovered, DataNegotiated, DataError, Open, CloseStream,
                    Pull
<1>5. CASE UNCHANGED dataVars
  BY <1>1, <1>5 DEF dataVars
<1>6. QED
  BY <1>2, <1>3, <1>4, <1>5 DEF Next, Switch, Wait, TimesOut, Destroy, vars

-----------------------------------------------------------------------------
Inv == WorldOK /\ RecOK /\ StreamInv /\ ActiveOK /\ QueueOK /\ WaveInv

THEOREM Invariant == FairSpec => []Inv
<1>1. Init => Inv
  <2> SUFFICES ASSUME Init
               PROVE  Inv
    OBVIOUS
  <2>1. Working = {} /\ active = 0
    BY DEF Init, ConnInit, DataInit, InfoInit, TimeInit, Working
  <2>2. ActiveOK
    BY <2>1, FS_EmptySet DEF ActiveOK
  <2>3. QED
    BY <2>2, InitOK DEF Inv, StreamInv
<1>2. Inv /\ [Next]_vars => Inv'
  BY WorldStep, RecStep, StreamStep, ActiveStep, QueueStep, WaveStep DEF Inv
<1>3. QED
  BY <1>1, <1>2, PTL DEF FairSpec

(* Every variable has its type, and the watchdog's count of transmissions  *)
(* is the number of receivers at work: none of the three is registered     *)
(* twice, or forgotten when it ends (inlet_connection.cpp:254-263).        *)
THEOREM TypeCorrect == FairSpec => []TypeOK
<1>1. Inv => TypeOK
  <2> SUFFICES ASSUME Inv
               PROVE  TypeOK
    OBVIOUS
  <2>1. born \in Hosts
    BY HostsOfUses DEF Inv, WorldOK
  <2>2. QED
    BY <2>1 DEF TypeOK, Inv, WorldOK, RecOK, StreamInv, StreamOK, Buf, ActiveOK, Working, QueueOK,
                WaveInv, TimeOK
<1>2. QED
  BY <1>1, Invariant, PTL

(* After a recovery no receiver goes on with a stream of the old host,     *)
(* however the recovery of one thread and the connecting of another        *)
(* interleave (inlet_connection.cpp:180-182).                              *)
THEOREM OldHostGone == FairSpec => []NoStreamOfOldHost
BY Invariant, PTL DEF Inv, StreamInv

(* An offset comes from hosts the present wave has asked, whatever replies *)
(* the network delays and however often the host is replaced               *)
(* (time_receiver.cpp:118, 177).                                           *)
THEOREM OffsetOfWave == FairSpec => []OffsetOfItsWave
BY Invariant, PTL DEF Inv, WaveInv
=============================================================================
