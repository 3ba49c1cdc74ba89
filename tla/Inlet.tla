-------------------------------- MODULE Inlet --------------------------------
(***************************************************************************)
(* A stream inlet (stream_inlet_impl.h): the connection, its receivers and *)
(* the application's thread, which calls one operation after the other and *)
(* in the end the destructor.  Hosts come and go under them.               *)
(***************************************************************************)
EXTENDS DataReceiver, InfoReceiver, TimeReceiver

vars == <<settings, world, connVars, user, dataVars, infoVars, timeVars>>

Init == ConnInit /\ DataInit /\ InfoInit /\ TimeInit

-----------------------------------------------------------------------------
(* A recovery to another host, with its callback.                          *)
Switch ==
  /\ \E t \in Threads : RecoverSwitch(t)
  /\ ResetOffset
  /\ UNCHANGED <<dataVars, infoVars>>

(* The waits of open_stream, info and time_correction have one form.       *)
Ready(call) ==
  \/ lost
  \/ call = "open" /\ connected
  \/ call = "info" /\ fullinfo
  \/ call = "time" /\ offset # 0

(* The condition is looked at under the mutex; lost_ is set and notified   *)
(* without it, between the look and the sleep too.                         *)
Wait ==
  /\ \/ user[2] = "check" /\ user' = IF Ready(user[1]) THEN Idle ELSE <<user[1], "drowsy">>
     \/ user[2] = "drowsy" /\ user' = <<user[1], "asleep">>
  /\ UNCHANGED <<settings, world, connVars, dataVars, infoVars, timeVars>>

(* The timeout of a call that has one.                                     *)
TimesOut ==
  /\ user[2] \in {"asleep", "pop"}
  /\ user' = Idle
  /\ UNCHANGED <<settings, world, connVars, dataVars, infoVars, timeVars>>

(* The destructors, in the order of the members: disengage, then the       *)
(* receivers join their threads.                                           *)
Destroy ==
  /\ \/ Calls("destroy") /\ user' = <<"destroy", "flag">>
     \/ user = <<"destroy", "data">> /\ dpc \in {"off", "end"} /\ user' = <<"destroy", "time">>
     \/ user = <<"destroy", "info">> /\ ipc \in {"off", "end"} /\ user' = <<"destroy", "done">>
  /\ UNCHANGED <<settings, world, connVars, dataVars, infoVars, timeVars>>

Next ==
  \/ Conn /\ UNCHANGED <<dataVars, infoVars, timeVars>>
  \/ Switch
  \/ Data /\ UNCHANGED <<infoVars, timeVars>>
  \/ InfoNext /\ UNCHANGED <<dataVars, timeVars>>
  \/ TimeNext /\ UNCHANGED <<dataVars, infoVars>>
  \/ Wait \/ TimesOut \/ Destroy

(* Threads go on, and the threads of the operating system are scheduled;   *)
(* a host that stays up answers a query in the end, and one of many        *)
(* attempts to connect to it succeeds.  Nothing is asked of samples.       *)
OfConn == UNCHANGED <<dataVars, infoVars, timeVars>>
OfData == UNCHANGED <<settings, world, infoVars, timeVars>>

FairSpec ==
  /\ Init /\ [][Next]_vars
  /\ SF_vars(RecoverStep("data") /\ OfConn)
  /\ WF_vars(RecoverStep("info") /\ OfConn) /\ WF_vars(RecoverStep("watchdog") /\ OfConn)
  /\ WF_vars(Switch)
  /\ WF_vars(Watchdog /\ OfConn) /\ WF_vars(Disengage /\ OfConn)
  /\ WF_vars(TimePasses /\ OfConn)
  /\ WF_vars(DataThread /\ OfData)
  /\ SF_vars(DataNegotiated /\ OfData) /\ SF_vars(DataConnected /\ OfData)
  /\ WF_vars(PullPops /\ OfData)
  /\ WF_vars(InfoThread /\ UNCHANGED <<settings, world, dataVars, timeVars>>)
  /\ WF_vars(TimeStopped /\ UNCHANGED <<settings, world, dataVars, infoVars>>)
  /\ WF_vars(Wait) /\ WF_vars(Destroy /\ user # Idle)

-----------------------------------------------------------------------------
TypeOK ==
  /\ born \in Hosts /\ up \subseteq 1 .. born /\ host \in 1 .. born
  /\ stream \in [Streams -> [state : {"none", "on", "cancelled", "failed"}, at : {0} \cup Hosts]]
  /\ rec \in [Threads -> [pc : {"none", "lock", "query", "update"}, found : SUBSET Hosts]]
  /\ active = Cardinality({i \in {"d", "i", "t"} :
                 \/ i = "d" /\ dpc \notin {"off", "start", "end"}
                 \/ i = "i" /\ ipc \notin {"off", "start", "end"}
                 \/ i = "t" /\ tpc \in {"probing", "pausing"}})
  /\ network \subseteq Reply /\ offset \in {0} \cup Hosts
  /\ queue \in Seq({"sample", "sentinel"}) /\ Len(queue) <= MaxSamples

(* After a recovery no receiver goes on with a stream of the old host:     *)
(* whoever registered before the host was replaced is cancelled, whoever   *)
(* comes later gets the new address (inlet_connection.cpp:180-182).        *)
NoStreamOfOldHost ==
  \A r \in Streams : stream[r].state = "on" /\ stream[r].at # 0 => stream[r].at = host

(* An offset comes from replies to probes of the present wave, whatever    *)
(* the network delays (time_receiver.cpp:118, 177): each estimate is of a  *)
(* host this wave has asked.                                               *)
OffsetOfItsWave == \A e \in estimates : e[1] \in asked

(* The destructor returns, wherever it finds the other threads: connected  *)
(* to a silent host, about to register a stream, in a query that nobody    *)
(* answers or waiting for the recovery of another thread                   *)
(* (inlet_connection.cpp:88-101); unless cancel() of the resolver has      *)
(* thrown (:96) while a receiver goes on reading.  It is never left, so a  *)
(* leads-to is here an always-eventually.                                  *)
DestructorReturns ==
  []<>(user[1] = "destroy" =>
         \/ user[2] = "done"
         \/ resolver = "threw" /\ \E r \in Streams : stream[r].state = "on")

(* "The stream will stop reading from the source if destroyed"             *)
(* (stream_inlet_impl.h:49): no receiver goes on with its stream for ever  *)
(* once the destructor has begun.                                          *)
StopsReading == []<>(user[1] = "destroy" => \A r \in Streams : stream[r].state # "on")

(* When the source restarts, and in the end only its last start is there,  *)
(* an inlet that is reading is connected to it again and again, even if    *)
(* the old host left the connection silent (inlet_connection.cpp:207-228). *)
Reading == recoverable /\ dpc \notin {"off", "end"} /\ ~closing /\ ~shutdown
Streaming == dpc \in {"stream", "read"} /\ stream["data"].state = "on"
RecoversFromSilence ==
  <>[](up = {Starts[uses]} /\ Reading) => []<>(host = Starts[uses] /\ Streaming)

(* "since the pull_sample() function may be waiting for the next sample we *)
(* need to wake it up by passing a sentinel" (data_receiver.cpp:301-302):  *)
(* a pull without a timeout ends whoever finds that the stream is lost.    *)
PullEndsWhenLost == []<>(lost => user[1] # "pull")
=============================================================================
