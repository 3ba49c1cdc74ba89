---------------------------- MODULE DataReceiver ----------------------------
(***************************************************************************)
(* The data_receiver of an inlet (data_receiver.cpp): the data thread and  *)
(* the calls open_stream, close_stream and pull_sample of the user.        *)
(*                                                                         *)
(* The negotiation of the protocol is one step that succeeds only with a   *)
(* running host; it may always fail, and a host that is down may be        *)
(* silent.  A sample is only a sample; the queue is as described in        *)
(* ConsumerQueue and keeps the newest MaxSamples.                          *)
(***************************************************************************)
EXTENDS InletConnection, SequencesExt

CONSTANT MaxSamples   \* bound: max_buflen_

(* The constructor also takes 0, for which push_sample would never return. *)
ASSUME DataAssumption == MaxSamples \in Nat \ {0}

VARIABLES
  dpc,         \* the data thread: "off" until it is created, then "start",
               \* "test", "register", "endpoint", "negotiate", "connected",
               \* "stream", "read", "recover", "sentinel", "release" and "end"
  checkStart,  \* check_thread_start_
  closing,     \* closing_stream_
  connected,   \* connected_
  queue        \* sample_queue_: samples, and sentinels of the thread's end

dataVars == <<dpc, checkStart, closing, connected, queue>>

DataInit ==
  /\ dpc = "off" /\ checkStart = TRUE /\ closing = FALSE /\ connected = FALSE
  /\ queue = <<>>

Push(x) == queue' = Append(IF Len(queue) = MaxSamples THEN Tail(queue) ELSE queue, x)

(* The conditions of the outer and of the inner loop.                      *)
Running == ~lost /\ ~shutdown /\ ~closing

-----------------------------------------------------------------------------
(* The data thread.                                                        *)
DataBegin ==
  /\ dpc = "start"
  /\ active' = active + 1
  /\ dpc' = "test"
  /\ UNCHANGED <<host, lost, shutdown, resolver, registryOff, stream, rec, wpc, recent, user,
                 checkStart, closing, connected, queue>>

DataTest ==
  /\ dpc = "test"
  /\ dpc' = IF Running THEN "register" ELSE "release"
  /\ UNCHANGED <<connVars, user, checkStart, closing, connected, queue>>

(* A new streambuf, registered at the connection and at this receiver.     *)
DataConnect ==
  /\ \/ dpc = "register" /\ Register("data") /\ dpc' = "endpoint"
     \/ dpc = "register" /\ registryOff /\ dpc' = "sentinel" /\ UNCHANGED stream
     \/ dpc = "endpoint" /\ Endpoint("data") /\ dpc' = "negotiate"
  /\ UNCHANGED <<host, lost, shutdown, resolver, registryOff, rec, wpc, active, recent, user,
                 checkStart, closing, connected, queue>>

DataNegotiated ==
  /\ dpc = "negotiate"
  /\ stream["data"].state = "on" /\ stream["data"].at \in up
  /\ dpc' = "connected"
  /\ UNCHANGED <<connVars, user, checkStart, closing, connected, queue>>

(* connected_ is set under the mutex that open_stream holds until it       *)
(* sleeps.                                                                 *)
DataConnected ==
  /\ dpc = "connected" /\ user # <<"open", "drowsy">>
  /\ connected' = TRUE
  /\ user' = IF user[1] = "open" THEN Notified ELSE user
  /\ dpc' = "stream"
  /\ UNCHANGED <<connVars, checkStart, closing, queue>>

DataStream ==
  /\ dpc = "stream"
  /\ IF Running THEN dpc' = "read" /\ UNCHANGED stream
                ELSE dpc' = "test" /\ Unregister("data")
  /\ UNCHANGED <<host, lost, shutdown, resolver, registryOff, rec, wpc, active, recent, user,
                 checkStart, closing, connected, queue>>

(* A sample; or, once, old bytes that a cancelled read hands out again, see*)
(* CancellableStreambuf.                                                   *)
DataSample ==
  /\ dpc = "read"
  /\ \/ stream["data"].state = "on" /\ stream["data"].at \in up /\ UNCHANGED stream
     \/ stream["data"].state = "cancelled" /\ stream' = [stream EXCEPT !["data"].state = "failed"]
  /\ Push("sample")
  /\ recent' = TRUE
  /\ dpc' = "stream"
  /\ UNCHANGED <<host, lost, shutdown, resolver, registryOff, rec, wpc, active, user,
                 checkStart, closing, connected>>

(* A connection fails: surely if it has been cancelled, else perhaps.      *)
DataError ==
  /\ dpc \in {"negotiate", "read"}
  /\ Unregister("data")
  /\ RecoverFromError("data", dpc, "test", "sentinel")
  /\ UNCHANGED <<host, shutdown, resolver, registryOff, wpc, active, recent,
                 checkStart, closing, connected, queue>>

DataCancelled == stream["data"].state # "on" /\ DataError

DataRecovered ==
  /\ dpc = "recover" /\ rec["data"] = NoRec
  /\ dpc' = "test"
  /\ UNCHANGED <<connVars, user, checkStart, closing, connected, queue>>

(* Fault: the user is not woken when the stream is lost.                   *)
DataEndsSilently ==
  /\ dpc \in {"sentinel", "release"}
  /\ dpc' = IF dpc = "sentinel" THEN "release" ELSE "end"
  /\ active' = IF dpc = "release" THEN active - 1 ELSE active
  /\ UNCHANGED <<host, lost, shutdown, resolver, registryOff, stream, rec, wpc, recent, user,
                 checkStart, closing, connected, queue>>

(* The end, after a lost_error with a sentinel for a waiting user.  The    *)
(* thread stays joinable.                                                  *)
DataEnds ==
  /\ \/ dpc = "sentinel" /\ dpc' = "release" /\ Push("sentinel") /\ UNCHANGED active
     \/ dpc = "release" /\ dpc' = "end" /\ active' = active - 1 /\ UNCHANGED queue
  /\ UNCHANGED <<host, lost, shutdown, resolver, registryOff, stream, rec, wpc, recent, user,
                 checkStart, closing, connected>>

(* What the thread does unless it waits for its peer.                      *)
DataThread ==
  \/ DataBegin \/ DataTest \/ DataConnect \/ DataConnected \/ DataStream
  \/ DataCancelled \/ DataRecovered \/ DataEnds

-----------------------------------------------------------------------------
(* The user.  data_thread_ is joinable from its creation on.               *)
StartData ==
  IF checkStart /\ dpc = "off"
    THEN dpc' = "start" /\ checkStart' = FALSE
    ELSE UNCHANGED <<dpc, checkStart>>

(* open_stream: it returns at once, or starts the thread and waits.        *)
Open ==
  /\ Calls("open")
  /\ closing' = FALSE
  /\ IF connected \/ lost THEN UNCHANGED <<user, dpc, checkStart>>
                          ELSE user' = <<"open", "drowsy">> /\ StartData
  /\ UNCHANGED <<connVars, connected, queue>>

CloseStream ==
  /\ Calls("close")
  /\ checkStart' = TRUE /\ closing' = TRUE
  /\ stream' = [stream EXCEPT !["data"] = Cancelled(@)]
  /\ UNCHANGED <<host, lost, shutdown, resolver, registryOff, rec, wpc, active, recent, user,
                 dpc, connected, queue>>

(* pull_sample: throw lost_error ...                                       *)
Pull ==
  /\ Calls("pull") /\ ~lost
  /\ user' = <<"pull", "pop">>
  /\ StartData
  /\ UNCHANGED <<connVars, closing, connected, queue>>

(* ... or wait for an element of the queue, sample or sentinel.            *)
PullPops ==
  /\ user = <<"pull", "pop">> /\ queue # <<>>
  /\ queue' = Tail(queue)
  /\ user' = Idle
  /\ UNCHANGED <<connVars, dpc, checkStart, closing, connected>>

Data ==
  /\ \/ DataThread \/ DataNegotiated \/ DataSample \/ DataError
     \/ Open \/ CloseStream \/ Pull \/ PullPops
  /\ UNCHANGED <<settings, world>>
=============================================================================
