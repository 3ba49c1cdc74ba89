---------------------------- MODULE TimeReceiver ----------------------------
(***************************************************************************)
(* The time_receiver of an inlet (time_receiver.cpp): waves of UDP probes, *)
(* of which the replies are aggregated to a clock offset.                  *)
(*                                                                         *)
(* An offset is known by the host whose clock it is about.  The random id  *)
(* of a wave tells a reply of this wave from an older one and is modelled  *)
(* as that.  A reply may be late, or lost.                                 *)
(***************************************************************************)
EXTENDS InletConnection

CONSTANTS
  NumProbes,   \* time_probe_count
  MinProbes,   \* time_update_minprobes
  MaxInFlight  \* bound: replies on their way that are not lost

ASSUME TimeAssumption ==
  NumProbes \in Nat \ {0} /\ MinProbes \in 1 .. NumProbes /\ MaxInFlight \in Nat

VARIABLES
  tpc,        \* the time thread: "off", "start", "probing", "pausing", "end"
  sent,       \* probes of this wave sent so far
  asked,      \* history: the hosts they were sent to
  network,    \* replies on their way
  estimates,  \* estimates_
  offset,     \* timeoffset_: a host, or 0 for NOT_ASSIGNED
  wasReset    \* was_reset_

timeVars == <<tpc, sent, asked, network, estimates, offset, wasReset>>

Reply == [new : BOOLEAN, from : Hosts, probe : 1 .. NumProbes]

TimeInit ==
  /\ tpc = "off" /\ sent = 0 /\ asked = {} /\ network = {} /\ estimates = {}
  /\ offset = 0 /\ wasReset = FALSE

(* send_next_packet: a host that is up may reply; older packets are `late'.*)
SendProbe(n, hosts, late) ==
  /\ sent' = n
  /\ asked' = hosts \cup {host}
  /\ \/ network' = late
     \/ /\ host \in up /\ Cardinality(late) < MaxInFlight
        /\ network' = late \cup {[new |-> TRUE, from |-> host, probe |-> n]}

(* start_time_estimation, at the start and by next_estimate_.              *)
StartWave ==
  /\ tpc \in {"start", "pausing"}
  /\ tpc' = "probing"
  /\ active' = IF tpc = "start" THEN active + 1 ELSE active
  /\ estimates' = {}
  /\ SendProbe(1, {}, {[r EXCEPT !.new = FALSE] : r \in network})
  /\ UNCHANGED <<host, lost, shutdown, resolver, registryOff, stream, rec, wpc, recent, user,
                 offset, wasReset>>

(* next_packet_scheduled, which may be late.                               *)
NextProbe ==
  /\ tpc \in {"probing", "pausing"}
  /\ sent \in 1 .. NumProbes - 1
  /\ SendProbe(sent + 1, asked, network)
  /\ UNCHANGED <<connVars, user, tpc, estimates, offset, wasReset>>

(* Fault: a reply to an older wave is counted too.                         *)
ReceiveAny ==
  /\ tpc \in {"probing", "pausing"}
  /\ \E r \in network :
       /\ network' = network \ {r}
       /\ estimates' = estimates \cup {<<r.from, r.probe>>}
  /\ UNCHANGED <<connVars, user, tpc, sent, asked, offset, wasReset>>

(* handle_receive_outcome, unless the packet is lost.                      *)
Receive ==
  /\ tpc \in {"probing", "pausing"}
  /\ \E r \in network :
       /\ network' = network \ {r}
       /\ \/ r.new /\ estimates' = estimates \cup {<<r.from, r.probe>>}
          \/ UNCHANGED estimates
  /\ UNCHANGED <<connVars, user, tpc, sent, asked, offset, wasReset>>

(* result_aggregation_scheduled: the reply with the shortest round trip,   *)
(* any of them, is stored under the mutex of a waiting user.               *)
Aggregate ==
  /\ tpc = "probing"
  /\ tpc' = "pausing"
  /\ IF Cardinality(estimates) >= MinProbes
       THEN /\ user # <<"time", "drowsy">>
            /\ \E e \in estimates : offset' = e[1]
            /\ user' = IF user[1] = "time" THEN Notified ELSE user
       ELSE UNCHANGED <<offset, user>>
  /\ UNCHANGED <<connVars, sent, asked, network, estimates, wasReset>>

(* reset_timeoffset_on_recovery, the callback of a recovery.               *)
ResetOffset ==
  /\ wasReset' = (wasReset \/ offset # 0)
  /\ offset' = 0
  /\ UNCHANGED <<tpc, sent, asked, network, estimates>>

TimeThread == StartWave \/ Aggregate

(* time_correction starts the thread and waits, unless there is an offset. *)
TimeCorrection ==
  /\ Calls("time") /\ offset = 0 /\ ~lost
  /\ user' = <<"time", "drowsy">>
  /\ tpc' = IF tpc = "off" THEN "start" ELSE tpc
  /\ UNCHANGED <<connVars, sent, asked, network, estimates, offset, wasReset>>

(* was_reset, called by the postprocessor.                                 *)
WasReset ==
  /\ user = Idle /\ wasReset
  /\ wasReset' = FALSE
  /\ UNCHANGED <<connVars, user, tpc, sent, asked, network, estimates, offset>>

(* The destructor stops the io_service and joins the thread.               *)
TimeStopped ==
  /\ user = <<"destroy", "time">>
  /\ user' = <<"destroy", "info">>
  /\ tpc' = IF tpc = "off" THEN "off" ELSE "end"
  /\ active' = IF tpc \in {"probing", "pausing"} THEN active - 1 ELSE active
  /\ UNCHANGED <<host, lost, shutdown, resolver, registryOff, stream, rec, wpc, recent, sent,
                 asked, network, estimates, offset, wasReset>>

TimeNext ==
  /\ TimeThread \/ NextProbe \/ Receive \/ TimeCorrection \/ WasReset \/ TimeStopped
  /\ UNCHANGED <<settings, world>>
=============================================================================
