-------------------------- MODULE InletConnection --------------------------
(***************************************************************************)
(* The connection of an inlet (inlet_connection.cpp): loss of the source,  *)
(* recovery, the watchdog thread, the registry of streams to cancel and    *)
(* the condition variables to notify.  The receivers extend this module;   *)
(* Inlet composes them.                                                    *)
(*                                                                         *)
(* Each start of a matching source is a host of its own (it has a new      *)
(* uid).  A host that goes down may break its connections or leave them    *)
(* silent.  The resolver is modelled by what it promises, see Discovery:   *)
(* it returns a non-empty set of hosts that are up, or is cancelled; and   *)
(* cancel() may throw, see Resolver, while a query runs.                   *)
(***************************************************************************)
EXTENDS Naturals, Sequences, FiniteSets

CONSTANTS
  Starts   \* the sets of operations an application may call, each with a
           \* bound on the starts of a matching source

Uses == DOMAIN Starts

ASSUME InletAssumption ==
  /\ Uses \subseteq SUBSET {"open", "close", "pull", "info", "time", "destroy"}
  /\ \A u \in Uses : Starts[u] \in Nat \ {0}

Hosts   == UNION {1 .. Starts[u] : u \in Uses}
Streams == {"data", "info"}            \* receivers that read from a stream
Threads == Streams \cup {"watchdog"}   \* threads that may recover

VARIABLES
  uses,         \* the operations the application calls; of an execution, constant
  recoverable,  \* recovery_enabled_; constant
  born,         \* hosts started so far
  up,           \* hosts that are running
  host,         \* host_info_
  lost, shutdown, \* lost_, shutdown_
  resolver,     \* "live", "cancelled", or "threw": cancel() broke off
  registryOff,  \* the registry's shutdown_issued_
  stream,       \* receiver -> its streambuf: none, on or cancelled, at a host
  rec,          \* thread -> where it is in try_recover, what the query found
  wpc,          \* the watchdog thread: "check", "recover", "wait", "end"
  active,       \* active_transmissions_
  recent,       \* is last_receive_time_ below the threshold?
  user          \* the user's thread: <<call, where>>

settings == <<uses, recoverable>>
world    == <<born, up>>
connVars == <<host, lost, shutdown, resolver, registryOff, stream, rec, wpc, active, recent>>

NoStream == [state |-> "none", at |-> 0]
NoRec    == [pc |-> "none", found |-> {}]
Idle     == <<"none", "idle">>
Calls(c) == user = Idle /\ c \in uses

ConnInit ==
  /\ uses \in Uses /\ recoverable \in BOOLEAN
  /\ born = 1 /\ up = {1}
  /\ host = 1 /\ lost = FALSE /\ shutdown = FALSE
  /\ resolver = "live" /\ registryOff = FALSE
  /\ stream = [r \in Streams |-> NoStream]
  /\ rec = [t \in Threads |-> NoRec]
  /\ wpc = IF recoverable THEN "check" ELSE "end"
  /\ active = 0 /\ recent = TRUE
  /\ user = Idle

-----------------------------------------------------------------------------
(* The world: hosts start (which matters to a recovery only) and go down,  *)
(* and time passes.                                                        *)
HostStarts ==
  /\ recoverable /\ born < Starts[uses]
  /\ born' = born + 1
  /\ up' = up \cup {born + 1}
  /\ UNCHANGED <<settings, connVars, user>>

HostStops ==
  /\ \E h \in up : up' = up \ {h}
  /\ UNCHANGED <<settings, born, connVars, user>>

TimePasses ==
  /\ recent
  /\ recent' = FALSE
  /\ UNCHANGED <<settings, world, host, lost, shutdown, resolver, registryOff, stream, rec,
                 wpc, active, user>>

-----------------------------------------------------------------------------
(* Registration of a new streambuf; shutdown_error if it comes too late.   *)
Register(r) == ~registryOff /\ stream' = [stream EXCEPT ![r] = [state |-> "on", at |-> 0]]

(* get_tcp_endpoint of the stream's connect.                               *)
Endpoint(r) == stream' = [stream EXCEPT ![r].at = host]

(* The streambuf is destroyed.                                             *)
Unregister(r) == stream' = [stream EXCEPT ![r] = NoStream]

Cancelled(s) == IF s.state = "on" THEN [s EXCEPT !.state = "cancelled"] ELSE s
CancelAll    == stream' = [r \in Streams |-> Cancelled(stream[r])]

(* notify_all on the condition variable the user waits for.                *)
Notified == IF user[2] = "asleep" THEN <<user[1], "check">> ELSE user

(* try_recover_from_error, called by the thread of r, which goes on at     *)
(* `back' or, when the stream is irrecoverably lost, at `thrown'.          *)
RecoverFromError(r, pc, back, thrown) ==
  \/ /\ shutdown
     /\ pc' = back
     /\ UNCHANGED <<lost, rec, user>>
  \/ /\ ~shutdown /\ ~recoverable
     /\ lost' = TRUE
     /\ user' = Notified
     /\ pc' = thrown
     /\ UNCHANGED rec
  \/ /\ ~shutdown /\ recoverable
     /\ rec' = [rec EXCEPT ![r].pc = "lock"]
     /\ pc' = "recover"
     /\ UNCHANGED <<lost, user>>

Recovering == {t \in Threads : rec[t].pc \in {"query", "update"}}

(* resolve_oneshot of a resolver that is cancelled returns nothing.        *)
Query(t) ==
  rec' = [rec EXCEPT ![t] = IF resolver = "live" THEN [pc |-> "query", found |-> {}] ELSE NoRec]

(* try_recover: recovery_mut_ ...                                          *)
RecoverLock(t) == rec[t].pc = "lock" /\ Recovering = {} /\ Query(t)

(* ... resolve_oneshot returns hosts that are up, or what it has found,    *)
(* if anything, when it is cancelled ...                                   *)
RecoverResolved(t) ==
  /\ rec[t].pc = "query"
  /\ \/ resolver # "live" /\ rec' = [rec EXCEPT ![t] = NoRec]
     \/ \E hs \in SUBSET up \ {{}} : rec' = [rec EXCEPT ![t] = [pc |-> "update", found |-> hs]]

(* ... there is nothing to do if the host is among them, and a new query   *)
(* if they are several.                                                    *)
RecoverStay(t) ==
  /\ rec[t].pc = "update"
  /\ \/ host \in rec[t].found /\ rec' = [rec EXCEPT ![t] = NoRec]
     \/ host \notin rec[t].found /\ Cardinality(rec[t].found) > 1 /\ Query(t)

RecoverStep(t) ==
  /\ RecoverLock(t) \/ RecoverResolved(t) \/ RecoverStay(t)
  /\ UNCHANGED <<settings, world, host, lost, shutdown, resolver, registryOff, stream, wpc,
                 active, recent, user>>

(* Fault: the streams that are open are not cancelled.                     *)
RecoverNoCancel(t) ==
  /\ rec[t].pc = "update"
  /\ rec[t].found \cap {host} = {} /\ Cardinality(rec[t].found) = 1
  /\ host' \in rec[t].found
  /\ rec' = [rec EXCEPT ![t] = NoRec]
  /\ UNCHANGED <<settings, world, lost, shutdown, resolver, registryOff, stream, wpc, active,
                 recent, user>>

(* The host has been replaced.  The lock on host_info_ is held until all   *)
(* streams are cancelled and the callbacks have run: one step.             *)
RecoverSwitch(t) ==
  /\ rec[t].pc = "update"
  /\ rec[t].found \cap {host} = {} /\ Cardinality(rec[t].found) = 1
  /\ host' \in rec[t].found
  /\ CancelAll
  /\ rec' = [rec EXCEPT ![t] = NoRec]
  /\ UNCHANGED <<settings, world, lost, shutdown, resolver, registryOff, wpc, active, recent,
                 user>>

-----------------------------------------------------------------------------
(* Fault: the watchdog looks after the time of silence only once.          *)
WatchdogOnce ==
  /\ \/ /\ wpc = "check" /\ (lost \/ shutdown)
        /\ wpc' = "end" /\ UNCHANGED rec
     \/ /\ wpc = "check" /\ ~lost /\ ~shutdown
        /\ IF active > 0 /\ ~recent
             THEN wpc' = "recover" /\ rec' = [rec EXCEPT !["watchdog"].pc = "lock"]
             ELSE wpc' = "wait" /\ UNCHANGED rec
     \/ wpc = "recover" /\ rec["watchdog"] = NoRec /\ wpc' = "end" /\ UNCHANGED rec
     \/ wpc = "wait" /\ wpc' = "check" /\ UNCHANGED rec
  /\ UNCHANGED <<settings, world, host, lost, shutdown, resolver, registryOff, stream, active,
                 recent, user>>

(* watchdog_thread: every few seconds, and at once after a shutdown.       *)
Watchdog ==
  /\ \/ /\ wpc = "check" /\ (lost \/ shutdown)
        /\ wpc' = "end" /\ UNCHANGED rec
     \/ /\ wpc = "check" /\ ~lost /\ ~shutdown
        /\ IF active > 0 /\ ~recent
             THEN wpc' = "recover" /\ rec' = [rec EXCEPT !["watchdog"].pc = "lock"]
             ELSE wpc' = "wait" /\ UNCHANGED rec
     \/ wpc = "recover" /\ rec["watchdog"] = NoRec /\ wpc' = "wait" /\ UNCHANGED rec
     \/ wpc = "wait" /\ wpc' = "check" /\ UNCHANGED rec
  /\ UNCHANGED <<settings, world, host, lost, shutdown, resolver, registryOff, stream, active,
                 recent, user>>

(* resolver_.cancel() may meet an attempt that has no owner and throw: the *)
(* rest of disengage is left out, and the destructor of the inlet goes on. *)
CancelResolver ==
  /\ user = <<"destroy", "resolver">>
  /\ \/ resolver' = "cancelled" /\ user' = <<"destroy", "streams">>
     \/ /\ \E t \in Threads : rec[t].pc = "query"
        /\ resolver' = "threw"
        /\ user' = <<"destroy", "data">>

(* Fault: a stream may still be registered after the last cancel.          *)
DisengageCancelsOnly ==
  /\ \/ user = <<"destroy", "flag">> /\ shutdown' = TRUE /\ user' = <<"destroy", "resolver">>
        /\ UNCHANGED <<resolver, stream>>
     \/ CancelResolver /\ UNCHANGED <<shutdown, stream>>
     \/ user = <<"destroy", "streams">> /\ CancelAll /\ user' = <<"destroy", "watchdog">>
        /\ UNCHANGED <<shutdown, resolver>>
     \/ user = <<"destroy", "watchdog">> /\ wpc = "end" /\ user' = <<"destroy", "data">>
        /\ UNCHANGED <<shutdown, resolver, stream>>
  /\ UNCHANGED <<settings, world, host, lost, registryOff, rec, wpc, active, recent>>

(* disengage, called by the destructor of the inlet, line by line.         *)
Disengage ==
  /\ \/ /\ user = <<"destroy", "flag">>
        /\ shutdown' = TRUE
        /\ user' = <<"destroy", "resolver">>
        /\ UNCHANGED <<resolver, registryOff, stream>>
     \/ CancelResolver /\ UNCHANGED <<shutdown, registryOff, stream>>
     \/ /\ user = <<"destroy", "streams">>
        /\ registryOff' = TRUE
        /\ CancelAll
        /\ user' = <<"destroy", "watchdog">>
        /\ UNCHANGED <<shutdown, resolver>>
     \/ /\ user = <<"destroy", "watchdog">> /\ wpc = "end"
        /\ user' = <<"destroy", "data">>
        /\ UNCHANGED <<shutdown, resolver, registryOff, stream>>
  /\ UNCHANGED <<settings, world, host, lost, rec, wpc, active, recent>>

Conn ==
  \/ HostStarts \/ HostStops \/ TimePasses
  \/ (\E t \in Threads : RecoverStep(t))
  \/ Watchdog \/ Disengage
=============================================================================
