------------------------------ MODULE Resolver ------------------------------
(***************************************************************************)
(* A resolver_impl and its attempts (resolver_impl.cpp,                    *)
(* resolve_attempt_udp.cpp) against the hosts of UdpServer.  The resolving *)
(* thread, the caller of resolve_oneshot or the background thread of       *)
(* resolve_continuous, runs the handlers of the io_service one at a time;  *)
(* another thread calls cancel().                                          *)
(*                                                                         *)
(* One attempt per burst stands for one per IP stack.  Time is abstract: a *)
(* timer that is set expires at some time.  Handlers that are ready run in *)
(* any order.                                                              *)
(***************************************************************************)
EXTENDS UdpServer, FiniteSetsExt

CONSTANTS
  Attempts,   \* bound: attempts alive at a time; a burst beyond it fails, like
              \* one whose sockets cannot be opened
  Plans,      \* bound: the calls to be made, one of these sequences of
              \* [query, minimum, timed, continuous, free : the ports of the
              \* range that the other sockets of the machine leave free]
  KnownPeers  \* TRUE: unicast bursts follow the multicast ones

ASSUME ResolverAssumption ==
  /\ KnownPeers \in BOOLEAN
  /\ Ports \subseteq Nat \ {0}
  /\ Plans \subseteq Seq([query : Queries, minimum : Nat, timed : BOOLEAN,
                          continuous : BOOLEAN, free : SUBSET Ports])

Timers == {"wave", "unicast", "timeout"}

VARIABLES
  plan,       \* one of Plans, for good
  calls,      \* how many calls have been made
  rpc,        \* where the resolving thread is: "idle", "check", "run", or in
              \* next_resolve_wave: "wave", "burst", "timers"; "unicast" in
              \* udp_unicast_burst; "own" as a new attempt gets its shared_ptr;
              \* "destroy" in the destructor of an attempt
  back,       \* where it goes on after next_resolve_wave
  waited,     \* wait_until_ has passed
  results,    \* results_: the hosts found
  output,     \* what resolve_oneshot returned last
  cancelled,  \* cancelled_
  expired,    \* expired_
  timer,      \* timer -> "off", "set", or its handler is ready: "due", "aborted"
  toCancel,   \* the timers whose cancel is posted
  att,        \* attempt -> [pc : "none", "bare" (constructed and registered, but
              \* not yet owned), "open", "closed" or "dying" (its destructor has
              \* begun); port; posted : do_cancel is posted]
  cpc,        \* the cancelling thread: "no", "expire", "all", "join", "done"
  threw       \* cancel() has ended with an exception

attVars    == <<att>>
callVars   == <<plan, calls, waited, output>>
flagVars   == <<cancelled, expired>>
timerVars  == <<timer, toCancel>>
stopVars   == <<cpc, threw>>
resolverVars == <<rpc, back, results, callVars, flagVars, timerVars, attVars, stopVars>>
rvars == <<udpVars, resolverVars>>

NoAttempt == [pc |-> "none", port |-> 0, posted |-> FALSE]
Call == plan[calls]
Registered == {a \in Attempts : att[a].pc # "none"}
Owned == {a \in Attempts : att[a].pc \in {"open", "closed"}}

ResolverInit ==
  /\ UdpInit
  /\ plan \in Plans /\ calls = 0 /\ waited = FALSE /\ output = {}
  /\ rpc = "idle" /\ back = "check"
  /\ results = {}
  /\ cancelled = FALSE /\ expired = FALSE
  /\ timer = [t \in Timers |-> "off"] /\ toCancel = {}
  /\ att = [a \in Attempts |-> NoAttempt]
  /\ cpc = "no" /\ threw = FALSE

-----------------------------------------------------------------------------
(* resolve_oneshot and resolve_continuous, as far as the first wave.  A     *)
(* resolver is cancelled, or made continuous, once and for all.             *)
Resolve ==
  /\ rpc = "idle" /\ ~cancelled
  /\ calls < Len(plan) /\ (calls > 0 => ~Call.continuous)
  /\ calls' = calls + 1
  /\ results' = {} /\ expired' = FALSE /\ waited' = FALSE
  /\ timer' = [timer EXCEPT !["timeout"] = IF plan[calls + 1].timed THEN "set" ELSE @]
  /\ rpc' = "wave"
  /\ back' = IF plan[calls + 1].continuous THEN "run" ELSE "check"
  /\ UNCHANGED <<udpVars, plan, output, cancelled, toCancel, att, stopVars>>

(* minimum_ streams have been found, and not before wait_until_; as the    *)
(* only criterion, a fault.                                                *)
EnoughFound == Call.minimum > 0 /\ Cardinality(results) >= Call.minimum /\ waited

(* The stopping criteria of next_resolve_wave.                             *)
Enough == cancelled \/ expired \/ EnoughFound

(* cancel_ongoing_resolve, called by the resolving thread: the attempts it *)
(* finds are all owned.                                                    *)
CancelOngoing ==
  /\ expired' = TRUE
  /\ toCancel' = Timers
  /\ att' = [a \in Attempts |-> [att[a] EXCEPT !.posted = a \in Registered]]

(* next_resolve_wave: stop, or a burst, and then the timers.               *)
Wave ==
  /\ rpc = "wave"
  /\ \/ Enough /\ CancelOngoing /\ rpc' = back
     \/ ~Enough /\ rpc' = "burst" /\ UNCHANGED <<expired, toCancel, att>>
  /\ UNCHANGED <<udpVars, back, results, callVars, cancelled, timer, stopVars>>

(* bind_port_in_range takes the first port that is free.  When none is, it *)
(* throws, and the attempt goes on with a socket that is not bound, whose  *)
(* port is 0: no answer can be sent to it.                                 *)
FreePort ==
  LET free == (Ports \cap Call.free) \ {att[b].port : b \in Registered}
  IN  IF free = {} THEN 0 ELSE Min(free)

(* udp_multicast_burst, udp_unicast_burst: an attempt binds its socket, if *)
(* it can, and registers; or none can be made.                             *)
Burst ==
  /\ rpc \in {"burst", "unicast"}
  /\ IF Registered = Attempts
     THEN UNCHANGED att /\ rpc' = IF rpc = "burst" THEN "timers" ELSE "run"
     ELSE \E a \in Attempts \ Registered :
            /\ att' = [att EXCEPT ![a] = [pc |-> "bare", port |-> FreePort, posted |-> FALSE]]
            /\ rpc' = IF rpc = "burst" THEN "own" ELSE "ownUnicast"
  /\ UNCHANGED <<udpVars, back, results, callVars, flagVars, timerVars, stopVars>>

(* The shared_ptr owns the attempt; begin() sends its query to the targets. *)
Own ==
  /\ rpc \in {"own", "ownUnicast"}
  /\ \E a \in Attempts :
       /\ att[a].pc = "bare"
       /\ att' = [att EXCEPT ![a].pc = "open"]
       /\ requests' = requests \cup {[query |-> Call.query, port |-> att[a].port]}
  /\ rpc' = IF rpc = "own" THEN "timers" ELSE "run"
  /\ UNCHANGED <<replies, hostVars, back, results, callVars, flagVars, timerVars, stopVars>>

SetTimers ==
  /\ rpc = "timers"
  /\ timer' = [timer EXCEPT !["wave"] = "set", !["unicast"] = IF KnownPeers THEN "set" ELSE @]
  /\ rpc' = back
  /\ UNCHANGED <<udpVars, back, results, callVars, flagVars, toCancel, att, stopVars>>

(* if (!cancelled_) io_->run();  else what is pending stays behind.         *)
Check ==
  /\ rpc = "check"
  /\ rpc' = IF cancelled THEN "idle" ELSE "run"
  /\ output' = {}
  /\ UNCHANGED <<udpVars, back, results, plan, calls, waited, flagVars, timerVars, att, stopVars>>

(* run() returns when there is nothing left to do; the output is collected. *)
RunReturns ==
  /\ rpc = "run"
  /\ Registered = {} /\ toCancel = {} /\ \A t \in Timers : timer[t] = "off"
  /\ output' = IF Call.continuous THEN output ELSE results
  /\ rpc' = "idle"
  /\ UNCHANGED <<udpVars, back, results, plan, calls, waited, flagVars, timerVars, att, stopVars>>

-----------------------------------------------------------------------------
(* Time passes: a timer expires, or wait_until_ does.                      *)
Expires(t) ==
  /\ timer[t] = "set"
  /\ timer' = [timer EXCEPT ![t] = "due"]
  /\ UNCHANGED <<udpVars, rpc, back, results, callVars, flagVars, toCancel, att, stopVars>>

WaitPasses ==
  /\ rpc # "idle" /\ ~waited
  /\ waited' = TRUE
  /\ UNCHANGED <<udpVars, rpc, back, results, plan, calls, output, flagVars, timerVars, att,
                 stopVars>>

(* wave_timeout_expired, udp_unicast_burst and resolve_timeout_expired     *)
TimerHandler(t) ==
  /\ rpc = "run"
  /\ timer[t] \in {"due", "aborted"}
  /\ timer' = [timer EXCEPT ![t] = "off"]
  /\ IF timer[t] = "aborted" THEN UNCHANGED <<rpc, back, expired, toCancel, att>>
     ELSE CASE t = "wave" -> rpc' = "wave" /\ back' = "run" /\ UNCHANGED <<expired, toCancel, att>>
            [] t = "unicast" -> rpc' = "unicast" /\ UNCHANGED <<back, expired, toCancel, att>>
            [] t = "timeout" -> CancelOngoing /\ UNCHANGED <<rpc, back>>
  /\ UNCHANGED <<udpVars, results, callVars, cancelled, stopVars>>

(* The posted cancels of the timers, in their order: too late for a timer  *)
(* whose handler is ready.                                                 *)
CancelTimer(t) ==
  /\ rpc = "run"
  /\ t \in toCancel
  /\ t = "unicast" => "wave" \notin toCancel
  /\ t = "timeout" => toCancel = {"timeout"}
  /\ toCancel' = toCancel \ {t}
  /\ timer' = [timer EXCEPT ![t] = IF @ = "set" THEN "aborted" ELSE @]
  /\ UNCHANGED <<udpVars, rpc, back, results, callVars, flagVars, att, stopVars>>

(* do_cancel, posted or by handle_timeout: the sockets are closed.         *)
DoCancel(a) ==
  /\ rpc = "run"
  /\ \/ att[a].posted /\ att' = [att EXCEPT ![a].pc = "closed", ![a].posted = FALSE]
     \/ att[a].pc = "open" /\ att' = [att EXCEPT ![a].pc = "closed"]
  /\ UNCHANGED <<udpVars, rpc, back, results, callVars, flagVars, timerVars, stopVars>>

(* Fault: the query id is not looked at.                                   *)
ReceiveAny(a, m) ==
  /\ rpc = "run"
  /\ att[a].pc = "open" /\ m \in replies /\ m.port = att[a].port
  /\ results' = results \cup {m.host}
  /\ UNCHANGED <<udpVars, rpc, back, callVars, flagVars, timerVars, att, stopVars>>

(* handle_receive_outcome: an answer to this query is a result.            *)
Receive(a, m) ==
  /\ rpc = "run"
  /\ att[a].pc = "open" /\ m \in replies /\ m.port = att[a].port
  /\ m.id = Call.query
  /\ results' = results \cup {m.host}
  /\ UNCHANGED <<udpVars, rpc, back, callVars, flagVars, timerVars, att, stopVars>>

(* The last handler that holds the attempt has run: its destructor begins, *)
(* and unregisters it.                                                     *)
Release(a) ==
  /\ rpc = "run"
  /\ att[a].pc = "closed" /\ ~att[a].posted
  /\ att' = [att EXCEPT ![a].pc = "dying"]
  /\ rpc' = "destroy"
  /\ UNCHANGED <<udpVars, back, results, callVars, flagVars, timerVars, stopVars>>

Destroyed ==
  /\ rpc = "destroy"
  /\ att' = [a \in Attempts |-> IF att[a].pc = "dying" THEN NoAttempt ELSE att[a]]
  /\ rpc' = "run"
  /\ UNCHANGED <<udpVars, back, results, callVars, flagVars, timerVars, stopVars>>

(* results() of a continuous resolver forgets what has not been heard of.  *)
Forget(h) ==
  /\ calls > 0 /\ Call.continuous
  /\ h \in results
  /\ results' = results \ {h}
  /\ UNCHANGED <<udpVars, rpc, back, callVars, flagVars, timerVars, att, stopVars>>

-----------------------------------------------------------------------------
(* cancel(), by another thread or the destructor of a continuous resolver. *)
SetCancelled ==
  /\ cpc = "no" /\ calls > 0
  /\ cancelled' = TRUE
  /\ cpc' = "expire"
  /\ UNCHANGED <<udpVars, rpc, back, results, callVars, expired, timerVars, att, threw>>

CancelExpire ==
  /\ cpc = "expire"
  /\ expired' = TRUE /\ toCancel' = Timers
  /\ cpc' = "all"
  /\ UNCHANGED <<udpVars, rpc, back, results, callVars, cancelled, timer, att, threw>>

(* cancel_all_registered: shared_from_this() throws in an attempt that is   *)
(* not owned, and the attempts after it are left alone; the destructor      *)
(* catches this and does not join.                                          *)
CancelAll ==
  /\ cpc = "all"
  /\ \/ /\ Registered = Owned
        /\ att' = [a \in Attempts |-> [att[a] EXCEPT !.posted = a \in Owned]]
        /\ cpc' = IF Call.continuous THEN "join" ELSE "done"
        /\ UNCHANGED threw
     \/ /\ Registered # Owned
        /\ \E before \in SUBSET Owned :
             att' = [a \in Attempts |-> [att[a] EXCEPT !.posted = @ \/ a \in before]]
        /\ cpc' = "done"
        /\ threw' = TRUE
  /\ UNCHANGED <<udpVars, rpc, back, results, callVars, flagVars, timerVars>>

Join ==
  /\ cpc = "join" /\ rpc = "idle"
  /\ cpc' = "done"
  /\ UNCHANGED <<udpVars, rpc, back, results, callVars, flagVars, timerVars, att, threw>>

-----------------------------------------------------------------------------
ThreadStep == Wave \/ Burst \/ Own \/ SetTimers \/ Check \/ RunReturns \/ Destroyed
CancellingStep == CancelExpire \/ CancelAll \/ Join

ResolverNext ==
  \/ UdpServerNext /\ UNCHANGED resolverVars
  \/ Resolve \/ ThreadStep \/ WaitPasses
  \/ \E t \in Timers : Expires(t) \/ TimerHandler(t) \/ CancelTimer(t)
  \/ \E a \in Attempts : DoCancel(a) \/ Release(a) \/ \E m \in replies : Receive(a, m)
  \/ \E h \in Hosts : Forget(h)
  \/ SetCancelled \/ CancellingStep

(* The threads run and timers expire.  The io_service runs its handlers in *)
(* the order they become ready: as long as it runs, none stays ready.  A   *)
(* host that goes on serving gets a query that is repeated, and its        *)
(* answers arrive.                                                         *)
Running ==
  \/ rpc # "idle" /\ back = "run"
  \/ rpc \in {"run", "unicast", "ownUnicast", "destroy"}

NoneStaysReady ==
  /\ \A t \in Timers : /\ []<>~(Running /\ timer[t] \in {"due", "aborted"})
                       /\ []<>~(Running /\ t \in toCancel)
  /\ \A a \in Attempts : /\ []<>~(Running /\ att[a].posted)
                         /\ []<>~(Running /\ att[a].pc = "open")
                         /\ []<>~(Running /\ att[a].pc = "closed" /\ ~att[a].posted)

FairSpec ==
  /\ ResolverInit /\ [][ResolverNext]_rvars
  /\ WF_rvars(ThreadStep) /\ WF_rvars(CancellingStep) /\ WF_rvars(WaitPasses)
  /\ \A t \in Timers : WF_rvars(Expires(t))
  /\ NoneStaysReady
  /\ SF_rvars(\E a \in Attempts, m \in replies : Receive(a, m) /\ results' # results)
  /\ \A h \in Hosts :
       /\ WF_rvars(Host(h) /\ UNCHANGED resolverVars)
       /\ SF_rvars(UNCHANGED resolverVars /\ \E r \in requests \ Others :
                                               r.port # 0 /\ HostReceive(h, r))

-----------------------------------------------------------------------------
ResolverTypeOK ==
  /\ UdpTypeOK
  /\ plan \in Plans /\ calls \in 0 .. Len(plan) /\ waited \in BOOLEAN /\ output \subseteq Hosts
  /\ rpc \in {"idle", "check", "run", "wave", "burst", "timers", "unicast", "own",
              "ownUnicast", "destroy"}
  /\ back \in {"check", "run"}
  /\ results \subseteq Hosts
  /\ cancelled \in BOOLEAN /\ expired \in BOOLEAN /\ threw \in BOOLEAN
  /\ timer \in [Timers -> {"off", "set", "due", "aborted"}] /\ toCancel \subseteq Timers
  /\ att \in [Attempts -> [pc : {"none", "bare", "open", "closed", "dying"},
                           port : Ports \cup {0}, posted : BOOLEAN]]
  /\ cpc \in {"no", "expire", "all", "join", "done"}

(* What is found matches the query of the call, though an answer to an     *)
(* earlier one may come to a port that is used again                       *)
(* (resolve_attempt_udp.cpp:109-113).                                      *)
ResultsOfQuery == calls > 0 => \A h \in results : Call.query \in Matches[h]

(* A call that is cancelled, at any moment, or has a timeout ends, though  *)
(* its handlers go on starting waves and attempts, and even if the cancel  *)
(* breaks off with an exception (resolver_impl.cpp:198-230).               *)
ResolveEnds == []<>(calls > 0 /\ (cancelled \/ Call.timed) => rpc = "idle")

(* A call for one stream that can bind a port ends if a host that matches  *)
(* goes on serving, whatever queries for other streams it gets meanwhile   *)
(* (resolver_impl.cpp:140-164, udp_server.cpp:106-157).                    *)
Found == \E h \in Hosts : socket[h] = "open" /\ Call.query \in Matches[h]
HostFound ==
  []<>(calls > 0 /\ Call.minimum = 1 /\ Call.free # {} /\ Found => rpc = "idle")
=============================================================================
