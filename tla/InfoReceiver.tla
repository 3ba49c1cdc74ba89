---------------------------- MODULE InfoReceiver ----------------------------
(***************************************************************************)
(* The info_receiver of an inlet (info_receiver.cpp): the info thread asks *)
(* the host for the full description until it has one.                     *)
(***************************************************************************)
EXTENDS InletConnection

VARIABLES
  ipc,       \* the info thread: "off", "start", "test", "register",
             \* "endpoint", "connect", "ask", "answer", "recover", "release"
             \* or "end"
  fullinfo   \* has fullinfo_ been stored?

infoVars == <<ipc, fullinfo>>

InfoInit == ipc = "off" /\ fullinfo = FALSE

InfoBegin ==
  /\ \/ ipc = "start" /\ ipc' = "test" /\ active' = active + 1
     \/ ipc = "release" /\ ipc' = "end" /\ active' = active - 1
  /\ UNCHANGED <<host, lost, shutdown, resolver, registryOff, stream, rec, wpc, recent, user,
                 fullinfo>>

InfoTest ==
  /\ \/ ipc = "test" /\ ipc' = IF lost \/ shutdown THEN "release" ELSE "register"
     \/ ipc = "recover" /\ rec["info"] = NoRec /\ ipc' = "test"
  /\ UNCHANGED <<connVars, user, fullinfo>>

InfoConnect ==
  /\ \/ ipc = "register" /\ Register("info") /\ ipc' = "endpoint"
     \/ ipc = "endpoint" /\ Endpoint("info") /\ ipc' = "connect"
     \/ ipc = "connect" /\ stream["info"].state = "on" /\ ipc' = "ask" /\ UNCHANGED stream
  /\ UNCHANGED <<host, lost, shutdown, resolver, registryOff, rec, wpc, active, recent, user,
                 fullinfo>>

(* An answer of the host, or a part of it, arrives.                        *)
InfoAnswered ==
  /\ ipc = "ask"
  /\ stream["info"].state = "on" /\ stream["info"].at \in up
  /\ ipc' = "answer"
  /\ UNCHANGED <<connVars, user, fullinfo>>

(* The stream ends, be it by an error or a cancel, which no one looks at.  *)
(* What has arrived is stored under the mutex of the waiting user, or it   *)
(* is not valid, and the host is asked again at once.                      *)
InfoRead ==
  /\ ipc \in {"ask", "answer"}
  /\ Unregister("info")
  /\ \/ /\ ipc = "answer" /\ user # <<"info", "drowsy">>
        /\ fullinfo' = TRUE
        /\ user' = IF user[1] = "info" THEN Notified ELSE user
        /\ ipc' = "release"
     \/ ipc' = "test" /\ UNCHANGED <<fullinfo, user>>
  /\ UNCHANGED <<host, lost, shutdown, resolver, registryOff, rec, wpc, active, recent>>

InfoCancelled == stream["info"].state # "on" /\ InfoRead

(* An exception, of a registration or a connect that comes after a cancel. *)
InfoError ==
  /\ \/ ipc = "register" /\ registryOff
     \/ ipc = "connect" /\ stream["info"].state # "on"
  /\ Unregister("info")
  /\ RecoverFromError("info", ipc, "test", "release")
  /\ UNCHANGED <<host, shutdown, resolver, registryOff, wpc, active, recent, fullinfo>>

InfoThread == InfoBegin \/ InfoTest \/ InfoConnect \/ InfoCancelled \/ InfoError

(* info() starts the thread and waits, unless it can return at once.       *)
Info ==
  /\ Calls("info") /\ ~fullinfo /\ ~lost
  /\ user' = <<"info", "drowsy">>
  /\ ipc' = IF ipc = "off" THEN "start" ELSE ipc
  /\ UNCHANGED <<connVars, fullinfo>>

InfoNext == (InfoThread \/ InfoAnswered \/ InfoRead \/ Info) /\ UNCHANGED <<settings, world>>
=============================================================================
