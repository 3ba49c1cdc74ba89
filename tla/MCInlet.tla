------------------------------- MODULE MCInlet -------------------------------
(***************************************************************************)
(* The instances of Inlet that TLC checks.                                 *)
(***************************************************************************)
EXTENDS Inlet

(* Each receiver and restarts of the source, and two receivers that share  *)
(* the connection to a host that may only go down.                         *)
AllUses ==
  ({"open", "close", "pull"} :> 2) @@ ({"open", "close", "pull", "destroy"} :> 1)
    @@ ({"info", "destroy"} :> 3) @@ ({"time"} :> 2) @@ ({"time", "destroy"} :> 1)
    @@ ({"pull", "info"} :> 1)

(* An inlet that is destroyed while it reads.                              *)
Destroyed == {"pull", "destroy"} :> 1
=============================================================================
