---------------------------- MODULE MCTcpServer ----------------------------
(***************************************************************************)
(* TcpServer for TLC: the uses of an outlet to explore.                    *)
(***************************************************************************)
EXTENDS TcpServer

(* One client and a chunk size of two; one client on the second server and *)
(* samples pushed through or not; one client on each server and only pings. *)
AllSetups ==
  {[chunkSize |-> 2, granularities |-> {0, 3}, clients |-> {<<1, 1>>}, samples |-> 3,
    flags |-> {FALSE}],
   [chunkSize |-> 0, granularities |-> {0}, clients |-> {<<2, 1>>}, samples |-> 2,
    flags |-> BOOLEAN],
   [chunkSize |-> 0, granularities |-> {0}, clients |-> Sessions, samples |-> 0,
    flags |-> {}]}
=============================================================================
