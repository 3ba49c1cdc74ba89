----------------------------- MODULE LossyQueue -----------------------------
(***************************************************************************)
(* What a consumer_queue promises: a queue of the numbered samples 1, 2,   *)
(* ... that come out in the order they went in, at most Capacity of them   *)
(* waiting.  A Put that finds the queue full makes room by dropping the    *)
(* oldest sample: one for each time it finds it full, though by then the   *)
(* taker may have made room as well.  Nothing else is ever lost, and       *)
(* nothing comes out twice.                                                *)
(*                                                                         *)
(* The promise binds as long as samples are removed one at a time: once    *)
(* two removals overlap, it is void and anything may follow.               *)
(***************************************************************************)
EXTENDS Naturals, Sequences

CONSTANT Capacity   \* a positive number of samples

VARIABLES
  put,    \* number of the sample put in last
  queue,  \* the samples that wait
  full,   \* a Put has found the queue full and not yet dropped a sample
  got,    \* number of the sample taken out last, 0 at first
  void    \* two removals have overlapped

Init ==
  /\ put = 0
  /\ queue = <<>>
  /\ full = FALSE
  /\ got = 0
  /\ ~void

Put ==
  /\ ~full
  /\ Len(queue) < Capacity
  /\ put' = put + 1
  /\ queue' = Append(queue, put + 1)
  /\ UNCHANGED <<full, got, void>>

FindFull ==
  /\ ~full
  /\ Len(queue) = Capacity
  /\ full' = TRUE
  /\ UNCHANGED <<put, queue, got, void>>

(* The oldest sample is dropped, unless the taker has taken all of them.   *)
Drop ==
  /\ full
  /\ full' = FALSE
  /\ queue' = IF queue = <<>> THEN queue ELSE Tail(queue)
  /\ UNCHANGED <<put, got, void>>

Take ==
  /\ queue # <<>>
  /\ got' = Head(queue)
  /\ queue' = Tail(queue)
  /\ UNCHANGED <<put, full, void>>

Next == Put \/ FindFull \/ Drop \/ Take \/ void'

Spec == Init /\ [][Next]_<<put, queue, full, got, void>>
=============================================================================
