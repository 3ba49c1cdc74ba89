----------------------------- MODULE SendBuffer -----------------------------
(***************************************************************************)
(* send_buffer (send_buffer.cpp): one thread pushes samples, which go to   *)
(* the queue of every consumer registered at the time.  The set of         *)
(* consumers is protected by consumers_mut_, which a push holds from end   *)
(* to end; consumers take samples from their queues without it.  Samples   *)
(* are numbered in the order they are pushed.                              *)
(*                                                                         *)
(* A push onto a queue's ring, or a pop off it, is one step here, and        *)
(* consumer_queue::push_sample is made of these: a push that finds the ring *)
(* full, a pop to make room, and a push again; the consumer may pop in      *)
(* between.  ConsumerQueue takes the push and the pop of the ring apart.     *)
(***************************************************************************)
EXTENDS Naturals, Sequences, FiniteSets

CONSTANTS
  Consumers,     \* the consumers, each registered at most once
  MaxCapacity,   \* max_capacity_, the limit on every queue
  MaxBuffered,   \* the values of max_buffered asked for, 0 for no preference
  NumSamples     \* bound: samples pushed

ASSUME SendBufferAssumption ==
  /\ MaxCapacity \in Nat \ {0}
  /\ MaxBuffered \subseteq Nat
  /\ NumSamples \in Nat

VARIABLES
  cap,      \* consumer -> capacity of its queue, 0 before it is created
  members,  \* consumers_
  queue,    \* consumer -> the samples waiting for it
  taken,    \* consumer -> the sample it took last, 0 at first
  since,    \* history: consumer -> samples pushed when it registered
  pushed,   \* number of samples pushed, the one in progress included
  todo,     \* consumers the push in progress has still to serve
  serving,  \* the consumer being served after all, its queue having been full, if any
  full,     \* its queue was found full, and the oldest sample is still to go
  pushing,  \* a push holds consumers_mut_
  notifying, \* consumers inserted for which notify_all is still to come
  waiter    \* wait_for_consumers: where the waiting thread is

bufferVars == <<cap, members, queue, taken, since, pushed, todo, serving, full, pushing,
                notifying, waiter>>

BufferInit ==
  /\ cap = [c \in Consumers |-> 0]
  /\ members = {}
  /\ queue = [c \in Consumers |-> <<>>]
  /\ taken = [c \in Consumers |-> 0]
  /\ since = [c \in Consumers |-> 0]
  /\ pushed = 0
  /\ todo = {}
  /\ serving = {}
  /\ full = FALSE
  /\ pushing = FALSE
  /\ notifying = {}
  /\ waiter = "idle"

-----------------------------------------------------------------------------
(* new_consumer: the capacity asked for, within the limit of the buffer.   *)
Granted(wanted) ==
  IF wanted = 0 \/ wanted > MaxCapacity THEN MaxCapacity ELSE wanted

(* new_consumer, register_consumer: insert under the mutex ...             *)
Register(c, wanted) ==
  /\ cap[c] = 0
  /\ ~pushing
  /\ cap' = [cap EXCEPT ![c] = Granted(wanted)]
  /\ members' = members \cup {c}
  /\ since' = [since EXCEPT ![c] = pushed]
  /\ notifying' = notifying \cup {c}
  /\ UNCHANGED <<queue, taken, pushed, todo, serving, full, pushing, waiter>>

(* Fault: notify_all is left out.                                          *)
NotifyNobody(c) ==
  /\ c \in notifying
  /\ notifying' = notifying \ {c}
  /\ UNCHANGED <<cap, members, queue, taken, since, pushed, todo, serving, full, pushing, waiter>>

(* ... and notify_all without it; only then is the queue used.             *)
Notify(c) ==
  /\ c \in notifying
  /\ notifying' = notifying \ {c}
  /\ waiter' = IF waiter = "blocked" THEN "awake" ELSE waiter
  /\ UNCHANGED <<cap, members, queue, taken, since, pushed, todo, serving, full, pushing>>

Ready(c) == c \in members /\ c \notin notifying

(* Fault: the mutex is not taken.                                          *)
UnregisterUnlocked(c) ==
  /\ Ready(c)
  /\ members' = members \ {c}
  /\ queue' = [queue EXCEPT ![c] = <<>>]
  /\ UNCHANGED <<cap, taken, since, pushed, todo, serving, full, pushing, waiter, notifying>>

(* ~consumer_queue, unregister_consumer; then the queue is freed.          *)
Unregister(c) ==
  /\ Ready(c)
  /\ ~pushing
  /\ members' = members \ {c}
  /\ queue' = [queue EXCEPT ![c] = <<>>]
  /\ UNCHANGED <<cap, taken, since, pushed, todo, serving, full, pushing, waiter, notifying>>

(* push_sample locks consumers_mut_ ...                                    *)
PushBegin ==
  /\ ~pushing
  /\ pushed < NumSamples
  /\ pushing' = TRUE
  /\ pushed' = pushed + 1
  /\ todo' = members
  /\ UNCHANGED <<cap, members, queue, taken, since, serving, full, waiter, notifying>>

(* ... and serves one consumer after the other (consumer_queue::push_sample) *)
InTurn(c) == c \in todo /\ serving \subseteq {c} /\ ~full

(* The push onto the ring succeeds.                                        *)
Deliver(c) ==
  /\ InTurn(c)
  /\ Len(queue[c]) < cap[c]
  /\ queue' = [queue EXCEPT ![c] = Append(@, pushed)]
  /\ todo' = todo \ {c}
  /\ serving' = {}
  /\ UNCHANGED <<cap, members, taken, since, pushed, full, pushing, waiter, notifying>>

(* Fault: the last free place is not used.                                 *)
FullTooEarly(c) ==
  /\ InTurn(c)
  /\ Len(queue[c]) + 1 >= cap[c]
  /\ serving' = {c}
  /\ full' = TRUE
  /\ UNCHANGED <<cap, members, queue, taken, since, pushed, todo, pushing, waiter, notifying>>

(* The push fails, because the ring is full ...                            *)
FindFull(c) ==
  /\ InTurn(c)
  /\ Len(queue[c]) = cap[c]
  /\ serving' = {c}
  /\ full' = TRUE
  /\ UNCHANGED <<cap, members, queue, taken, since, pushed, todo, pushing, waiter, notifying>>

(* Fault: the newest sample makes room, not the oldest.                    *)
DropNewest(c) ==
  /\ full /\ c \in serving
  /\ full' = FALSE
  /\ queue' = [queue EXCEPT ![c] = IF @ = <<>> THEN @ ELSE SubSeq(@, 1, Len(@) - 1)]
  /\ UNCHANGED <<cap, members, taken, since, pushed, todo, serving, pushing, waiter, notifying>>

(* ... so that the oldest sample is popped, if the consumer has left any,   *)
(* whether the ring is still full or not.                                  *)
Drop(c) ==
  /\ full /\ c \in serving
  /\ full' = FALSE
  /\ queue' = [queue EXCEPT ![c] = IF @ = <<>> THEN @ ELSE Tail(@)]
  /\ UNCHANGED <<cap, members, taken, since, pushed, todo, serving, pushing, waiter, notifying>>

Serve(c) == Deliver(c) \/ FindFull(c) \/ Drop(c)

(* ... and unlocks it.                                                     *)
PushEnd ==
  /\ pushing /\ todo = {}
  /\ pushing' = FALSE
  /\ UNCHANGED <<cap, members, queue, taken, since, pushed, todo, serving, full, waiter, notifying>>

(* pop_sample finds a sample.                                              *)
Take(c) ==
  /\ Ready(c)
  /\ queue[c] # <<>>
  /\ taken' = [taken EXCEPT ![c] = Head(queue[c])]
  /\ queue' = [queue EXCEPT ![c] = Tail(@)]
  /\ UNCHANGED <<cap, members, since, pushed, todo, serving, full, pushing, waiter, notifying>>

-----------------------------------------------------------------------------
(* wait_for_consumers: the predicate is tested under the mutex; the thread *)
(* blocks if it is false, and tests it again when woken.                   *)
WaiterTest ==
  /\ waiter \in {"idle", "awake"}
  /\ ~pushing
  /\ waiter' = IF members # {} THEN "found" ELSE "blocked"
  /\ UNCHANGED <<cap, members, queue, taken, since, pushed, todo, serving, full, pushing, notifying>>

(* The timeout: the predicate decides.                                     *)
WaiterTimeout ==
  /\ waiter = "blocked"
  /\ ~pushing
  /\ waiter' = IF members # {} THEN "found" ELSE "timeout"
  /\ UNCHANGED <<cap, members, queue, taken, since, pushed, todo, serving, full, pushing, notifying>>

(* have_consumers, or the end of the wait; the caller may wait again.      *)
WaiterReturn ==
  /\ waiter \in {"found", "timeout"}
  /\ waiter' = "idle"
  /\ UNCHANGED <<cap, members, queue, taken, since, pushed, todo, serving, full, pushing, notifying>>

Init == BufferInit

Next ==
  \/ \E c \in Consumers :
       \/ \E wanted \in MaxBuffered : Register(c, wanted)
       \/ Notify(c) \/ Unregister(c) \/ Serve(c) \/ Take(c)
  \/ PushBegin \/ PushEnd
  \/ WaiterTest \/ WaiterTimeout \/ WaiterReturn

Spec == Init /\ [][Next]_bufferVars

(* A push goes on to its end and a woken thread runs; no timeout is        *)
(* counted on.                                                             *)
FairSpec ==
  /\ Spec
  /\ WF_bufferVars(\E c \in Consumers : Notify(c))
  /\ WF_bufferVars(PushEnd \/ \E c \in Consumers : Serve(c))
  /\ SF_bufferVars(WaiterTest)

-----------------------------------------------------------------------------
TypeOK ==
  /\ cap \in [Consumers -> 0 .. MaxCapacity]
  /\ members \in SUBSET Consumers
  /\ queue \in [Consumers -> Seq(Nat)]
  /\ taken \in [Consumers -> Nat]
  /\ since \in [Consumers -> Nat]
  /\ pushed \in Nat
  /\ todo \in SUBSET Consumers
  /\ serving \in SUBSET Consumers
  /\ full \in BOOLEAN
  /\ pushing \in BOOLEAN
  /\ notifying \in SUBSET Consumers
  /\ waiter \in {"idle", "blocked", "awake", "found", "timeout"}

(* The number of the sample that consumer c was served last.               *)
Served(c) == IF c \in todo THEN pushed - 1 ELSE pushed

(* What waits for a consumer is always the latest samples pushed since it  *)
(* registered, in order and without a gap: only the oldest are ever lost   *)
(* (send_buffer.h:35-41, send_buffer.cpp:34-38).                           *)
LatestInOrder ==
  \A c \in members :
    /\ Len(queue[c]) <= Served(c) - since[c]
    /\ \A i \in 1 .. Len(queue[c]) : queue[c][i] = Served(c) - Len(queue[c]) + i

(* A queue never holds more than was asked for, nor than max_capacity_     *)
(* allows (send_buffer.cpp:24-27, consumer_queue.cpp:38-43).               *)
WithinCapacity ==
  \A c \in members : cap[c] > 0 /\ Len(queue[c]) <= cap[c]

(* The sample that left the queue of consumer c last, or would have.        *)
Gone(c) == Served(c) - Len(queue[c])

(* Every consumer gets every sample, as long as it keeps up (send_buffer.h: *)
(* 33-34).  The oldest one that waits for it leaves only by being taken, or *)
(* while the queue is full, or because a push has found the queue full just *)
(* before the consumer took the sample ahead of it (consumer_queue.cpp:     *)
(* 39-41): then that one was taken during this push, when cap[c] waited.    *)
KeepsWhatFits ==
  [][\A c \in members \cap members' :
       Gone(c)' > Gone(c) =>
         \/ taken'[c] # taken[c]
         \/ Len(queue[c]) = cap[c]
         \/ taken[c] = Gone(c) /\ taken[c] >= pushed - cap[c]]_bufferVars

(* A push never serves a queue that is gone: while it goes through the     *)
(* consumers none of them can leave (send_buffer.cpp:34-38, 51-54).        *)
NoDeadQueueServed == todo \subseteq members

(* A thread waiting for consumers is woken when one registers: it never    *)
(* sleeps on while a consumer stays (send_buffer.cpp:42-48, 63-66).        *)
WaiterWoken ==
  (waiter = "blocked" /\ members # {}) ~> (waiter # "blocked" \/ members = {})
=============================================================================
