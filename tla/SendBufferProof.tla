--------------------------- MODULE SendBufferProof ---------------------------
(***************************************************************************)
(* Proofs about SendBuffer for every set of consumers and every capacity.  *)
(***************************************************************************)
EXTENDS SendBuffer, Integers, TLAPS

(* The window of samples 'queue' ends at sample 'last'.                    *)
Window(q, last) == \A i \in 1 .. Len(q) : q[i] = last - Len(q) + i

QueueOf(c) ==
  /\ cap[c] > 0
  /\ Len(queue[c]) <= cap[c]
  /\ since[c] + Len(queue[c]) <= Served(c)
  /\ Window(queue[c], Served(c))

IInv ==
  /\ TypeOK
  /\ NoDeadQueueServed
  /\ ~pushing => todo = {}
  /\ todo # {} => pushed > 0
  /\ serving \subseteq todo
  /\ \A c \in members : QueueOf(c)
  /\ \A c \in Consumers \ members : queue[c] = <<>>

USE SendBufferAssumption

-----------------------------------------------------------------------------
(* What the two changes of a queue do to a window of samples.              *)
LEMMA EmptyWindow == ASSUME NEW last \in Nat PROVE Window(<<>>, last)
  BY DEF Window

LEMMA TailWindow ==
  ASSUME NEW q \in Seq(Nat), q # <<>>, NEW last \in Nat, Window(q, last)
  PROVE  /\ Tail(q) \in Seq(Nat)
         /\ Len(Tail(q)) = Len(q) - 1
         /\ Window(Tail(q), last)
<1>1. Tail(q) \in Seq(Nat) /\ Len(Tail(q)) = Len(q) - 1 /\ Len(q) \in Nat \ {0}
  OBVIOUS
<1>2. ASSUME NEW i \in 1 .. Len(Tail(q))
      PROVE  Tail(q)[i] = last - Len(Tail(q)) + i
  <2>1. Tail(q)[i] = q[i + 1] /\ i + 1 \in 1 .. Len(q)
    BY <1>1
  <2>2. q[i + 1] = last - Len(q) + (i + 1)
    BY <2>1 DEF Window
  <2> QED BY <1>1, <2>1, <2>2
<1> QED BY <1>1, <1>2 DEF Window

LEMMA AppendWindow ==
  ASSUME NEW q \in Seq(Nat), NEW last \in Nat, Window(q, last)
  PROVE  /\ Append(q, last + 1) \in Seq(Nat)
         /\ Len(Append(q, last + 1)) = Len(q) + 1
         /\ Window(Append(q, last + 1), last + 1)
<1>1. /\ Append(q, last + 1) \in Seq(Nat)
      /\ Len(Append(q, last + 1)) = Len(q) + 1
      /\ Len(q) \in Nat
  OBVIOUS
<1>2. ASSUME NEW i \in 1 .. Len(Append(q, last + 1))
      PROVE  Append(q, last + 1)[i] = last + 1 - Len(Append(q, last + 1)) + i
  <2>1. CASE i \in 1 .. Len(q)
    <3>1. Append(q, last + 1)[i] = q[i]
      BY <2>1
    <3>2. q[i] = last - Len(q) + i
      BY <2>1 DEF Window
    <3> QED BY <1>1, <2>1, <3>1, <3>2
  <2>2. CASE i = Len(q) + 1
    BY <1>1, <2>2
  <2> QED BY <1>1, <2>1, <2>2
<1> QED BY <1>1, <1>2 DEF Window

-----------------------------------------------------------------------------
LEMMA InitInv == Init => IInv
<1> SUFFICES ASSUME Init PROVE IInv
  OBVIOUS
<1> USE DEF Init, BufferInit
<1>1. cap \in [Consumers -> 0 .. MaxCapacity]
  OBVIOUS
<1>2. queue \in [Consumers -> Seq(Nat)]
  OBVIOUS
<1>3. TypeOK
  BY <1>1, <1>2 DEF TypeOK
<1> QED BY <1>3 DEF IInv, NoDeadQueueServed

LEMMA GrantedInRange ==
  ASSUME NEW wanted \in MaxBuffered
  PROVE  Granted(wanted) \in 1 .. MaxCapacity
  BY DEF Granted

(* A new consumer starts with an empty queue at the latest sample.         *)
LEMMA RegisterInv ==
  ASSUME IInv, NEW c \in Consumers, NEW wanted \in MaxBuffered, Register(c, wanted)
  PROVE  IInv'
<1>1. TypeOK'
  BY GrantedInRange DEF IInv, TypeOK, Register
<1>2. /\ todo' = todo /\ pushing' = pushing /\ pushed' = pushed /\ todo = {} /\ queue' = queue
      /\ serving' = serving
  BY DEF IInv, Register
<1>3. c \notin members
  BY DEF IInv, QueueOf, Register
<1>4. QueueOf(c)'
  <2>1. cap'[c] = Granted(wanted) /\ since'[c] = pushed /\ queue'[c] = <<>>
    BY <1>3 DEF IInv, TypeOK, Register
  <2>2. Served(c)' = pushed /\ pushed \in Nat
    BY <1>2 DEF Served, IInv, TypeOK
  <2> QED BY <2>1, <2>2, GrantedInRange, EmptyWindow DEF QueueOf
<1>5. ASSUME NEW d \in members PROVE QueueOf(d)'
  <2>1. d # c /\ d \in Consumers
    BY <1>3 DEF IInv, TypeOK
  <2>2. cap'[d] = cap[d] /\ since'[d] = since[d]
    BY <2>1 DEF IInv, TypeOK, Register
  <2>3. QueueOf(d)
    BY DEF IInv
  <2> QED BY <1>2, <2>2, <2>3 DEF QueueOf, Served
<1> QED BY <1>1, <1>2, <1>4, <1>5 DEF IInv, NoDeadQueueServed, Register

LEMMA NotifyInv ==
  ASSUME IInv, NEW c \in Consumers, Notify(c)
  PROVE  IInv'
<1>1. TypeOK'
  BY DEF IInv, TypeOK, Notify
<1>2. UNCHANGED <<cap, members, queue, since, pushed, todo, serving, full, pushing>>
  BY DEF Notify
<1>3. \A d \in members : QueueOf(d)'
  BY <1>2 DEF IInv, QueueOf, Served
<1> QED BY <1>1, <1>2, <1>3 DEF IInv, NoDeadQueueServed

LEMMA UnregisterInv ==
  ASSUME IInv, NEW c \in Consumers, Unregister(c)
  PROVE  IInv'
<1>1. TypeOK'
  BY DEF IInv, TypeOK, Unregister
<1>2. UNCHANGED <<cap, since, pushed, todo, serving, full, pushing>> /\ todo = {} /\ members' = members \ {c}
  BY DEF IInv, Unregister
<1>3. \A d \in Consumers \ {c} : queue'[d] = queue[d]
  BY DEF IInv, TypeOK, Unregister
<1>4. ASSUME NEW d \in members' PROVE QueueOf(d)'
  <2>1. d \in Consumers \ {c} /\ QueueOf(d)
    BY <1>2 DEF IInv, TypeOK
  <2> QED BY <1>2, <1>3, <2>1 DEF QueueOf, Served
<1>5. ASSUME NEW d \in Consumers \ members' PROVE queue'[d] = <<>>
  BY <1>2, <1>3 DEF IInv, TypeOK, Unregister
<1> QED BY <1>1, <1>2, <1>4, <1>5 DEF IInv, NoDeadQueueServed

(* The new sample is pushed, and nobody is served yet.                     *)
LEMMA PushBeginInv == ASSUME IInv, PushBegin PROVE IInv'
<1>1. TypeOK'
  BY DEF IInv, TypeOK, PushBegin
<1>2. /\ UNCHANGED <<cap, members, queue, since, serving>> /\ serving = {}
      /\ todo = {} /\ todo' = members /\ pushed' = pushed + 1 /\ pushing' = TRUE
  BY DEF IInv, PushBegin
<1>3. ASSUME NEW c \in members PROVE QueueOf(c)'
  <2>1. Served(c)' = Served(c)
    BY <1>2 DEF Served, IInv, TypeOK
  <2> QED BY <1>2, <2>1 DEF IInv, QueueOf
<1> QED BY <1>1, <1>2, <1>3 DEF IInv, NoDeadQueueServed, TypeOK

(* Consumer c gets the sample.                                             *)
LEMMA DeliverInv ==
  ASSUME IInv, NEW c \in Consumers, Deliver(c)
  PROVE  IInv'
<1>1. /\ UNCHANGED <<cap, members, taken, since, pushed, full, pushing, waiter, notifying>>
      /\ c \in todo /\ todo' = todo \ {c} /\ serving' = {}
      /\ Len(queue[c]) < cap[c]
      /\ queue' = [queue EXCEPT ![c] = Append(queue[c], pushed)]
  BY DEF Deliver, InTurn
<1>2. c \in members /\ QueueOf(c) /\ pushed \in Nat \ {0} /\ pushing
  BY <1>1 DEF IInv, NoDeadQueueServed, TypeOK
<1>3. queue[c] \in Seq(Nat) /\ cap[c] \in Nat /\ since[c] \in Nat
  BY DEF IInv, TypeOK
<1>4. Served(c) = pushed - 1 /\ pushed - 1 \in Nat
  BY <1>1, <1>2 DEF Served
<1>5. Window(queue[c], pushed - 1)
  BY <1>2, <1>4 DEF QueueOf
<1>6. /\ Append(queue[c], pushed) \in Seq(Nat)
      /\ Len(Append(queue[c], pushed)) = Len(queue[c]) + 1
      /\ Window(Append(queue[c], pushed), pushed)
  <2>1. pushed - 1 + 1 = pushed
    BY <1>2
  <2> QED BY <1>3, <1>4, <1>5, <2>1, AppendWindow
<1>7. TypeOK'
  <2>1. queue' \in [Consumers -> Seq(Nat)]
    BY <1>1, <1>6 DEF IInv, TypeOK
  <2> QED BY <1>1, <2>1 DEF IInv, TypeOK
<1>8. QueueOf(c)'
  <2>1. queue'[c] = Append(queue[c], pushed) /\ Served(c)' = pushed
    BY <1>1 DEF IInv, TypeOK, Served
  <2>2. since[c] + Len(queue[c]) <= pushed - 1 /\ Len(queue[c]) \in Nat
    BY <1>2, <1>3, <1>4 DEF QueueOf
  <2>3. Len(queue'[c]) <= cap[c] /\ since[c] + Len(queue'[c]) <= pushed
    BY <1>1, <1>2, <1>3, <1>6, <2>1, <2>2
  <2> QED BY <1>1, <1>2, <1>6, <2>1, <2>3 DEF QueueOf
<1>9. ASSUME NEW d \in members, d # c PROVE QueueOf(d)'
  <2>1. d \in Consumers /\ queue'[d] = queue[d] /\ Served(d)' = Served(d)
    BY <1>1, <1>9 DEF IInv, TypeOK, Served
  <2> QED BY <1>1, <2>1 DEF IInv, QueueOf
<1>10. \A d \in Consumers \ members : queue'[d] = <<>>
  BY <1>1, <1>2 DEF IInv, TypeOK
<1> QED BY <1>1, <1>2, <1>7, <1>8, <1>9, <1>10 DEF IInv, NoDeadQueueServed

LEMMA FindFullInv ==
  ASSUME IInv, NEW c \in Consumers, FindFull(c)
  PROVE  IInv'
<1>1. /\ UNCHANGED <<cap, members, queue, taken, since, pushed, todo, pushing, waiter, notifying>>
      /\ c \in todo /\ serving' = {c} /\ full' = TRUE
  BY DEF FindFull, InTurn
<1>2. \A d \in members : QueueOf(d)'
  BY <1>1 DEF IInv, QueueOf, Served
<1> QED BY <1>1, <1>2 DEF IInv, NoDeadQueueServed, TypeOK

(* The oldest sample of a queue leaves it: to the consumer or for good.    *)
LEMMA ShrinkInv ==
  ASSUME IInv, NEW c \in members, queue[c] # <<>>, taken' \in [Consumers -> Nat], full' \in BOOLEAN,
         queue' = [queue EXCEPT ![c] = Tail(queue[c])],
         UNCHANGED <<cap, members, since, pushed, todo, serving, pushing, waiter, notifying>>
  PROVE  IInv'
<1>1. /\ QueueOf(c) /\ queue[c] \in Seq(Nat) /\ cap[c] \in Nat /\ since[c] \in Nat
      /\ c \in Consumers
  BY DEF IInv, TypeOK
<1>2. Served(c) \in Nat /\ \A d \in Consumers : Served(d)' = Served(d)
  <2>1. pushed \in Nat /\ (c \in todo => pushed > 0)
    BY DEF IInv, TypeOK
  <2> QED BY <2>1 DEF Served
<1>3. /\ Tail(queue[c]) \in Seq(Nat) /\ Window(Tail(queue[c]), Served(c))
      /\ Len(Tail(queue[c])) = Len(queue[c]) - 1
  <2>1. Window(queue[c], Served(c))
    BY <1>1 DEF QueueOf
  <2> QED BY <1>1, <1>2, <2>1, TailWindow
<1>4. TypeOK'
  <2>1. queue' \in [Consumers -> Seq(Nat)]
    BY <1>3 DEF IInv, TypeOK
  <2> QED BY <2>1 DEF IInv, TypeOK
<1>5. QueueOf(c)'
  <2>1. queue'[c] = Tail(queue[c])
    BY <1>1 DEF IInv, TypeOK
  <2>2. Len(queue[c]) \in Nat
    BY <1>1
  <2>3. Len(queue'[c]) <= cap[c] /\ since[c] + Len(queue'[c]) <= Served(c)
    BY <1>1, <1>2, <1>3, <2>1, <2>2 DEF QueueOf
  <2>4. Window(queue'[c], Served(c)) /\ cap[c] > 0
    BY <1>1, <1>3, <2>1 DEF QueueOf
  <2> QED BY <1>1, <1>2, <2>3, <2>4 DEF QueueOf
<1>6. ASSUME NEW d \in members, d # c PROVE QueueOf(d)'
  <2>1. d \in Consumers /\ queue'[d] = queue[d] /\ Served(d)' = Served(d)
    BY <1>2, <1>6 DEF IInv, TypeOK
  <2> QED BY <2>1 DEF IInv, QueueOf
<1>7. \A d \in Consumers \ members : queue'[d] = <<>>
  BY DEF IInv, TypeOK
<1> QED BY <1>4, <1>5, <1>6, <1>7 DEF IInv, NoDeadQueueServed

LEMMA DropInv ==
  ASSUME IInv, NEW c \in Consumers, Drop(c)
  PROVE  IInv'
<1>1. /\ UNCHANGED <<cap, members, taken, since, pushed, todo, serving, pushing, waiter, notifying>>
      /\ c \in members /\ full' = FALSE
      /\ queue' = [queue EXCEPT ![c] = IF queue[c] = <<>> THEN queue[c] ELSE Tail(queue[c])]
      /\ taken' \in [Consumers -> Nat]
  BY DEF Drop, IInv, NoDeadQueueServed, TypeOK
<1>2. CASE queue[c] # <<>>
  BY <1>1, <1>2, ShrinkInv
<1>3. CASE queue[c] = <<>>
  <2>1. queue' = queue
    BY <1>1, <1>3 DEF IInv, TypeOK
  <2>2. \A d \in members : QueueOf(d)'
    BY <1>1, <2>1 DEF IInv, QueueOf, Served
  <2> QED BY <1>1, <2>1, <2>2 DEF IInv, NoDeadQueueServed, TypeOK
<1> QED BY <1>2, <1>3

LEMMA PushEndInv == ASSUME IInv, PushEnd PROVE IInv'
<1>1. UNCHANGED <<cap, members, queue, taken, since, pushed, todo, serving, full, waiter, notifying>>
      /\ todo = {} /\ pushing' = FALSE
  BY DEF PushEnd
<1>2. \A d \in members : QueueOf(d)'
  BY <1>1 DEF IInv, QueueOf, Served
<1> QED BY <1>1, <1>2 DEF IInv, NoDeadQueueServed, TypeOK

LEMMA TakeInv ==
  ASSUME IInv, NEW c \in Consumers, Take(c)
  PROVE  IInv'
<1>1. /\ UNCHANGED <<cap, members, since, pushed, todo, serving, full, pushing, waiter, notifying>>
      /\ c \in members /\ queue[c] # <<>> /\ queue[c] \in Seq(Nat) /\ full' \in BOOLEAN
      /\ queue' = [queue EXCEPT ![c] = Tail(queue[c])]
      /\ taken' = [taken EXCEPT ![c] = Head(queue[c])]
  BY DEF Take, Ready, IInv, TypeOK
<1>2. Head(queue[c]) \in Nat
  BY <1>1
<1>3. taken' \in [Consumers -> Nat]
  BY <1>1, <1>2 DEF IInv, TypeOK
<1> QED BY <1>1, <1>3, ShrinkInv

LEMMA WaiterInv ==
  ASSUME IInv, WaiterTest \/ WaiterTimeout \/ WaiterReturn
  PROVE  IInv'
<1>1. UNCHANGED <<cap, members, queue, taken, since, pushed, todo, serving, full, pushing, notifying>>
  BY DEF WaiterTest, WaiterTimeout, WaiterReturn
<1>2. TypeOK'
  BY <1>1 DEF IInv, TypeOK, WaiterTest, WaiterTimeout, WaiterReturn
<1>3. \A d \in members : QueueOf(d)'
  BY <1>1 DEF IInv, QueueOf, Served
<1> QED BY <1>1, <1>2, <1>3 DEF IInv, NoDeadQueueServed

-----------------------------------------------------------------------------
LEMMA NextInv == ASSUME IInv, [Next]_bufferVars PROVE IInv'
<1>1. ASSUME NEW c \in Consumers, NEW wanted \in MaxBuffered, Register(c, wanted)
      PROVE  IInv'
  BY <1>1, RegisterInv
<1>2. ASSUME NEW c \in Consumers, Notify(c) PROVE IInv'
  BY <1>2, NotifyInv
<1>3. ASSUME NEW c \in Consumers, Unregister(c) PROVE IInv'
  BY <1>3, UnregisterInv
<1>4. ASSUME NEW c \in Consumers, Serve(c) PROVE IInv'
  BY <1>4, DeliverInv, FindFullInv, DropInv DEF Serve
<1>5. ASSUME NEW c \in Consumers, Take(c) PROVE IInv'
  BY <1>5, TakeInv
<1>6. CASE PushBegin
  BY <1>6, PushBeginInv
<1>7. CASE PushEnd
  BY <1>7, PushEndInv
<1>8. CASE WaiterTest \/ WaiterTimeout \/ WaiterReturn
  BY <1>8, WaiterInv
<1>9. CASE UNCHANGED bufferVars
  <2>1. \A d \in members : QueueOf(d)'
    BY <1>9 DEF IInv, QueueOf, Served, bufferVars
  <2> QED BY <1>9, <2>1 DEF IInv, TypeOK, NoDeadQueueServed, bufferVars
<1> QED BY <1>1, <1>2, <1>3, <1>4, <1>5, <1>6, <1>7, <1>8, <1>9 DEF Next

LEMMA Inductive == Spec => []IInv
  BY InitInv, NextInv, PTL DEF Spec

(* The types, for any consumers and capacities.                            *)
THEOREM Typing == Spec => []TypeOK
<1>1. IInv => TypeOK
  BY DEF IInv
<1> QED BY <1>1, Inductive, PTL

(* Whatever waits for a consumer is the latest samples pushed since it     *)
(* registered, in order and without a gap (send_buffer.h:35-41).           *)
THEOREM AlwaysLatestInOrder == Spec => []LatestInOrder
<1>1. IInv => LatestInOrder
  <2> SUFFICES ASSUME IInv, NEW c \in members
               PROVE  /\ Len(queue[c]) <= Served(c) - since[c]
                      /\ \A i \in 1 .. Len(queue[c]) :
                           queue[c][i] = Served(c) - Len(queue[c]) + i
    BY DEF LatestInOrder
  <2>1. QueueOf(c) /\ queue[c] \in Seq(Nat) /\ since[c] \in Nat /\ pushed \in Nat
    BY DEF IInv, TypeOK
  <2>2. Len(queue[c]) \in Nat /\ Served(c) \in Int
    BY <2>1 DEF Served
  <2>3. Len(queue[c]) <= Served(c) - since[c]
    BY <2>1, <2>2 DEF QueueOf
  <2> QED BY <2>1, <2>3 DEF QueueOf, Window
<1> QED BY <1>1, Inductive, PTL

(* No queue outgrows what was asked for (consumer_queue.h:16).             *)
THEOREM AlwaysWithinCapacity == Spec => []WithinCapacity
<1>1. IInv => WithinCapacity
  BY DEF IInv, QueueOf, WithinCapacity
<1> QED BY <1>1, Inductive, PTL

(* A push in progress never meets a queue that has gone (send_buffer.cpp:  *)
(* 51-54).                                                                 *)
THEOREM DeadQueueNeverServed == Spec => []NoDeadQueueServed
<1>1. IInv => NoDeadQueueServed
  BY DEF IInv
<1> QED BY <1>1, Inductive, PTL

-----------------------------------------------------------------------------
(* What a consumer took last is older than whatever waits for it.          *)
TakenInv ==
  /\ \A c \in members : taken[c] + Len(queue[c]) <= Served(c)
  /\ \A c \in Consumers : cap[c] = 0 => taken[c] = 0

(* Since a push found the queue of c full, the consumer has taken nothing,  *)
(* or whatever left it.                                                    *)
StillFull(c) == Len(queue[c]) = cap[c]
Overtaken(c) == taken[c] = Gone(c) /\ taken[c] >= pushed - cap[c]
FullInv == full => \A c \in serving : StillFull(c) \/ Overtaken(c)

LEMMA GoneType ==
  ASSUME IInv, NEW c \in members
  PROVE  /\ c \in Consumers /\ Len(queue[c]) \in Nat /\ taken[c] \in Nat
         /\ Served(c) \in Int /\ Gone(c) \in Int
<1>1. c \in Consumers /\ queue[c] \in Seq(Nat) /\ taken[c] \in Nat /\ pushed \in Nat
  BY DEF IInv, TypeOK
<1>2. Len(queue[c]) \in Nat /\ Served(c) \in Int
  BY <1>1 DEF Served
<1>3. QED
  BY <1>1, <1>2 DEF Gone

(* The step of a member that is left alone.                                *)
LEMMA AloneKeeps ==
  ASSUME IInv, NEW c \in members, queue'[c] = queue[c], taken'[c] = taken[c],
         Served(c)' = Served(c), taken[c] + Len(queue[c]) <= Served(c)
  PROVE  (taken[c] + Len(queue[c]) <= Served(c))' /\ Gone(c)' = Gone(c)
BY DEF Gone

LEMMA DeliverGone ==
  ASSUME IInv, NEW c \in Consumers, Deliver(c), TakenInv
  PROVE  /\ c \in members /\ (taken[c] + Len(queue[c]) <= Served(c))'
         /\ Gone(c)' = Gone(c)
<1>1. /\ c \in members /\ pushed \in Nat /\ pushed' = pushed /\ taken' = taken
      /\ c \in todo /\ c \notin todo' /\ queue[c] \in Seq(Nat)
      /\ queue'[c] = Append(queue[c], pushed)
  BY DEF Deliver, InTurn, IInv, NoDeadQueueServed, TypeOK
<1>2. Served(c) = pushed - 1 /\ Served(c)' = pushed
  BY <1>1 DEF Served
<1>3. Len(queue'[c]) = Len(queue[c]) + 1
  BY <1>1
<1>4. taken[c] + Len(queue[c]) <= Served(c) /\ taken[c] \in Nat /\ Len(queue[c]) \in Nat
  BY <1>1, GoneType DEF TakenInv
<1>5. QED
  BY <1>1, <1>2, <1>3, <1>4 DEF Gone

(* A drop takes away one sample at most.                                   *)
LEMMA DropGone ==
  ASSUME IInv, NEW c \in Consumers, Drop(c), TakenInv, FullInv
  PROVE  /\ c \in members /\ (taken[c] + Len(queue[c]) <= Served(c))'
         /\ StillFull(c) \/ Overtaken(c)
<1>1. /\ c \in members /\ queue[c] \in Seq(Nat) /\ taken' = taken /\ Served(c)' = Served(c)
      /\ queue'[c] = IF queue[c] = <<>> THEN queue[c] ELSE Tail(queue[c])
      /\ full /\ c \in serving
  BY DEF Drop, IInv, NoDeadQueueServed, TypeOK, Served
<1>2. Len(queue'[c]) <= Len(queue[c]) /\ Len(queue'[c]) \in Nat
  <2>1. CASE queue[c] = <<>>
    BY <1>1, <2>1
  <2>2. CASE queue[c] # <<>>
    BY <1>1, <2>2
  <2> QED BY <2>1, <2>2
<1>3. taken[c] + Len(queue[c]) <= Served(c) /\ taken[c] \in Nat /\ Len(queue[c]) \in Nat
      /\ Served(c) \in Int
  BY <1>1, GoneType DEF TakenInv
<1>4. QED
  BY <1>1, <1>2, <1>3 DEF FullInv

LEMMA TakeGone ==
  ASSUME IInv, NEW c \in Consumers, Take(c), TakenInv
  PROVE  /\ c \in members /\ (taken[c] + Len(queue[c]) <= Served(c))'
         /\ taken'[c] # taken[c]
<1>1. /\ c \in members /\ queue[c] # <<>> /\ queue[c] \in Seq(Nat)
      /\ queue'[c] = Tail(queue[c]) /\ taken'[c] = Head(queue[c])
      /\ Served(c)' = Served(c)
  BY DEF Take, Ready, IInv, TypeOK, Served
<1>2. Len(queue[c]) \in Nat \ {0} /\ Len(queue'[c]) = Len(queue[c]) - 1
  BY <1>1
<1>3. Head(queue[c]) = Served(c) - Len(queue[c]) + 1
  <2>1. Window(queue[c], Served(c))
    BY <1>1 DEF IInv, QueueOf
  <2>2. Head(queue[c]) = queue[c][1] /\ 1 \in 1 .. Len(queue[c])
    BY <1>1, <1>2
  <2>3. QED
    BY <2>1, <2>2 DEF Window
<1>4. taken[c] + Len(queue[c]) <= Served(c) /\ taken[c] \in Nat /\ Served(c) \in Int
  BY <1>1, GoneType DEF TakenInv
<1>5. QED
  BY <1>1, <1>2, <1>3, <1>4

(* The sample on top of a queue leaves it in one of these ways.            *)
LeftAs(c) == Gone(c)' = Gone(c) \/ taken'[c] # taken[c] \/ StillFull(c) \/ Overtaken(c)

(* One step, as seen by a consumer that stays.                             *)
LEMMA TakenStep ==
  ASSUME IInv, IInv', TakenInv, FullInv, [Next]_bufferVars
  PROVE  TakenInv' /\ \A c \in members \cap members' : LeftAs(c)
<1> DEFINE Others(d) ==
      \A c \in (members \cap members') \ {d} :
        queue'[c] = queue[c] /\ taken'[c] = taken[c] /\ Served(c)' = Served(c)
<1> DEFINE Goal == TakenInv' /\ \A c \in members \cap members' : LeftAs(c)
<1> DEFINE CapSame == \A c \in Consumers : cap'[c] = 0 => cap[c] = 0 /\ taken'[c] = taken[c]
<1>1. ASSUME NEW d, Others(d), CapSame, members' \subseteq members,
             d \in members' =>
               (taken[d] + Len(queue[d]) <= Served(d))' /\ LeftAs(d)
      PROVE  Goal
  <2>1. ASSUME NEW c \in members', c # d
        PROVE  (taken[c] + Len(queue[c]) <= Served(c))' /\ Gone(c)' = Gone(c)
    BY <1>1, <2>1, AloneKeeps DEF TakenInv
  <2>2. QED
    BY <1>1, <2>1 DEF TakenInv, LeftAs
<1>2. ASSUME NEW c \in Consumers, NEW wanted \in MaxBuffered, Register(c, wanted)
      PROVE  Goal
  <2>1. /\ c \notin members /\ members' = members \cup {c} /\ pushed' = pushed /\ todo' = todo
        /\ queue' = queue /\ taken' = taken /\ todo = {} /\ queue[c] = <<>> /\ taken[c] = 0
    BY <1>2 DEF Register, IInv, QueueOf, TakenInv
  <2>2. (taken[c] + Len(queue[c]) <= Served(c))'
    BY <2>1 DEF Served, IInv, TypeOK
  <2>3. ASSUME NEW e \in members
        PROVE  (taken[e] + Len(queue[e]) <= Served(e))' /\ Gone(e)' = Gone(e)
    BY <2>1, AloneKeeps DEF TakenInv, Served
  <2>4. CapSame
    BY <1>2, <2>1, GrantedInRange DEF Register, IInv, TypeOK
  <2>5. QED
    BY <2>1, <2>2, <2>3, <2>4 DEF TakenInv, LeftAs
<1>3. ASSUME NEW c \in Consumers, Notify(c) \/ Unregister(c)
      PROVE  Goal
  <2>1. Others(c) /\ CapSame /\ members' \subseteq members
    BY <1>3 DEF Notify, Unregister, IInv, TypeOK, Served
  <2>2. CASE c \in members'
    <3>1. queue'[c] = queue[c] /\ taken'[c] = taken[c] /\ Served(c)' = Served(c) /\ c \in members
      BY <1>3, <2>2 DEF Notify, Unregister, Served
    <3>2. (taken[c] + Len(queue[c]) <= Served(c))' /\ Gone(c)' = Gone(c)
      BY <3>1, AloneKeeps DEF TakenInv
    <3>3. QED
      BY <1>1, <2>1, <3>2 DEF LeftAs
  <2>3. CASE c \notin members'
    BY <1>1, <2>1, <2>3
  <2>4. QED
    BY <2>2, <2>3
<1>4. ASSUME NEW c \in Consumers, Serve(c)
      PROVE  Goal
  <2>1. Others(c) /\ CapSame /\ members' \subseteq members
    BY <1>4 DEF Serve, Deliver, FindFull, Drop, IInv, TypeOK, Served
  <2>2. CASE Deliver(c)
    BY <1>1, <2>1, <2>2, DeliverGone DEF LeftAs
  <2>3. CASE FindFull(c)
    <3>1. queue'[c] = queue[c] /\ taken'[c] = taken[c] /\ Served(c)' = Served(c) /\ c \in members
      BY <2>3 DEF FindFull, InTurn, Served, IInv, NoDeadQueueServed
    <3>2. (taken[c] + Len(queue[c]) <= Served(c))' /\ Gone(c)' = Gone(c)
      BY <3>1, AloneKeeps DEF TakenInv
    <3>3. QED
      BY <1>1, <2>1, <3>2 DEF LeftAs
  <2>4. CASE Drop(c)
    BY <1>1, <2>1, <2>4, DropGone DEF LeftAs
  <2>5. QED
    BY <1>4, <2>2, <2>3, <2>4 DEF Serve
<1>5. ASSUME NEW c \in Consumers, Take(c)
      PROVE  Goal
  <2>1. Others(c) /\ members' \subseteq members
    BY <1>5 DEF Take, IInv, TypeOK, Served
  <2>2. CapSame
    BY <1>5 DEF Take, Ready, IInv, TypeOK, QueueOf
  <2>3. QED
    BY <1>1, <1>5, <2>1, <2>2, TakeGone DEF LeftAs
<1>6. CASE \/ PushBegin \/ PushEnd \/ WaiterTest \/ WaiterTimeout \/ WaiterReturn
           \/ UNCHANGED bufferVars
  <2>1. /\ members' = members /\ queue' = queue /\ taken' = taken /\ cap' = cap
        /\ \A c \in members : Served(c)' = Served(c)
    <3>1. /\ members' = members /\ queue' = queue /\ taken' = taken /\ cap' = cap
          /\ \/ todo' = todo /\ pushed' = pushed
             \/ todo = {} /\ todo' = members /\ pushed' = pushed + 1 /\ pushed \in Nat
      BY <1>6 DEF PushBegin, PushEnd, WaiterTest, WaiterTimeout, WaiterReturn, bufferVars,
                  IInv, TypeOK
    <3>2. QED
      BY <3>1 DEF Served
  <2>2. ASSUME NEW c \in members
        PROVE  (taken[c] + Len(queue[c]) <= Served(c))' /\ Gone(c)' = Gone(c)
    BY <2>1, AloneKeeps DEF TakenInv
  <2>3. QED
    BY <2>1, <2>2 DEF TakenInv, LeftAs
<1>7. QED
  BY <1>2, <1>3, <1>4, <1>5, <1>6 DEF Next

(* A consumer that takes a sample after the push found its queue full, and *)
(* before it drops one, has overtaken the drop.                            *)
LEMMA FullStep ==
  ASSUME IInv, IInv', TakenInv, FullInv, [Next]_bufferVars
  PROVE  FullInv'
<1>1. ASSUME ~full' PROVE FullInv'
  BY <1>1 DEF FullInv
<1>2. ASSUME serving' = {} PROVE FullInv'
  BY <1>2 DEF FullInv
<1> DEFINE Alone(c) ==
      /\ queue'[c] = queue[c] /\ taken'[c] = taken[c] /\ cap'[c] = cap[c]
      /\ pushed' = pushed /\ Served(c)' = Served(c)
<1>3. ASSUME full' = full, serving' = serving,
             \A c \in serving : Alone(c) \/ StillFull(c)' \/ Overtaken(c)'
      PROVE  FullInv'
  BY <1>3 DEF FullInv, StillFull, Overtaken, Gone
<1>4. ASSUME NEW c \in Consumers, NEW wanted \in MaxBuffered, Register(c, wanted)
      PROVE  FullInv'
  BY <1>2, <1>4 DEF Register, IInv
<1>5. ASSUME NEW c \in Consumers, Notify(c)
      PROVE  FullInv'
  BY <1>3, <1>5 DEF Notify, Served
<1>6. ASSUME NEW c \in Consumers, Unregister(c)
      PROVE  FullInv'
  BY <1>2, <1>6 DEF Unregister, IInv
<1>7. ASSUME NEW c \in Consumers, Serve(c)
      PROVE  FullInv'
  <2>1. CASE Deliver(c) \/ Drop(c)
    BY <1>1, <2>1 DEF Deliver, InTurn, Drop
  <2>2. CASE FindFull(c)
    BY <2>2 DEF FindFull, FullInv, StillFull
  <2>3. QED
    BY <1>7, <2>1, <2>2 DEF Serve
<1>8. ASSUME NEW c \in Consumers, Take(c)
      PROVE  FullInv'
  <2>1. CASE c \notin serving
    <3>1. \A d \in serving : Alone(d)
      BY <1>8, <2>1 DEF Take, IInv, TypeOK, Served
    <3>2. QED
      BY <1>3, <1>8, <3>1 DEF Take
  <2>2. CASE c \in serving
    <3>1. /\ c \in members /\ c \in todo /\ queue[c] # <<>> /\ queue[c] \in Seq(Nat)
          /\ queue'[c] = Tail(queue[c]) /\ taken'[c] = Head(queue[c]) /\ cap' = cap
          /\ pushed' = pushed /\ pushed \in Nat /\ Served(c)' = Served(c)
      BY <1>8, <2>2 DEF Take, Ready, IInv, TypeOK, Served
    <3>2. /\ Len(queue[c]) \in Nat \ {0} /\ Len(queue'[c]) = Len(queue[c]) - 1
          /\ Head(queue[c]) = queue[c][1] /\ 1 \in 1 .. Len(queue[c])
      BY <3>1
    <3>3. Window(queue[c], Served(c)) /\ Len(queue[c]) <= cap[c] /\ cap[c] \in Nat
      BY <3>1 DEF IInv, QueueOf, TypeOK
    <3>4. Head(queue[c]) = Served(c) - Len(queue[c]) + 1 /\ Served(c) = pushed - 1
      BY <3>1, <3>2, <3>3 DEF Window, Served
    <3>5. Overtaken(c)'
      BY <3>1, <3>2, <3>3, <3>4 DEF Overtaken, Gone
    <3>6. \A d \in serving \ {c} : Alone(d)
      BY <1>8 DEF Take, IInv, TypeOK, Served
    <3>7. QED
      BY <1>3, <1>8, <3>5, <3>6 DEF Take
  <2>3. QED
    BY <2>1, <2>2
<1>9. CASE PushBegin \/ PushEnd
  BY <1>2, <1>9 DEF PushBegin, PushEnd, IInv
<1>10. CASE WaiterTest \/ WaiterTimeout \/ WaiterReturn \/ UNCHANGED bufferVars
  BY <1>3, <1>10 DEF WaiterTest, WaiterTimeout, WaiterReturn, bufferVars, Served
<1>11. QED
  BY <1>4, <1>5, <1>6, <1>7, <1>8, <1>9, <1>10 DEF Next

LEMMA TakenAlways == Spec => [](IInv /\ TakenInv /\ FullInv)
<1>1. Init => TakenInv /\ FullInv
  BY DEF Init, BufferInit, TakenInv, FullInv
<1>2. IInv /\ IInv' /\ TakenInv /\ FullInv /\ [Next]_bufferVars => TakenInv' /\ FullInv'
  BY TakenStep, FullStep
<1>3. QED
  BY <1>1, <1>2, Inductive, PTL DEF Spec

(* The samples a consumer takes have growing numbers.                      *)
LEMMA TakeGrows ==
  ASSUME IInv, TakenInv, NEW c \in Consumers, Take(c)
  PROVE  taken'[c] \in Nat /\ taken[c] < taken'[c] /\ taken'[c] <= pushed
<1>1. /\ c \in members /\ queue[c] # <<>> /\ queue[c] \in Seq(Nat)
      /\ taken'[c] = Head(queue[c]) /\ pushed \in Nat
  BY DEF Take, Ready, IInv, TypeOK
<1>2. Len(queue[c]) \in Nat \ {0} /\ Head(queue[c]) = queue[c][1]
  BY <1>1
<1>3. Window(queue[c], Served(c))
  BY <1>1 DEF IInv, QueueOf
<1>4. Head(queue[c]) = Served(c) - Len(queue[c]) + 1
  BY <1>2, <1>3 DEF Window
<1>5. /\ taken[c] + Len(queue[c]) <= Served(c) /\ taken[c] \in Nat /\ Served(c) \in Int
      /\ Served(c) <= pushed
  BY <1>1, GoneType DEF TakenInv, Served
<1>6. QED
  BY <1>1, <1>2, <1>4, <1>5

(* A consumer that keeps up gets every sample: the oldest one that waits   *)
(* for it leaves only by being taken, or when the queue is full, or because *)
(* a push has found the queue full just before the consumer took the sample *)
(* ahead of it (send_buffer.h:33-34, consumer_queue.cpp:38-43).            *)
THEOREM EverythingThatFits == Spec => KeepsWhatFits
<1>1. IInv /\ IInv' /\ TakenInv /\ FullInv /\ [Next]_bufferVars =>
        [\A c \in members \cap members' :
           Gone(c)' > Gone(c) =>
             \/ taken'[c] # taken[c]
             \/ Len(queue[c]) = cap[c]
             \/ taken[c] = Gone(c) /\ taken[c] >= pushed - cap[c]]_bufferVars
  <2> SUFFICES ASSUME IInv, IInv', TakenInv, FullInv, [Next]_bufferVars,
                      NEW c \in members \cap members', Gone(c)' > Gone(c)
               PROVE  taken'[c] # taken[c] \/ StillFull(c) \/ Overtaken(c)
    BY DEF StillFull, Overtaken
  <2>1. Gone(c)' # Gone(c)
    BY GoneType
  <2>2. QED
    BY <2>1, TakenStep DEF LeftAs
<1>2. QED
  BY <1>1, TakenAlways, PTL DEF Spec, KeepsWhatFits
=============================================================================
