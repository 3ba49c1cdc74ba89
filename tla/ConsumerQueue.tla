--------------------------- MODULE ConsumerQueue ---------------------------
(***************************************************************************)
(* consumer_queue (consumer_queue.cpp) over the single-producer,           *)
(* single-consumer ring of boost::lockfree::spsc_queue that it wraps.  The *)
(* thread "push" adds samples and, when the ring is full, pops the oldest  *)
(* itself; the thread "pull" pops.  Every access to the two shared indices *)
(* or to a slot is a step.  Samples are numbered 1, 2, ...                 *)
(***************************************************************************)
EXTENDS Naturals, Sequences

CONSTANTS
  Capacity,    \* max_capacity; the ring has one slot more
  NumSamples   \* bound: samples pushed

ASSUME ConsumerQueueAssumption ==
  /\ Capacity \in Nat \ {0}
  /\ NumSamples \in Nat

Slots   == 0 .. Capacity
Samples == 1 .. NumSamples
Threads == {"push", "pull"}

VARIABLES
  writeIndex,  \* write_index_
  readIndex,   \* read_index_
  buffer,      \* slot -> sample last constructed in it, 0 if none
  pc,          \* thread -> where it is
  reg,         \* thread -> its local copies: write index, read index, sample
  pushed,      \* number of samples pushed
  got,         \* the sample pulled last, 0 at first
  destroyed,   \* history: sample -> how often its slot's reference was dropped,
               \* 2 for more than once
  overlapped   \* history: pops of the two threads have overlapped

vars == <<writeIndex, readIndex, buffer, pc, reg, pushed, got, destroyed, overlapped>>

Init ==
  /\ writeIndex = 0
  /\ readIndex = 0
  /\ buffer = [i \in Slots |-> 0]
  /\ pc = [t \in Threads |-> "idle"]
  /\ reg = [t \in Threads |-> [w |-> 0, r |-> 0, sample |-> 0]]
  /\ pushed = 0
  /\ got = 0
  /\ destroyed = [s \in Samples |-> 0]
  /\ overlapped = FALSE

(* next_index                                                              *)
NextIndex(i) == IF i = Capacity THEN 0 ELSE i + 1

(* read_available                                                          *)
Used == IF writeIndex >= readIndex THEN writeIndex - readIndex
        ELSE writeIndex + Capacity + 1 - readIndex

Goto(t, where) == pc' = [pc EXCEPT ![t] = where]

-----------------------------------------------------------------------------
(* push_sample is called.                                                  *)
PushBegin ==
  /\ pc["push"] = "idle"
  /\ pushed < NumSamples
  /\ Goto("push", "check")
  /\ UNCHANGED <<writeIndex, readIndex, buffer, reg, pushed, got, destroyed, overlapped>>

(* Fault: the ring counts as full only when its last slot is taken too.    *)
PushOverwrites ==
  /\ pc["push"] = "check"
  /\ buffer' = [buffer EXCEPT ![writeIndex] = pushed + 1]
  /\ Goto("push", "publish")
  /\ UNCHANGED <<writeIndex, readIndex, reg, pushed, got, destroyed, overlapped>>

(* Fault: a full ring fails the push without a pop.                        *)
PushRetries ==
  /\ pc["push"] = "check"
  /\ NextIndex(writeIndex) # readIndex
  /\ buffer' = [buffer EXCEPT ![writeIndex] = pushed + 1]
  /\ Goto("push", "publish")
  /\ UNCHANGED <<writeIndex, readIndex, reg, pushed, got, destroyed, overlapped>>

(* spsc push: full, so pop(dummy) comes first; or the slot is constructed. *)
PushCheck ==
  /\ pc["push"] = "check"
  /\ IF NextIndex(writeIndex) = readIndex
     THEN Goto("push", "loadW") /\ UNCHANGED buffer
     ELSE /\ buffer' = [buffer EXCEPT ![writeIndex] = pushed + 1]
          /\ Goto("push", "publish")
  /\ UNCHANGED <<writeIndex, readIndex, reg, pushed, got, destroyed, overlapped>>

PushPublish ==
  /\ pc["push"] = "publish"
  /\ writeIndex' = NextIndex(writeIndex)
  /\ pushed' = pushed + 1
  /\ Goto("push", "idle")
  /\ UNCHANGED <<readIndex, buffer, reg, got, destroyed, overlapped>>

(* pop_sample is called.                                                   *)
PullBegin ==
  /\ pc["pull"] = "idle"
  /\ Goto("pull", "loadW")
  /\ UNCHANGED <<writeIndex, readIndex, buffer, reg, pushed, got, destroyed, overlapped>>

-----------------------------------------------------------------------------
(* spsc pop, by either thread.  After it the pusher tries its push again,  *)
(* the puller returns.                                                     *)
Popping(t) == pc[t] \in {"loadR", "copy", "destroy", "store"}
AfterPop(t) == IF t = "push" THEN "check" ELSE "idle"

LoadW(t) ==
  /\ pc[t] = "loadW"
  /\ overlapped' = (overlapped \/ \E u \in Threads : Popping(u))
  /\ reg' = [reg EXCEPT ![t].w = writeIndex]
  /\ Goto(t, "loadR")
  /\ UNCHANGED <<writeIndex, readIndex, buffer, pushed, got, destroyed>>

(* Fault: an empty ring is popped all the same.                            *)
LoadRBlind(t) ==
  /\ pc[t] = "loadR"
  /\ reg' = [reg EXCEPT ![t].r = readIndex]
  /\ Goto(t, "copy")
  /\ UNCHANGED <<writeIndex, readIndex, buffer, pushed, got, destroyed, overlapped>>

(* The ring is empty, and pop returns false, or the sample is copied.      *)
LoadR(t) ==
  /\ pc[t] = "loadR"
  /\ reg' = [reg EXCEPT ![t].r = readIndex]
  /\ Goto(t, IF reg[t].w = readIndex THEN AfterPop(t) ELSE "copy")
  /\ UNCHANGED <<writeIndex, readIndex, buffer, pushed, got, destroyed, overlapped>>

Copy(t) ==
  /\ pc[t] = "copy"
  /\ reg' = [reg EXCEPT ![t].sample = buffer[reg[t].r]]
  /\ Goto(t, "destroy")
  /\ UNCHANGED <<writeIndex, readIndex, buffer, pushed, got, destroyed, overlapped>>

(* buffer[read_index].~T()                                                 *)
Destroy(t) ==
  /\ pc[t] = "destroy"
  /\ destroyed' = [s \in Samples |-> IF s # buffer[reg[t].r] THEN destroyed[s]
                                     ELSE IF destroyed[s] = 0 THEN 1 ELSE 2]
  /\ Goto(t, "store")
  /\ UNCHANGED <<writeIndex, readIndex, buffer, reg, pushed, got, overlapped>>

(* read_index_.store; the sample popped is returned.                       *)
StoreR(t) ==
  /\ pc[t] = "store"
  /\ readIndex' = NextIndex(reg[t].r)
  /\ got' = IF t = "pull" THEN reg[t].sample ELSE got
  /\ Goto(t, AfterPop(t))
  /\ UNCHANGED <<writeIndex, buffer, reg, pushed, destroyed, overlapped>>

Pop(t) == LoadW(t) \/ LoadR(t) \/ Copy(t) \/ Destroy(t) \/ StoreR(t)
Push   == PushBegin \/ PushCheck \/ PushPublish

Next == Push \/ PullBegin \/ \E t \in Threads : Pop(t)

Spec == Init /\ [][Next]_vars

(* The pushing thread runs; of the puller nothing is assumed.              *)
FairSpec == Spec /\ WF_vars(PushCheck \/ PushPublish \/ Pop("push"))

-----------------------------------------------------------------------------
TypeOK ==
  /\ writeIndex \in Slots
  /\ readIndex \in Slots
  /\ buffer \in [Slots -> 0 .. NumSamples]
  /\ pc \in [Threads -> {"idle", "check", "publish", "loadW", "loadR", "copy",
                         "destroy", "store"}]
  /\ reg \in [Threads -> [w : Slots, r : Slots, sample : 0 .. NumSamples]]
  /\ pushed \in 0 .. NumSamples
  /\ got \in 0 .. NumSamples
  /\ destroyed \in [Samples -> 0 .. 2]
  /\ overlapped \in BOOLEAN

Waiting == [i \in 1 .. Used |-> buffer[(readIndex + i - 1) % (Capacity + 1)]]

Lossy == INSTANCE LossyQueue WITH
           put <- pushed, queue <- Waiting, full <- pc["push"] = "loadW" \/ Popping("push"),
           void <- overlapped

(* The ring is a lossy queue (consumer_queue.h:15-16): in order, nothing   *)
(* twice, and only the oldest sample is dropped, only after a push found   *)
(* the ring full; until pops overlap.                                      *)
LossySpec == Lossy!Spec

(* A sample's reference in the queue is dropped once: dropped twice, the   *)
(* sample goes back to the factory while somebody still uses it            *)
(* (spsc_queue.hpp:154-158, consumer_queue.cpp:38-43).  Until pops overlap. *)
DroppedOnce == ~overlapped => \A s \in Samples : destroyed[s] <= 1

(* "A thread-safe producer-consumer queue of unread samples.  Erases the   *)
(* oldest samples if max capacity is exceeded." (consumer_queue.h:15-16)   *)
ThreadSafe == \A s \in Samples : destroyed[s] <= 1

(* Pushing never waits for the puller for ever (consumer_queue.cpp:38-43). *)
PushReturns == pc["push"] = "check" ~> pc["push"] = "idle"
=============================================================================
