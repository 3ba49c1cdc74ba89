--------------------------- MODULE SampleFactory ---------------------------
(***************************************************************************)
(* The freelist of sample::factory (sample.h): a multi-producer, single-   *)
(* consumer queue.  Whichever thread drops the last reference to a sample  *)
(* links it in with an atomic exchange of head_ followed by a separate     *)
(* write of the predecessor's next_; one thread pops.  Every access to     *)
(* head_ or to a next_ that another thread may write is a step.            *)
(***************************************************************************)
EXTENDS Naturals, FiniteSets

CONSTANTS
  NumReserve,   \* samples constructed in advance
  MaxSamples,   \* bound: samples constructed in all
  Releasers     \* the threads, besides the pusher, that drop references

ASSUME SampleFactoryAssumption ==
  /\ NumReserve \in Nat \ {0}
  /\ MaxSamples \in Nat /\ MaxSamples >= NumReserve
  /\ "pusher" \notin Releasers

Sentinel == 0
Null     == MaxSamples + 1
Pooled   == 1 .. MaxSamples
Nodes    == {Sentinel} \cup Pooled
Users    == Releasers \cup {"pusher"}

VARIABLES
  next,    \* next_ of every node
  head,    \* head_
  tail,    \* tail_
  made,    \* number of samples constructed so far
  inUse,   \* the samples handed out whose last reference is not yet dropped
  pop,     \* new_sample on the pusher: where it is, and its local tail and next
  link,    \* thread -> reclaim_sample in progress: where, the node, its predecessor
  deleted, \* history: samples deleted by the destructor, and whether it has run
  overlap  \* history: some release was half done during the current new_sample

factoryVars == <<next, head, tail, made, inUse, pop, link, deleted, overlap>>

NotLinking == [pc |-> "idle", node |-> Null, prev |-> Null]
NotPopping == [pc |-> "idle", tail |-> Null, next |-> Null]

(* The constructor chains the reserve behind the sentinel.                 *)
FactoryInit ==
  /\ next = [n \in Nodes |-> IF n < NumReserve THEN n + 1 ELSE Null]
  /\ head = NumReserve
  /\ tail = Sentinel
  /\ made = NumReserve
  /\ inUse = {}
  /\ pop = NotPopping
  /\ link = [t \in Users |-> NotLinking]
  /\ deleted = [done |-> FALSE, samples |-> {}]
  /\ overlap = FALSE

-----------------------------------------------------------------------------
(* Fault: next_ is not reset.                                              *)
LinkDirty(t, n) ==
  /\ link[t].pc = "idle"
  /\ link' = [link EXCEPT ![t] = [pc |-> "exchange", node |-> n, prev |-> Null]]
  /\ UNCHANGED next

(* reclaim_sample(n) on thread t, first step: n->next_ = NULL.             *)
StartLink(t, n) ==
  /\ link[t].pc = "idle"
  /\ next' = [next EXCEPT ![n] = Null]
  /\ link' = [link EXCEPT ![t] = [pc |-> "exchange", node |-> n, prev |-> Null]]

(* prev = head_.exchange(n)                                                *)
Exchange(t) ==
  /\ link[t].pc = "exchange"
  /\ head' = link[t].node
  /\ link' = [link EXCEPT ![t].prev = head, ![t].pc = "next"]
  /\ overlap' = (overlap \/ t # "pusher")
  /\ UNCHANGED <<next, tail, made, inUse, pop, deleted>>

(* prev->next_ = n                                                         *)
SetNext(t) ==
  /\ link[t].pc = "next"
  /\ next' = [next EXCEPT ![link[t].prev] = link[t].node]
  /\ link' = [link EXCEPT ![t] = NotLinking]
  /\ UNCHANGED <<head, tail, made, inUse, pop, deleted, overlap>>

(* The last reference to a sample is dropped.  The pusher drops references *)
(* too, but not inside new_sample.                                         *)
Release(t, s) ==
  /\ s \in inUse
  /\ t = "pusher" => pop.pc = "idle"
  /\ ~deleted.done
  /\ inUse' = inUse \ {s}
  /\ StartLink(t, s)
  /\ UNCHANGED <<head, tail, made, pop, deleted, overlap>>

-----------------------------------------------------------------------------
(* pop_freelist, first line.                                               *)
PopBegin ==
  /\ pop.pc = "idle" /\ link["pusher"].pc = "idle"
  /\ ~deleted.done
  /\ pop' = [pc |-> IF tail = Sentinel THEN "skip" ELSE "test", tail |-> tail,
             next |-> next[tail]]
  /\ overlap' = \E t \in Releasers : link[t].pc # "idle"
  /\ UNCHANGED <<next, head, tail, made, inUse, link, deleted>>

(* tail is the sentinel: step over it, or return NULL.                     *)
PopSkip ==
  /\ pop.pc = "skip"
  /\ IF pop.next = Null
     THEN pop' = [pop EXCEPT !.pc = "new"] /\ UNCHANGED tail
     ELSE /\ tail' = pop.next
          /\ pop' = [pc |-> "test", tail |-> pop.next, next |-> next[pop.next]]
  /\ UNCHANGED <<next, head, made, inUse, link, deleted, overlap>>

(* Fault: tail_ stays on the sample handed out.                            *)
HandOutKeepsTail ==
  /\ inUse' = inUse \cup {pop.tail}
  /\ pop' = NotPopping
  /\ UNCHANGED tail

(* A sample with a successor can be handed out.                            *)
HandOut ==
  /\ tail' = pop.next
  /\ inUse' = inUse \cup {pop.tail}
  /\ pop' = NotPopping

PopTest ==
  /\ pop.pc = "test"
  /\ IF pop.next # Null
     THEN HandOut
     ELSE pop' = [pop EXCEPT !.pc = "head"] /\ UNCHANGED <<tail, inUse>>
  /\ UNCHANGED <<next, head, made, link, deleted, overlap>>

(* Fault: the last sample of the list is never handed out.                 *)
PopGivesUp ==
  /\ pop.pc = "head"
  /\ pop' = [pop EXCEPT !.pc = "new"]
  /\ UNCHANGED <<next, link, head, tail, made, inUse, deleted, overlap>>

(* tail is the last one: put the sentinel behind it, unless a release is   *)
(* in progress.                                                            *)
PopHead ==
  /\ pop.pc = "head"
  /\ IF pop.tail # head
     THEN pop' = [pop EXCEPT !.pc = "new"] /\ UNCHANGED <<next, link>>
     ELSE /\ StartLink("pusher", Sentinel)
          /\ pop' = [pop EXCEPT !.pc = "again"]
  /\ UNCHANGED <<head, tail, made, inUse, deleted, overlap>>

PopAgain ==
  /\ pop.pc = "again" /\ link["pusher"].pc = "idle"
  /\ IF next[pop.tail] # Null
     THEN /\ tail' = next[pop.tail]
          /\ inUse' = inUse \cup {pop.tail}
          /\ pop' = NotPopping
     ELSE pop' = [pop EXCEPT !.pc = "new"] /\ UNCHANGED <<tail, inUse>>
  /\ UNCHANGED <<next, head, made, link, deleted, overlap>>

(* pop_freelist has returned NULL: construct another sample.               *)
Construct ==
  /\ pop.pc = "new"
  /\ made < MaxSamples
  /\ made' = made + 1
  /\ inUse' = inUse \cup {made + 1}
  /\ pop' = NotPopping
  /\ UNCHANGED <<next, head, tail, link, deleted, overlap>>

NewSample == PopBegin \/ PopSkip \/ PopTest \/ PopHead \/ PopAgain \/ Construct

-----------------------------------------------------------------------------
(* The nodes that can be reached from n: those in every set that holds n   *)
(* and the successors of its members.                                      *)
Reach(n) == {m \in Nodes : \A S \in SUBSET Nodes :
               n \in S /\ (\A k \in S : next[k] # Null => next[k] \in S) => m \in S}

Quiet == pop.pc = "idle" /\ \A t \in Users : link[t].pc = "idle"

(* ~factory: deletes cur for as long as it has a next_, from head_ on.     *)
Destructor ==
  /\ Quiet /\ inUse = {} /\ ~deleted.done
  /\ deleted' = [done |-> TRUE,
                 samples |-> {n \in Reach(head) : next[n] # Null} \ {Sentinel}]
  /\ UNCHANGED <<next, head, tail, made, inUse, pop, link, overlap>>

FactoryNext ==
  \/ NewSample
  \/ \E t \in Users : (\E s \in Pooled : Release(t, s)) \/ Exchange(t) \/ SetNext(t)
  \/ Destructor

FactorySpec == FactoryInit /\ [][FactoryNext]_factoryVars

-----------------------------------------------------------------------------
FactoryTypeOK ==
  /\ next \in [Nodes -> Nodes \cup {Null}]
  /\ head \in Nodes
  /\ tail \in Nodes
  /\ made \in NumReserve .. MaxSamples
  /\ inUse \in SUBSET Pooled
  /\ pop \in [pc : {"idle", "skip", "test", "head", "again", "new"},
              tail : Nodes \cup {Null}, next : Nodes \cup {Null}]
  /\ link \in [Users -> [pc : {"idle", "exchange", "next"}, node : Nodes \cup {Null},
                           prev : Nodes \cup {Null}]]
  /\ deleted \in [done : BOOLEAN, samples : SUBSET Pooled]
  /\ overlap \in BOOLEAN

(* A sample handed out was free: nobody uses it, nobody is in the middle   *)
(* of putting it back, and it is not the sentinel; and every call of       *)
(* new_sample hands one out (sample.h:90-97, 120-143).                     *)
HandedOutOnce ==
  [][/\ \A s \in inUse' \ inUse : s # Sentinel /\ \A t \in Users : link[t].node # s
     /\ pop.pc # "idle" /\ pop'.pc = "idle" => inUse' # inUse]_factoryVars

(* No sample is lost: once no call is in progress, each one is in use or   *)
(* in the list, and the list ends at head_ (sample.h:100-143).             *)
NoneLost ==
  Quiet => /\ Reach(tail) \cup inUse \cup {Sentinel} = {Sentinel} \cup 1 .. made
           /\ head \in Reach(tail) /\ next[head] = Null

(* Memory grows only if the list is empty or another thread's release      *)
(* overlaps the call (sample.h:124-125, 135-136).                          *)
GrowsOnlyIfNeeded ==
  [][pop.pc # "new" /\ pop'.pc = "new" =>
       Reach(tail) \subseteq {Sentinel} \/ overlap]_factoryVars
=============================================================================
