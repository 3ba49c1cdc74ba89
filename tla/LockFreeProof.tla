--------------------------- MODULE LockFreeProof ---------------------------
(***************************************************************************)
(* Proofs about the two lock-free containers of samples, for any sizes.    *)
(*                                                                         *)
(* ConsumerQueue: until pops overlap the ring is a lossy queue, and a      *)
(* slot's reference is dropped once.  The slots between the two indices    *)
(* hold consecutive samples that end with the one pushed last.  As long as *)
(* one thread at a time pops, the index it has loaded is the current one,  *)
(* and the ring that it found not empty stays so; the pusher fills a slot  *)
(* outside.                                                                *)
(*                                                                         *)
(* SampleFactory: no sample is lost or handed out twice.  The nodes from   *)
(* tail_ to head_ form a list, in which next_ leads from each to the one   *)
(* after it, except where a release has exchanged head_ and not yet        *)
(* written next_; every other sample is in use or about to be exchanged.   *)
(***************************************************************************)
EXTENDS ConsumerQueue, SampleFactory, Integers, SequenceTheorems, WellFoundedInduction, TLAPS

USE ConsumerQueueAssumption

-----------------------------------------------------------------------------
(* Arithmetic of the ring.                                                 *)
UsedOf(r, w)  == IF w >= r THEN w - r ELSE w + Capacity + 1 - r
SlotOf(r, i)  == (r + i - 1) % (Capacity + 1)

LEMMA UsedFacts ==
  ASSUME NEW r \in Slots, NEW w \in Slots
  PROVE  /\ UsedOf(r, w) \in 0 .. Capacity
         /\ NextIndex(w) \in Slots
         /\ UsedOf(r, w) = 0 <=> w = r
         /\ UsedOf(r, w) = Capacity <=> NextIndex(w) = r
         /\ NextIndex(w) # r => UsedOf(r, NextIndex(w)) = UsedOf(r, w) + 1
         /\ w # r => UsedOf(NextIndex(r), w) = UsedOf(r, w) - 1
BY DEF Slots, UsedOf, NextIndex

LEMMA SlotIs ==
  ASSUME NEW r \in Slots, NEW i \in 1 .. Capacity + 1
  PROVE  SlotOf(r, i) = IF r + i - 1 <= Capacity THEN r + i - 1 ELSE r + i - 1 - (Capacity + 1)
<1> DEFINE x == r + i - 1
           n == Capacity + 1
<1>1. n \in Nat \ {0} /\ x \in 0 .. 2 * n - 1
  BY DEF Slots
<1> HIDE DEF x, n
<1>2. SlotOf(r, i) = x % n
  BY DEF SlotOf, x, n
<1>3. CASE x \in 0 .. n - 1
  <2>1. x % n = x
    BY <1>1, <1>3
  <2>2. r + i - 1 <= Capacity
    BY <1>3 DEF x, n, Slots
  <2>3. x = r + i - 1
    BY DEF x
  <2>4. QED
    BY <1>2, <2>1, <2>2, <2>3
<1>4. CASE x \in n .. 2 * n - 1
  <2>1. x % n = x - n
    BY <1>1, <1>4
  <2>2. ~(r + i - 1 <= Capacity)
    BY <1>4 DEF x, n, Slots
  <2>3. x = r + i - 1 /\ n = Capacity + 1
    BY DEF x, n
  <2>4. QED
    BY <1>2, <2>1, <2>2, <2>3 DEF Slots
<1>5. QED
  BY <1>1, <1>3, <1>4

LEMMA SlotFacts ==
  ASSUME NEW r \in Slots, NEW w \in Slots, NEW i \in 1 .. Capacity + 1
  PROVE  /\ SlotOf(r, i) \in Slots
         /\ SlotOf(r, i) = w <=> i = UsedOf(r, w) + 1
         /\ i <= Capacity => SlotOf(NextIndex(r), i) = SlotOf(r, i + 1)
<1>1. SlotOf(r, i) = IF r + i - 1 <= Capacity THEN r + i - 1 ELSE r + i - 1 - (Capacity + 1)
  BY SlotIs
<1>2. SlotOf(r, i) \in Slots /\ (SlotOf(r, i) = w <=> i = UsedOf(r, w) + 1)
  BY <1>1 DEF Slots, UsedOf
<1>3. ASSUME i <= Capacity
      PROVE  SlotOf(NextIndex(r), i) = SlotOf(r, i + 1)
  <2>1. NextIndex(r) \in Slots /\ i + 1 \in 1 .. Capacity + 1
    BY <1>3 DEF NextIndex, Slots
  <2>2. /\ SlotOf(NextIndex(r), i) = IF NextIndex(r) + i - 1 <= Capacity THEN NextIndex(r) + i - 1
                                     ELSE NextIndex(r) + i - 1 - (Capacity + 1)
        /\ SlotOf(r, i + 1) = IF r + (i + 1) - 1 <= Capacity THEN r + (i + 1) - 1
                              ELSE r + (i + 1) - 1 - (Capacity + 1)
    BY <2>1, SlotIs
  <2>3. QED
    BY <1>3, <2>2 DEF NextIndex, Slots
<1>4. QED
  BY <1>2, <1>3

-----------------------------------------------------------------------------
(* Types.                                                                  *)
Typed ==
  /\ TypeOK
  /\ pc["push"] # "idle" => pushed < NumSamples
  /\ pc["pull"] \notin {"check", "publish"}

LEMMA TypedInit == Init => Typed
<1> SUFFICES ASSUME Init
             PROVE  Typed
  OBVIOUS
<1> USE DEF Init
<1>1. 0 \in Slots /\ 0 \in 0 .. NumSamples
  BY DEF Slots
<1>2. writeIndex \in Slots /\ readIndex \in Slots /\ buffer \in [Slots -> 0 .. NumSamples]
  BY <1>1
<1>3. reg \in [Threads -> [w : Slots, r : Slots, sample : 0 .. NumSamples]]
  BY <1>1
<1>4. /\ pc \in [Threads -> {"idle", "check", "publish", "loadW", "loadR", "copy",
                             "destroy", "store"}]
      /\ pc["push"] = "idle" /\ pc["pull"] = "idle"
  BY DEF Threads
<1>5. destroyed \in [Samples -> 0 .. 2]
  OBVIOUS
<1>6. QED
  BY <1>1, <1>2, <1>3, <1>4, <1>5 DEF Typed, TypeOK

LEMMA TypedStep == Typed /\ [Next]_vars => Typed'
<1> SUFFICES ASSUME Typed, [Next]_vars
             PROVE  Typed'
  OBVIOUS
<1> USE DEF Typed, TypeOK, Threads, Goto
<1>1. CASE UNCHANGED vars
  BY <1>1 DEF vars
<1>2. CASE PushBegin \/ PullBegin
  BY <1>2 DEF PushBegin, PullBegin
<1>3. CASE PushCheck
  <2>1. pushed + 1 \in 0 .. NumSamples
    BY <1>3 DEF PushCheck
  <2>2. buffer' \in [Slots -> 0 .. NumSamples]
    BY <1>3, <2>1 DEF PushCheck
  <2>3. QED
    BY <1>3, <2>2 DEF PushCheck
<1>4. CASE PushPublish
  <2>1. NextIndex(writeIndex) \in Slots
    BY UsedFacts
  <2>2. QED
    BY <1>4, <2>1 DEF PushPublish
<1>5. ASSUME NEW t \in Threads, LoadW(t)
      PROVE  Typed'
  BY <1>5 DEF LoadW
<1>6. ASSUME NEW t \in Threads, LoadR(t)
      PROVE  Typed'
  BY <1>6 DEF LoadR, AfterPop
<1>7. ASSUME NEW t \in Threads, Copy(t)
      PROVE  Typed'
  BY <1>7 DEF Copy
<1>8. ASSUME NEW t \in Threads, Destroy(t)
      PROVE  Typed'
  BY <1>8 DEF Destroy
<1>9. ASSUME NEW t \in Threads, StoreR(t)
      PROVE  Typed'
  <2>1. NextIndex(reg[t].r) \in Slots
    BY UsedFacts
  <2>2. QED
    BY <1>9, <2>1 DEF StoreR, AfterPop
<1>10. QED
  BY <1>1, <1>2, <1>3, <1>4, <1>5, <1>6, <1>7, <1>8, <1>9 DEF Next, Push, Pop

-----------------------------------------------------------------------------
(* The ring until pops overlap.                                            *)
First == pushed - Used + 1

Consecutive ==
  /\ Used <= pushed
  /\ \A i \in 1 .. Used : buffer[SlotOf(readIndex, i)] = pushed - Used + i

OnePops == \A t, u \in Threads : Popping(t) /\ Popping(u) => t = u

(* What the local copies of a thread are worth.                            *)
Loaded(t) ==
  /\ pc[t] = "loadR" /\ reg[t].w # readIndex => writeIndex # readIndex
  /\ pc[t] \in {"copy", "destroy", "store"} => reg[t].r = readIndex /\ writeIndex # readIndex
  /\ pc[t] \in {"destroy", "store"} => reg[t].sample = First

PusherKnows ==
  /\ pc["push"] = "loadR" => reg["push"].w = writeIndex
  /\ pc["push"] = "publish" => /\ NextIndex(writeIndex) # readIndex
                               /\ buffer[writeIndex] = pushed + 1

DropsInOrder ==
  \A s \in Samples :
    /\ destroyed[s] <= 1
    /\ s >= First /\ destroyed[s] > 0 => s = First /\ \E t \in Threads : pc[t] = "store"

Orderly == Consecutive /\ OnePops /\ (\A t \in Threads : Loaded(t)) /\ PusherKnows /\ DropsInOrder

RingInv == Typed /\ (~overlapped => Orderly)

LEMMA UsedIs == Used = UsedOf(readIndex, writeIndex)
BY DEF Used, UsedOf

LEMMA RingInit == Init => RingInv
<1> SUFFICES ASSUME Init
             PROVE  Orderly
  BY TypedInit DEF RingInv
<1>1. Used = 0
  BY DEF Init, Used
<1>2. QED
  BY <1>1 DEF Init, Orderly, Consecutive, OnePops, Loaded, PusherKnows, DropsInOrder,
              Popping, Threads

(* Steps that leave the indices and the slots in use alone.                *)
LEMMA SameRing ==
  ASSUME Typed, Orderly, UNCHANGED <<writeIndex, readIndex, buffer, pushed>>
  PROVE  Consecutive' /\ Used' = Used /\ First' = First
BY DEF Orderly, Consecutive, Used, First, SlotOf

LEMMA FirstWaits ==
  ASSUME Typed, Orderly, writeIndex # readIndex
  PROVE  /\ Used \in 1 .. Capacity
         /\ buffer[readIndex] = First
         /\ First \in Samples
<1>1. Used \in 1 .. Capacity
  BY UsedIs, UsedFacts DEF Typed, TypeOK
<1>2. SlotOf(readIndex, 1) = readIndex
  <2>1. SlotOf(readIndex, 1) = IF readIndex + 1 - 1 <= Capacity THEN readIndex + 1 - 1
                               ELSE readIndex + 1 - 1 - (Capacity + 1)
    BY SlotIs DEF Typed, TypeOK
  <2>2. QED
    BY <2>1 DEF Typed, TypeOK, Slots
<1>3. buffer[readIndex] = First
  BY <1>1, <1>2 DEF Orderly, Consecutive, First, Typed, TypeOK
<1>4. First \in Samples
  BY <1>1 DEF First, Samples, Orderly, Consecutive, Typed, TypeOK
<1>5. QED
  BY <1>1, <1>3, <1>4

LEMMA BeginRing ==
  ASSUME Typed, Orderly, PushBegin \/ PullBegin
  PROVE  Orderly'
<1>1. /\ UNCHANGED <<writeIndex, readIndex, buffer, pushed, reg, destroyed>>
      /\ \A t \in Threads : pc'[t] = pc[t] \/ (pc[t] = "idle" /\ pc'[t] \in {"check", "loadW"})
  BY DEF PushBegin, PullBegin, Goto, Typed, TypeOK, Threads
<1>2. \A t \in Threads : Popping(t)' = Popping(t)
  BY <1>1 DEF Popping
<1>3. \A t \in Threads : Loaded(t)'
  BY <1>1, SameRing DEF Orderly, Loaded
<1>4. PusherKnows'
  BY <1>1 DEF Orderly, PusherKnows, Threads
<1>5. DropsInOrder'
  BY <1>1, SameRing DEF Orderly, DropsInOrder
<1>6. QED
  BY <1>1, <1>2, <1>3, <1>4, <1>5, SameRing DEF Orderly, OnePops

LEMMA CheckRing ==
  ASSUME Typed, Orderly, PushCheck
  PROVE  Orderly'
<1> USE DEF Typed, TypeOK
<1>1. /\ UNCHANGED <<writeIndex, readIndex, pushed, reg, destroyed>>
      /\ pc["push"] = "check" /\ pc'["pull"] = pc["pull"]
      /\ \/ NextIndex(writeIndex) = readIndex /\ pc'["push"] = "loadW" /\ buffer' = buffer
         \/ /\ NextIndex(writeIndex) # readIndex /\ pc'["push"] = "publish"
            /\ buffer' = [buffer EXCEPT ![writeIndex] = pushed + 1]
  BY DEF PushCheck, Goto, Threads
<1>2. Used' = Used /\ First' = First /\ Used \in 0 .. Capacity
  BY <1>1, UsedIs, UsedFacts DEF Used, First
<1>3. Consecutive'
  <2>1. ASSUME NEW i \in 1 .. Used
        PROVE  buffer'[SlotOf(readIndex, i)] = buffer[SlotOf(readIndex, i)]
    <3>1. i \in 1 .. Capacity + 1 /\ i # Used + 1
      BY <1>2
    <3>2. SlotOf(readIndex, i) # writeIndex /\ SlotOf(readIndex, i) \in Slots
      BY <3>1, UsedIs, SlotFacts
    <3>3. QED
      BY <1>1, <3>2
  <2>2. \A i \in 1 .. Used : SlotOf(readIndex, i)' = SlotOf(readIndex, i)
    BY <1>1 DEF SlotOf
  <2>3. QED
    BY <1>1, <1>2, <2>1, <2>2 DEF Orderly, Consecutive
<1>4. OnePops'
  BY <1>1 DEF Orderly, OnePops, Popping, Threads
<1>5. \A t \in Threads : Loaded(t)'
  BY <1>1, <1>2 DEF Orderly, Loaded, Threads
<1>6. PusherKnows'
  BY <1>1 DEF Orderly, PusherKnows
<1>7. DropsInOrder'
  BY <1>1, <1>2 DEF Orderly, DropsInOrder, Threads
<1>8. QED
  BY <1>3, <1>4, <1>5, <1>6, <1>7 DEF Orderly

LEMMA PublishRing ==
  ASSUME Typed, Orderly, PushPublish
  PROVE  Orderly' /\ Used' = Used + 1 /\ Used < Capacity
<1> USE DEF Typed, TypeOK
<1>1. /\ UNCHANGED <<readIndex, buffer, reg, destroyed>>
      /\ writeIndex' = NextIndex(writeIndex) /\ pushed' = pushed + 1
      /\ pc["push"] = "publish" /\ pc'["push"] = "idle" /\ pc'["pull"] = pc["pull"]
      /\ NextIndex(writeIndex) # readIndex /\ buffer[writeIndex] = pushed + 1
  BY DEF PushPublish, Goto, Threads, Orderly, PusherKnows
<1>2. Used \in 0 .. Capacity - 1 /\ Used' = Used + 1 /\ Used <= pushed
  <2>1. Used' = UsedOf(readIndex, NextIndex(writeIndex))
    BY <1>1 DEF Used, UsedOf
  <2>2. QED
    BY <1>1, <2>1, UsedIs, UsedFacts DEF Orderly, Consecutive
<1>3. First' = First
  BY <1>1, <1>2 DEF First
<1>4. Consecutive'
  <2>1. \A i \in 1 .. Used + 1 : SlotOf(readIndex, i)' = SlotOf(readIndex, i)
    BY <1>1 DEF SlotOf
  <2>2. SlotOf(readIndex, Used + 1) = writeIndex
    BY <1>2, UsedIs, SlotFacts
  <2>3. \A i \in 1 .. Used + 1 : buffer[SlotOf(readIndex, i)] = pushed - Used + i
    <3>1. buffer[SlotOf(readIndex, Used + 1)] = pushed - Used + (Used + 1)
      BY <1>1, <1>2, <2>2
    <3>2. \A i \in 1 .. Used + 1 : i = Used + 1 \/ i \in 1 .. Used
      BY <1>2
    <3>3. QED
      BY <3>1, <3>2 DEF Orderly, Consecutive
  <2>4. \A i \in 1 .. Used + 1 : pushed + 1 - (Used + 1) + i = pushed - Used + i
    BY <1>2
  <2>5. Used + 1 <= pushed + 1
    BY <1>2
  <2>6. QED
    BY <1>1, <1>2, <2>1, <2>3, <2>4, <2>5 DEF Consecutive
<1>5. OnePops'
  BY <1>1 DEF Orderly, OnePops, Popping, Threads
<1>6. \A t \in Threads : Loaded(t)'
  BY <1>1, <1>3 DEF Orderly, Loaded, Threads
<1>7. DropsInOrder'
  BY <1>1, <1>3 DEF Orderly, DropsInOrder, Threads
<1>8. QED
  BY <1>1, <1>2, <1>4, <1>5, <1>6, <1>7 DEF Orderly, PusherKnows

(* The steps of a pop that leave the ring alone.                           *)
LEMMA LoadWRing ==
  ASSUME Typed, Orderly, NEW t \in Threads, LoadW(t), ~overlapped'
  PROVE  Orderly'
<1> USE DEF Typed, TypeOK
<1>1. /\ UNCHANGED <<writeIndex, readIndex, buffer, pushed, destroyed>>
      /\ \A u \in Threads : ~Popping(u)
      /\ pc[t] = "loadW" /\ pc' = [pc EXCEPT ![t] = "loadR"]
      /\ reg' = [reg EXCEPT ![t].w = writeIndex]
  BY DEF LoadW, Goto
<1>2. \A u \in Threads : Popping(u)' => u = t
  BY <1>1 DEF Popping
<1>3. \A u \in Threads : Loaded(u)'
  BY <1>1, SameRing DEF Orderly, Loaded
<1>4. PusherKnows'
  BY <1>1 DEF Orderly, PusherKnows, Threads
<1>5. DropsInOrder'
  BY <1>1, SameRing DEF Orderly, DropsInOrder
<1>6. QED
  BY <1>1, <1>2, <1>3, <1>4, <1>5, SameRing DEF Orderly, OnePops

LEMMA LoadRRing ==
  ASSUME Typed, Orderly, NEW t \in Threads, LoadR(t)
  PROVE  Orderly' /\ (pc'[t] # "copy" => reg[t].w = readIndex)
<1> USE DEF Typed, TypeOK
<1>1. /\ UNCHANGED <<writeIndex, readIndex, buffer, pushed, destroyed>>
      /\ pc[t] = "loadR"
      /\ reg' = [reg EXCEPT ![t].r = readIndex]
      /\ \A u \in Threads \ {t} : pc'[u] = pc[u]
      /\ \/ reg[t].w = readIndex /\ pc'[t] \in {"check", "idle"}
         \/ reg[t].w # readIndex /\ pc'[t] = "copy"
  BY DEF LoadR, Goto, AfterPop
<1>2. \A u \in Threads : Popping(u)' => Popping(u)
  BY <1>1 DEF Popping
<1>3. \A u \in Threads : Loaded(u)'
  BY <1>1, SameRing DEF Orderly, Loaded
<1>4. PusherKnows'
  BY <1>1 DEF Orderly, PusherKnows, Threads
<1>5. DropsInOrder'
  BY <1>1, SameRing DEF Orderly, DropsInOrder
<1>6. QED
  BY <1>1, <1>2, <1>3, <1>4, <1>5, SameRing DEF Orderly, OnePops

LEMMA CopyRing ==
  ASSUME Typed, Orderly, NEW t \in Threads, Copy(t)
  PROVE  Orderly'
<1> USE DEF Typed, TypeOK
<1>1. /\ UNCHANGED <<writeIndex, readIndex, buffer, pushed, destroyed>>
      /\ pc[t] = "copy" /\ pc' = [pc EXCEPT ![t] = "destroy"]
      /\ reg' = [reg EXCEPT ![t].sample = buffer[reg[t].r]]
  BY DEF Copy, Goto
<1>2. \A u \in Threads : Popping(u)' => Popping(u)
  BY <1>1 DEF Popping
<1>3. reg[t].r = readIndex /\ writeIndex # readIndex /\ buffer[readIndex] = First
  BY <1>1, FirstWaits DEF Orderly, Loaded
<1>4. \A u \in Threads : Loaded(u)'
  BY <1>1, <1>3, SameRing DEF Orderly, Loaded
<1>5. PusherKnows'
  BY <1>1 DEF Orderly, PusherKnows, Threads
<1>6. DropsInOrder'
  BY <1>1, SameRing DEF Orderly, DropsInOrder
<1>7. QED
  BY <1>1, <1>2, <1>4, <1>5, <1>6, SameRing DEF Orderly, OnePops

LEMMA DestroyRing ==
  ASSUME Typed, Orderly, NEW t \in Threads, Destroy(t)
  PROVE  Orderly'
<1> USE DEF Typed, TypeOK
<1>1. /\ UNCHANGED <<writeIndex, readIndex, buffer, pushed, reg>>
      /\ pc[t] = "destroy" /\ pc' = [pc EXCEPT ![t] = "store"]
      /\ destroyed' = [s \in Samples |-> IF s # buffer[reg[t].r] THEN destroyed[s]
                                         ELSE IF destroyed[s] = 0 THEN 1 ELSE 2]
  BY DEF Destroy, Goto
<1>2. \A u \in Threads : Popping(u)' => Popping(u)
  BY <1>1 DEF Popping
<1>3. reg[t].r = readIndex /\ writeIndex # readIndex /\ buffer[readIndex] = First
      /\ reg[t].sample = First /\ First \in Samples
  BY <1>1, FirstWaits DEF Orderly, Loaded
<1>4. \A u \in Threads : Loaded(u)'
  BY <1>1, SameRing DEF Orderly, Loaded
<1>5. PusherKnows'
  BY <1>1 DEF Orderly, PusherKnows, Threads
<1>6. \A u \in Threads : pc[u] # "store"
  BY <1>1 DEF Orderly, OnePops, Popping
<1>7. destroyed[First] = 0
  <2>1. ~(destroyed[First] > 0)
    BY <1>3, <1>6 DEF Orderly, DropsInOrder, Samples
  <2>2. QED
    BY <1>3, <2>1
<1>8. DropsInOrder'
  <2>1. SUFFICES ASSUME NEW s \in Samples
                 PROVE  /\ destroyed'[s] <= 1
                        /\ s >= First /\ destroyed'[s] > 0 => s = First
    BY <1>1, SameRing DEF DropsInOrder
  <2>2. CASE s = First
    BY <1>1, <1>3, <1>7, <2>2
  <2>3. CASE s # First
    BY <1>1, <1>3, <2>3 DEF Orderly, DropsInOrder
  <2>4. QED
    BY <2>2, <2>3
<1>9. QED
  BY <1>1, <1>2, <1>4, <1>5, <1>8, SameRing DEF Orderly, OnePops

LEMMA StoreRing ==
  ASSUME Typed, Orderly, NEW t \in Threads, StoreR(t)
  PROVE  /\ Orderly'
         /\ Used \in 1 .. Capacity /\ Used' = Used - 1
         /\ reg[t].sample = First
<1> USE DEF Typed, TypeOK
<1>1. /\ UNCHANGED <<writeIndex, buffer, pushed, reg, destroyed>>
      /\ readIndex' = NextIndex(reg[t].r)
      /\ pc[t] = "store" /\ pc'[t] \in {"check", "idle"}
      /\ \A u \in Threads \ {t} : pc'[u] = pc[u]
  BY DEF StoreR, Goto, AfterPop
<1>2. /\ reg[t].r = readIndex /\ writeIndex # readIndex /\ Used \in 1 .. Capacity
      /\ reg[t].sample = First
  BY <1>1, FirstWaits DEF Orderly, Loaded
<1>3. Used' = Used - 1 /\ First' = First + 1 /\ readIndex' = NextIndex(readIndex)
  <2>1. readIndex' = NextIndex(readIndex)
    BY <1>1, <1>2
  <2>2. Used' = UsedOf(NextIndex(readIndex), writeIndex)
    BY <1>1, <2>1 DEF Used, UsedOf
  <2>3. Used' = Used - 1
    BY <1>2, <2>2, UsedIs, UsedFacts
  <2>4. First' = First + 1
    BY <1>1, <1>2, <2>3 DEF First
  <2>5. QED
    BY <2>1, <2>3, <2>4
<1>4. Consecutive'
  <2>1. ASSUME NEW i \in 1 .. Used - 1
        PROVE  buffer[SlotOf(readIndex, i)'] = pushed - (Used - 1) + i
    <3>1. SlotOf(readIndex, i)' = SlotOf(NextIndex(readIndex), i)
      BY <1>3 DEF SlotOf
    <3>2. SlotOf(NextIndex(readIndex), i) = SlotOf(readIndex, i + 1)
      BY <1>2, SlotFacts
    <3>3. buffer[SlotOf(readIndex, i + 1)] = pushed - Used + (i + 1)
      BY <1>2 DEF Orderly, Consecutive
    <3>4. QED
      BY <1>2, <3>1, <3>2, <3>3
  <2>2. Used - 1 <= pushed
    BY <1>2 DEF Orderly, Consecutive
  <2>3. QED
    BY <1>1, <1>3, <2>1, <2>2 DEF Consecutive
<1>5. \A u \in Threads : (Popping(u)' => Popping(u)) /\ ~Popping(u)'
  BY <1>1 DEF Orderly, OnePops, Popping
<1>6. \A u \in Threads : Loaded(u)'
  BY <1>5 DEF Loaded, Popping
<1>7. PusherKnows'
  <2>1. pc'["push"] = "publish" => pc["push"] = "publish"
    BY <1>1 DEF Threads
  <2>2. NextIndex(writeIndex) # NextIndex(readIndex)
    BY <1>2 DEF NextIndex, Slots
  <2>3. pc'["push"] # "loadR"
    BY <1>5 DEF Popping, Threads
  <2>4. QED
    BY <1>1, <1>3, <2>1, <2>2, <2>3 DEF Orderly, PusherKnows
<1>8. DropsInOrder'
  <2>1. SUFFICES ASSUME NEW s \in Samples, s >= First + 1
                 PROVE  ~(destroyed[s] > 0)
    BY <1>1, <1>3 DEF Orderly, DropsInOrder
  <2>2. First \in Int /\ s \in Int
    BY <1>2 DEF First, Samples
  <2>3. QED
    BY <2>1, <2>2 DEF Orderly, DropsInOrder
<1>9. QED
  BY <1>2, <1>3, <1>4, <1>5, <1>6, <1>7, <1>8 DEF Orderly, OnePops

LEMMA PopStarts ==
  ASSUME NEW t \in Threads, Pop(t), ~overlapped'
  PROVE  ~overlapped
<1>1. CASE LoadW(t)
  <2> DEFINE Both == \E u \in Threads : Popping(u)
  <2>1. overlapped' = (overlapped \/ Both)
    BY <1>1 DEF LoadW
  <2> HIDE DEF Both
  <2>2. QED
    BY <2>1
<1>2. CASE LoadR(t) \/ Copy(t) \/ Destroy(t) \/ StoreR(t)
  BY <1>2 DEF LoadR, Copy, Destroy, StoreR
<1>3. QED
  BY <1>1, <1>2 DEF Pop

LEMMA PopRing ==
  ASSUME RingInv, NEW t \in Threads, Pop(t), ~overlapped'
  PROVE  Orderly'
<1>1. ~overlapped /\ Typed /\ Orderly
  BY PopStarts DEF RingInv
<1>2. QED
  BY <1>1, LoadWRing, LoadRRing, CopyRing, DestroyRing, StoreRing DEF Pop

LEMMA RingStep == RingInv /\ [Next]_vars => RingInv'
<1> SUFFICES ASSUME RingInv, [Next]_vars, ~overlapped'
             PROVE  Orderly'
  BY TypedStep DEF RingInv
<1>1. CASE \E t \in Threads : Pop(t)
  BY <1>1, PopRing
<1>2. CASE Push \/ PullBegin
  <2>1. Typed /\ Orderly
    BY <1>2 DEF RingInv, Push, PushBegin, PushCheck, PushPublish, PullBegin
  <2>2. QED
    BY <1>2, <2>1, BeginRing, CheckRing, PublishRing DEF Push
<1>3. CASE UNCHANGED vars
  <2>1. Orderly /\ Typed
    BY <1>3 DEF RingInv, vars
  <2>2. QED
    BY <1>3, <2>1, SameRing DEF vars, Orderly, OnePops, Popping, Loaded, PusherKnows, DropsInOrder
<1>4. QED
  BY <1>1, <1>2, <1>3 DEF Next

THEOREM Invariance == Spec => []RingInv
BY RingInit, RingStep, PTL DEF Spec

(* Until pops overlap a slot's reference is dropped once                   *)
(* (spsc_queue.hpp:154-158).                                               *)
THEOREM NeverDroppedTwice == Spec => []DroppedOnce
<1>1. RingInv => DroppedOnce
  BY DEF RingInv, Orderly, DropsInOrder, DroppedOnce
<1>2. QED
  BY <1>1, Invariance, PTL

-----------------------------------------------------------------------------
(* What waits is the run of u samples that ends with sample p.             *)
Run(u, p) == [i \in 1 .. u |-> p - u + i]

LEMMA RunSeq ==
  ASSUME NEW u \in Nat, NEW p \in Nat
  PROVE  Run(u, p) \in Seq(Int) /\ Len(Run(u, p)) = u /\ (Run(u, p) = <<>> <=> u = 0)
<1>1. Run(u, p) \in Seq(Int) /\ Len(Run(u, p)) = u
  BY IsASeq DEF Run
<1>2. QED
  BY <1>1, EmptySeq

LEMMA RunAppend ==
  ASSUME NEW u \in Nat, NEW p \in Nat
  PROVE  Run(u + 1, p + 1) = Append(Run(u, p), p + 1)
<1>1. /\ Run(u, p) \in Seq(Int) /\ Len(Run(u, p)) = u
      /\ Run(u + 1, p + 1) \in Seq(Int) /\ Len(Run(u + 1, p + 1)) = u + 1
  BY RunSeq
<1>2. /\ Append(Run(u, p), p + 1) \in Seq(Int)
      /\ Len(Append(Run(u, p), p + 1)) = u + 1
      /\ \A i \in 1 .. u : Append(Run(u, p), p + 1)[i] = Run(u, p)[i]
      /\ Append(Run(u, p), p + 1)[u + 1] = p + 1
  BY <1>1, AppendProperties
<1>3. ASSUME NEW i \in 1 .. u + 1
      PROVE  Run(u + 1, p + 1)[i] = Append(Run(u, p), p + 1)[i]
  <2>1. Run(u + 1, p + 1)[i] = p + 1 - (u + 1) + i
    BY DEF Run
  <2>2. CASE i \in 1 .. u
    BY <1>2, <2>1, <2>2 DEF Run
  <2>3. CASE i = u + 1
    <3>1. p + 1 - (u + 1) + i = p + 1
      BY <2>3
    <3>2. Run(u + 1, p + 1)[i] = p + 1
      BY <2>1, <3>1, Zenon
    <3>3. Append(Run(u, p), p + 1)[i] = p + 1
      BY <1>2, <2>3, Zenon
    <3>4. QED
      BY <3>2, <3>3, Zenon
  <2>4. i \in 1 .. u \/ i = u + 1
    OBVIOUS
  <2>5. QED
    BY <2>2, <2>3, <2>4, Zenon
<1>4. QED
  BY <1>1, <1>2, <1>3, SeqEqual

LEMMA RunTail ==
  ASSUME NEW u \in Nat \ {0}, NEW p \in Nat
  PROVE  Run(u - 1, p) = Tail(Run(u, p)) /\ Head(Run(u, p)) = p - u + 1
<1>1. /\ Run(u, p) \in Seq(Int) /\ Len(Run(u, p)) = u /\ Run(u, p) # <<>>
      /\ Run(u - 1, p) \in Seq(Int) /\ Len(Run(u - 1, p)) = u - 1
  BY RunSeq
<1>2. /\ Tail(Run(u, p)) \in Seq(Int) /\ Len(Tail(Run(u, p))) = u - 1
      /\ \A i \in 1 .. u - 1 : Tail(Run(u, p))[i] = Run(u, p)[i + 1]
  BY <1>1, HeadTailProperties
<1>3. ASSUME NEW i \in 1 .. u - 1
      PROVE  Run(u - 1, p)[i] = Tail(Run(u, p))[i]
  BY <1>2 DEF Run
<1>4. Head(Run(u, p)) = p - u + 1
  BY <1>1 DEF Run
<1>5. QED
  BY <1>1, <1>2, <1>3, <1>4, SeqEqual

LEMMA WaitingIs ==
  ASSUME RingInv, ~overlapped
  PROVE  Waiting = Run(Used, pushed) /\ Used \in 0 .. Capacity /\ pushed \in Nat
<1>1. Used \in 0 .. Capacity /\ pushed \in Nat
  BY UsedIs, UsedFacts DEF RingInv, Typed, TypeOK
<1>2. \A i \in 1 .. Used : buffer[(readIndex + i - 1) % (Capacity + 1)] = pushed - Used + i
  BY DEF RingInv, Orderly, Consecutive, SlotOf
<1>3. QED
  BY <1>1, <1>2 DEF Waiting, Run

(* What a step of the ring is for the queue.                               *)
Full == pc["push"] = "loadW" \/ Popping("push")

LEMMA QueueInit == Init => Lossy!Init
<1> SUFFICES ASSUME Init PROVE Lossy!Init
  OBVIOUS
<1>1. Used = 0 /\ pushed = 0 /\ ~overlapped /\ RingInv
  BY RingInit DEF Init, Used
<1>2. Waiting = <<>>
  BY <1>1, WaitingIs, RunSeq
<1>3. ~Full
  BY DEF Init, Full, Popping, Threads
<1>4. QED
  BY <1>1, <1>2, <1>3 DEF Init, Lossy!Init, Full

(* The queue after a step, from the number of samples in the ring.         *)
LEMMA WaitingNext ==
  ASSUME RingInv', ~overlapped'
  PROVE  Waiting' = Run(Used', pushed')
<1>1. Used' = UsedOf(readIndex', writeIndex')
  BY DEF Used, UsedOf
<1>2. Used' \in 0 .. Capacity /\ pushed' \in Nat
  BY <1>1, UsedFacts DEF RingInv, Typed, TypeOK
<1>3. \A i \in 1 .. Used' :
        buffer'[(readIndex' + i - 1) % (Capacity + 1)] = pushed' - Used' + i
  BY DEF RingInv, Orderly, Consecutive, SlotOf
<1>4. Waiting' = [i \in 1 .. Used' |-> buffer'[(readIndex' + i - 1) % (Capacity + 1)]]
  BY DEF Waiting
<1>5. QED
  BY <1>2, <1>3, <1>4 DEF Run

LEMMA SameQueue ==
  ASSUME RingInv, RingInv', ~overlapped, ~overlapped', UNCHANGED <<writeIndex, readIndex, pushed>>
  PROVE  Waiting' = Waiting
<1>1. Used' = Used
  BY DEF Used
<1>2. QED
  BY <1>1, WaitingIs, WaitingNext

LEMMA PushImplements ==
  ASSUME RingInv, RingInv', ~overlapped, ~overlapped', Push
  PROVE  Lossy!Next \/ UNCHANGED <<pushed, Waiting, Full, got, overlapped>>
<1> USE DEF RingInv, Typed, TypeOK
<1>1. CASE PushBegin
  <2>1. Waiting' = Waiting
    BY <1>1, SameQueue DEF PushBegin
  <2>2. Full' = Full
    BY <1>1 DEF PushBegin, Full, Popping, Goto, Threads
  <2>3. QED
    BY <1>1, <2>1, <2>2 DEF PushBegin
<1>2. CASE PushCheck
  <2>1. Waiting' = Waiting
    BY <1>2, SameQueue DEF PushCheck
  <2>2. CASE NextIndex(writeIndex) = readIndex
    <3>1. Used = Capacity
      BY <2>2, UsedIs, UsedFacts
    <3>2. Len(Waiting) = Capacity
      BY <3>1, WaitingIs, RunSeq
    <3>3. ~Full /\ Full'
      BY <1>2, <2>2 DEF PushCheck, Full, Popping, Goto, Threads
    <3>4. Lossy!FindFull
      BY <1>2, <2>1, <3>2, <3>3 DEF Lossy!FindFull, Full, PushCheck
    <3>5. QED
      BY <3>4 DEF Lossy!Next
  <2>3. CASE NextIndex(writeIndex) # readIndex
    <3>1. Full' = Full
      BY <1>2, <2>3 DEF PushCheck, Full, Popping, Goto, Threads
    <3>2. QED
      BY <1>2, <2>1, <3>1 DEF PushCheck
  <2>4. QED
    BY <2>2, <2>3
<1>3. CASE PushPublish
  <2>1. Used' = Used + 1 /\ Used < Capacity /\ pushed' = pushed + 1
    BY <1>3, PublishRing DEF PushPublish
  <2>2. Waiting = Run(Used, pushed) /\ Waiting' = Run(Used + 1, pushed + 1)
        /\ Used \in Nat /\ pushed \in Nat
    BY <2>1, WaitingIs, WaitingNext
  <2>3. Waiting' = Append(Waiting, pushed + 1) /\ Len(Waiting) = Used
    BY <2>2, RunAppend, RunSeq
  <2>4. ~Full /\ ~Full'
    BY <1>3 DEF PushPublish, Full, Popping, Goto, Threads
  <2>5. Lossy!Put
    BY <1>3, <2>1, <2>3, <2>4 DEF Lossy!Put, Full, PushPublish
  <2>6. QED
    BY <2>5 DEF Lossy!Next
<1>4. QED
  BY <1>1, <1>2, <1>3 DEF Push

LEMMA PopImplements ==
  ASSUME RingInv, RingInv', ~overlapped, ~overlapped', NEW t \in Threads, Pop(t)
  PROVE  Lossy!Next \/ UNCHANGED <<pushed, Waiting, Full, got, overlapped>>
<1> USE DEF RingInv, Typed, TypeOK
<1>1. CASE LoadW(t) \/ Copy(t) \/ Destroy(t)
  <2>1. Waiting' = Waiting
    BY <1>1, SameQueue DEF LoadW, Copy, Destroy
  <2>2. Full' = Full
    <3>1. \E w \in {"loadR", "destroy", "store"} :
            pc' = [pc EXCEPT ![t] = w] /\ pc[t] \in {"loadW", "copy", "destroy"}
      BY <1>1 DEF LoadW, Copy, Destroy, Goto
    <3>2. QED
      BY <3>1 DEF Full, Popping, Threads
  <2>3. QED
    BY <1>1, <2>1, <2>2 DEF LoadW, Copy, Destroy
<1>2. CASE LoadR(t)
  <2>1. Waiting' = Waiting
    BY <1>2, SameQueue DEF LoadR
  <2>2. CASE t = "push" /\ reg[t].w = readIndex
    <3>1. writeIndex = readIndex
      BY <1>2, <2>2 DEF LoadR, Orderly, PusherKnows
    <3>2. Waiting = <<>>
      <4>1. Used = 0 /\ pushed \in Nat
        BY <3>1, UsedIs, UsedFacts
      <4>2. Waiting = Run(Used, pushed)
        BY WaitingIs, Zenon
      <4>3. Run(0, pushed) = <<>>
        BY <4>1, RunSeq
      <4>4. QED
        BY <4>1, <4>2, <4>3, Zenon
    <3>3. Full /\ ~Full'
      BY <1>2, <2>2 DEF LoadR, Full, Popping, Goto, AfterPop, Threads
    <3>4. Lossy!Drop
      BY <1>2, <2>1, <3>2, <3>3 DEF Lossy!Drop, Full, LoadR
    <3>5. QED
      BY <3>4 DEF Lossy!Next
  <2>3. CASE ~(t = "push" /\ reg[t].w = readIndex)
    <3>1. Full' = Full
      BY <1>2, <2>3 DEF LoadR, Full, Popping, Goto, AfterPop, Threads
    <3>2. QED
      BY <1>2, <2>1, <3>1 DEF LoadR
  <2>4. QED
    BY <2>2, <2>3
<1>3. CASE StoreR(t)
  <2>1. Used \in 1 .. Capacity /\ Used' = Used - 1 /\ reg[t].sample = First /\ pushed' = pushed
    BY <1>3, StoreRing DEF StoreR
  <2>2. Waiting = Run(Used, pushed) /\ Waiting' = Run(Used - 1, pushed)
        /\ Used \in Nat \ {0} /\ pushed \in Nat
    BY <2>1, WaitingIs, WaitingNext
  <2>3. Waiting # <<>> /\ Waiting' = Tail(Waiting) /\ Head(Waiting) = First
    BY <2>2, RunTail, RunSeq DEF First
  <2>4. CASE t = "push"
    <3>1. Full /\ ~Full' /\ got' = got
      BY <1>3, <2>4 DEF StoreR, Full, Popping, Goto, AfterPop, Threads
    <3>2. Lossy!Drop
      BY <1>3, <2>3, <3>1 DEF Lossy!Drop, Full, StoreR
    <3>3. QED
      BY <3>2 DEF Lossy!Next
  <2>5. CASE t = "pull"
    <3>1. Full' = Full /\ got' = First
      BY <1>3, <2>1, <2>5 DEF StoreR, Full, Popping, Goto, AfterPop, Threads
    <3>2. Lossy!Take
      BY <1>3, <2>3, <3>1 DEF Lossy!Take, Full, StoreR
    <3>3. QED
      BY <3>2 DEF Lossy!Next
  <2>6. QED
    BY <2>4, <2>5 DEF Threads
<1>4. QED
  BY <1>1, <1>2, <1>3 DEF Pop

LEMMA QueueStep ==
  ASSUME RingInv, RingInv', [Next]_vars
  PROVE  Lossy!Next \/ UNCHANGED <<pushed, Waiting, Full, got, overlapped>>
<1>1. SUFFICES ASSUME ~overlapped'
               PROVE  Lossy!Next \/ UNCHANGED <<pushed, Waiting, Full, got, overlapped>>
  BY DEF Lossy!Next
<1>2. CASE \E t \in Threads : Pop(t)
  <2>1. PICK t \in Threads : Pop(t)
    BY <1>2
  <2>2. ~overlapped
    BY <1>1, <2>1, PopStarts
  <2>3. QED
    BY <1>1, <2>1, <2>2, PopImplements
<1>3. CASE Push
  BY <1>1, <1>3, PushImplements DEF Push, PushBegin, PushCheck, PushPublish
<1>4. CASE PullBegin
  <2>1. UNCHANGED <<writeIndex, readIndex, pushed, got, overlapped>>
    BY <1>4 DEF PullBegin
  <2>2. Waiting' = Waiting
    BY <1>1, <2>1, SameQueue
  <2>3. Full' = Full
    BY <1>4 DEF PullBegin, Full, Popping, Goto, Threads, RingInv, Typed, TypeOK
  <2>4. QED
    BY <2>1, <2>2, <2>3
<1>5. CASE UNCHANGED vars
  BY <1>5 DEF vars, Waiting, Used, Full, Popping
<1>6. QED
  BY <1>2, <1>3, <1>4, <1>5 DEF Next

(* The ring implements the lossy queue (consumer_queue.h:15-16): in order,  *)
(* nothing twice, only the oldest sample dropped and only after a push      *)
(* found the ring full; until pops overlap.                                *)
THEOREM ImplementsLossyQueue == Spec => LossySpec
<1>1. RingInv /\ RingInv' /\ [Next]_vars =>
        [Lossy!Next]_<<pushed, Waiting, pc["push"] = "loadW" \/ Popping("push"), got, overlapped>>
  BY QueueStep DEF Full
<1>2. QED
  BY <1>1, QueueInit, Invariance, PTL DEF Spec, LossySpec, Lossy!Spec

-----------------------------------------------------------------------------
(* The freelist.                                                           *)
USE SampleFactoryAssumption

(* A thread that is putting a node back; a node put back but not yet in    *)
(* the list; a release t that has still to link the node q behind p.       *)
Active(t) == link[t].pc # "idle"
Loose(m)  == \E t \in Users : link[t].pc = "exchange" /\ link[t].node = m
Gap(t, p, q) == link[t] = [pc |-> "next", node |-> q, prev |-> p]

(* The n nodes of the list l, from the oldest on, are linked, up to the    *)
(* gaps that releases in progress are about to close.                      *)
Chained(n, l) ==
  /\ \A i, j \in 1 .. n : l[i] = l[j] => i = j
  /\ l[1] = tail /\ l[n] = head /\ next[head] = Null
  /\ \A i \in 1 .. n - 1 :
       next[l[i]] = l[i + 1] \/ (next[l[i]] = Null /\ \E t \in Users : Gap(t, l[i], l[i + 1]))
  /\ \A t \in Users : link[t].pc = "next" =>
       \E i \in 1 .. n - 1 : Gap(t, l[i], l[i + 1]) /\ next[l[i]] = Null

(* Every sample constructed is in one place.                               *)
Placed(n, l) ==
  /\ \A i \in 1 .. n : l[i] \notin inUse /\ l[i] <= made
  /\ \A t \in Users : link[t].pc = "exchange" =>
       /\ link[t].node \notin inUse /\ next[link[t].node] = Null
       /\ link[t].node <= made
       /\ \A i \in 1 .. n : l[i] # link[t].node
  /\ \A s \in 1 .. made : s \in inUse \/ Loose(s) \/ \E i \in 1 .. n : l[i] = s

(* Two releases never hold the same node, and only the pusher puts the     *)
(* sentinel back.                                                          *)
LinkInv ==
  /\ \A t \in Users : ~Active(t) => link[t] = NotLinking
  /\ \A t \in Users : Active(t) => link[t].node \in Nodes
  /\ \A t, u \in Users : Active(t) /\ link[t].node = link[u].node => t = u
  /\ \A t \in Users : Active(t) /\ link[t].node = Sentinel => t = "pusher"
  /\ inUse \subseteq 1 .. made

(* What the local variables of pop_freelist say of the list at each of its *)
(* steps.                                                                  *)
PopInv ==
  /\ pop.pc \in {"skip", "test", "head", "again"} => pop.tail = tail
  /\ pop.pc = "skip" => tail = Sentinel
  /\ pop.pc \in {"test", "head", "again"} => tail # Sentinel
  /\ pop.pc \in {"skip", "test"} => pop.next \in {Null, next[tail]}
  /\ pop.pc \in {"skip", "test", "head", "new"} => ~Active("pusher")
  /\ pop.pc = "again" /\ link["pusher"].pc # "exchange" => tail # head

(* As long as no other release overlaps the call, what it has read is      *)
(* current and the list has no gap but its own.                            *)
Alone == ~overlap /\ pop.pc # "idle" =>
  /\ \A t \in Releasers : link[t].pc # "next"
  /\ pop.pc \in {"skip", "test"} => pop.next = next[tail]
  /\ pop.pc = "head" => next[tail] = Null

(* There is such a list.                                                   *)
ListInv == \E n \in Nat \ {0} : \E l \in [1 .. n -> Nodes] : Chained(n, l) /\ Placed(n, l)

(* The destructor deletes nothing.                                         *)
DelInv == deleted.samples = {}

Rest == LinkInv /\ PopInv /\ Alone /\ ListInv /\ DelInv
FInv == FactoryTypeOK /\ Rest

(* Every step keeps the types.                                             *)
LEMMA TypeStep ==
  ASSUME FactoryTypeOK, PopInv, [FactoryNext]_factoryVars
  PROVE  FactoryTypeOK'
<1> USE DEF FactoryTypeOK, Nodes, Pooled, Null, Sentinel
<1>1. ASSUME NEW t \in Users, NEW s \in Pooled, Release(t, s)
      PROVE  FactoryTypeOK'
  BY <1>1 DEF Release, StartLink
<1>2. ASSUME NEW t \in Users, Exchange(t)
      PROVE  FactoryTypeOK'
  BY <1>2 DEF Exchange
<1>3. ASSUME NEW t \in Users, SetNext(t)
      PROVE  FactoryTypeOK'
  <2>1. link[t].pc = "next" /\ link[t].node \in Nodes \cup {Null}
    BY <1>3 DEF SetNext
  <2>2. next' \in [Nodes -> Nodes \cup {Null}]
    BY <1>3, <2>1 DEF SetNext
  <2>3. link' \in [Users -> [pc : {"idle", "exchange", "next"}, node : Nodes \cup {Null},
                             prev : Nodes \cup {Null}]]
    BY <1>3 DEF SetNext, NotLinking
  <2>4. QED
    BY <1>3, <2>2, <2>3 DEF SetNext
<1>4. CASE PopBegin
  BY <1>4 DEF PopBegin
<1>5. CASE PopSkip
  BY <1>5 DEF PopSkip
<1>6. CASE PopTest
  BY <1>6 DEF PopInv, PopTest, HandOut, NotPopping
<1>7. CASE PopHead
  BY <1>7 DEF PopHead, StartLink
<1>8. CASE PopAgain
  BY <1>8 DEF PopInv, PopAgain, NotPopping
<1>9. CASE Construct
  BY <1>9 DEF Construct, NotPopping
<1>10. CASE Destructor
  <2>1. deleted' = [done |-> TRUE,
                    samples |-> {n \in Reach(head) : next[n] # Null} \ {Sentinel}]
    BY <1>10 DEF Destructor
  <2>2. Reach(head) \subseteq Nodes
    BY DEF Reach
  <2> HIDE DEF Nodes
  <2>3. {n \in Reach(head) : next[n] # Null} \ {Sentinel} \subseteq Pooled
    BY <2>2 DEF Nodes
  <2>4. deleted' \in [done : BOOLEAN, samples : SUBSET Pooled]
    BY <2>1, <2>3
  <2>5. QED
    BY <1>10, <2>4 DEF Destructor
<1>11. CASE UNCHANGED factoryVars
  BY <1>11 DEF factoryVars
<1>12. QED
  BY <1>1, <1>2, <1>3, <1>4, <1>5, <1>6, <1>7, <1>8, <1>9, <1>10, <1>11 DEF FactoryNext, NewSample

(* A node that is nowhere else can be put back.                            *)
LEMMA StartLinkStep ==
  ASSUME FInv, NEW t \in Users, NEW s \in Nodes, StartLink(t, s),
         NEW n \in Nat \ {0}, NEW l \in [1 .. n -> Nodes], Chained(n, l), Placed(n, l),
         \A i \in 1 .. n : l[i] # s,
         \A u \in Users : Active(u) => link[u].node # s,
         UNCHANGED <<head, tail, made>>, inUse' = inUse \ {s}, s <= made,
         s = Sentinel => t = "pusher"
  PROVE  /\ LinkInv' /\ Chained(n, l)' /\ Placed(n, l)'
         /\ \A u \in Users : link'[u] = IF u = t THEN [pc |-> "exchange", node |-> s, prev |-> Null]
                                         ELSE link[u]
         /\ next'[tail] = next[tail]
<1> DEFINE node == [pc |-> "exchange", node |-> s, prev |-> Null]
<1>2. tail = l[1] /\ head = l[n] /\ tail # s /\ head # s
  <2>1. tail = l[1] /\ head = l[n] /\ 1 \in 1 .. n /\ n \in 1 .. n
    BY DEF Chained
  <2>2. QED
    BY <2>1
<1>3. link[t].pc = "idle"
  BY DEF StartLink
<1>4. /\ \A u \in Users : link'[u] = IF u = t THEN node ELSE link[u]
      /\ \A m \in Nodes : next'[m] = IF m = s THEN Null ELSE next[m]
  BY DEF StartLink, FInv, FactoryTypeOK
<1> HIDE DEF node
<1>5. node.pc = "exchange" /\ node.node = s
  BY DEF node
<1>7. LinkInv'
  <2>1. s \in Nodes /\ s # Null
    BY DEF Nodes, Pooled, Null, Sentinel
  <2>2. LinkInv
    BY DEF FInv, Rest
  <2>3. \A u \in Users : ~Active(u) => link[u].node = Null
    BY <2>2 DEF LinkInv, NotLinking
  <2>4. ASSUME NEW u \in Users, NEW v \in Users, Active(u)', (link[u].node = link[v].node)'
        PROVE  u = v
    BY <1>4, <1>5, <2>1, <2>2, <2>3, <2>4 DEF LinkInv, Active
  <2>5. QED
    BY <1>3, <1>4, <1>5, <2>1, <2>2, <2>4 DEF LinkInv, Active
<1>10. Chained(n, l)'
  <2>1. \A i \in 1 .. n : l[i] \in Nodes /\ next'[l[i]] = next[l[i]]
    BY <1>4, <1>2
  <2>2. \A u \in Users, p, q \in Nodes : Gap(u, p, q) => Gap(u, p, q)'
    BY <1>3, <1>4 DEF Gap
  <2>3. \A u \in Users : link'[u].pc = "next" => link[u].pc = "next"
    BY <1>4, <1>5
  <2>4. QED
    BY <1>2, <1>3, <2>1, <2>2, <2>3 DEF Chained
<1>11. Placed(n, l)'
  <2>1. \A m \in Nodes : Loose(m) => Loose(m)'
    BY <1>3, <1>4 DEF Loose
  <2>2. Loose(s)'
    BY <1>4, <1>5 DEF Loose
  <2>4. \A i \in 1 .. n : l[i] \notin inUse' /\ l[i] <= made'
    BY DEF Placed
  <2>5. ASSUME NEW u \in Users, link'[u].pc = "exchange"
        PROVE  /\ link'[u].node \notin inUse' /\ next'[link'[u].node] = Null
               /\ link'[u].node <= made'
               /\ \A i \in 1 .. n : l[i] # link'[u].node
    <3>1. CASE u = t
      BY <1>3, <1>4, <1>5, <1>2, <3>1 DEF Nodes
    <3>2. CASE u # t
      <4>1. link'[u] = link[u] /\ link[u].node \in Nodes
        BY <1>4, <2>5, <3>2 DEF FInv, Rest, LinkInv, Active
      <4>2. link[u].node \notin inUse /\ next[link[u].node] = Null /\ link[u].node <= made
            /\ \A i \in 1 .. n : l[i] # link[u].node
        BY <2>5, <4>1 DEF Placed
      <4>3. QED
        BY <1>3, <1>4, <4>1, <4>2
    <3>3. QED
      BY <3>1, <3>2
  <2>6. \A m \in 1 .. made' : m \in inUse' \/ Loose(m)' \/ \E i \in 1 .. n : l[i] = m
    <3>1. \A m \in 1 .. made : m \in inUse \/ Loose(m) \/ \E i \in 1 .. n : l[i] = m
      BY DEF Placed
    <3>2. \A m \in 1 .. made : m \in Nodes
      BY DEF FInv, FactoryTypeOK, Nodes, Pooled
    <3>3. QED
      BY <1>3, <2>1, <2>2, <3>1, <3>2
  <2>7. QED
    BY <2>4, <2>5, <2>6 DEF Placed
<1>12. next'[tail] = next[tail] /\ tail \in Nodes
  BY <1>2, <1>4 DEF FInv, FactoryTypeOK
<1>13. QED
  BY <1>4, <1>7, <1>10, <1>11, <1>12 DEF node

(* The last reference is dropped: the sample leaves inUse for the release. *)
LEMMA ReleaseStep ==
  ASSUME FInv, NEW t \in Users, NEW s \in Pooled, Release(t, s)
  PROVE  Rest'
<1>1. PICK n \in Nat \ {0} : \E l \in [1 .. n -> Nodes] : Chained(n, l) /\ Placed(n, l)
  BY DEF FInv, Rest, ListInv
<1>2. PICK l \in [1 .. n -> Nodes] : Chained(n, l) /\ Placed(n, l)
  BY <1>1
<1>3. /\ s \in inUse /\ s \in Nodes /\ s <= made
      /\ t = "pusher" => pop.pc = "idle"
      /\ UNCHANGED <<head, tail, made, pop, deleted, overlap>>
      /\ inUse' = inUse \ {s}
      /\ StartLink(t, s)
  BY DEF Release, Nodes, FInv, Rest, LinkInv, FactoryTypeOK, Pooled
<1>4. \A i \in 1 .. n : l[i] # s
  BY <1>2, <1>3 DEF Placed
<1>5. ASSUME NEW u \in Users, Active(u)
      PROVE  link[u].node # s
  <2>1. CASE link[u].pc = "exchange"
    BY <1>2, <1>3, <2>1 DEF Placed
  <2>2. CASE link[u].pc = "next"
    <3>1. PICK i \in 1 .. n - 1 : Gap(u, l[i], l[i + 1])
      BY <1>2, <2>2 DEF Chained
    <3>2. link[u].node = l[i + 1] /\ i + 1 \in 1 .. n
      BY <3>1 DEF Gap
    <3>3. QED
      BY <1>4, <3>2
  <2>3. QED
    BY <1>5, <2>1, <2>2 DEF FInv, FactoryTypeOK, Active
<1>6. /\ LinkInv' /\ Chained(n, l)' /\ Placed(n, l)'
      /\ \A u \in Users : link'[u] = IF u = t THEN [pc |-> "exchange", node |-> s, prev |-> Null]
                                      ELSE link[u]
      /\ next'[tail] = next[tail]
  BY <1>2, <1>3, <1>4, <1>5, StartLinkStep DEF Pooled, Sentinel
<1>7. PopInv'
  BY <1>3, <1>6 DEF FInv, Rest, PopInv, Active, FactoryTypeOK, Users
<1>8. Alone'
  BY <1>3, <1>6 DEF FInv, Rest, Alone, FactoryTypeOK, Users
<1>9. QED
  BY <1>3, <1>6, <1>7, <1>8 DEF Rest, ListInv, FInv, DelInv

(* The oldest node can be taken off once its successor is known.           *)
LEMMA DropTail ==
  ASSUME FInv, NEW n \in Nat \ {0}, NEW l \in [1 .. n -> Nodes], Chained(n, l), Placed(n, l),
         next[tail] # Null, tail' = next[tail], UNCHANGED <<next, head, made, link>>,
         \/ tail = Sentinel /\ inUse' = inUse
         \/ inUse' = inUse \cup {tail}
  PROVE  /\ ListInv' /\ tail' \in Nodes /\ tail' # tail
         /\ tail \notin inUse /\ tail <= made
         /\ \A t \in Users : link[t].node # tail
<1>1. /\ tail = l[1] /\ head = l[n] /\ n >= 2 /\ 1 \in 1 .. n /\ 2 \in 1 .. n
      /\ tail' = l[2]
  <2>1. tail = l[1] /\ head = l[n] /\ next[head] = Null
    BY DEF Chained
  <2>2. n >= 2
    BY <2>1
  <2>3. 1 \in 1 .. n - 1 /\ 1 + 1 = 2
    BY <2>2
  <2>4. next[l[1]] = l[2]
    BY <2>1, <2>3 DEF Chained
  <2>5. QED
    BY <2>1, <2>2, <2>4
<1>2. PICK k \in Nat \ {0} : k = n - 1
  BY <1>1
<1>3. PICK r \in [1 .. k -> Nodes] : \A i \in 1 .. k : r[i] = l[i + 1]
  <2>1. [i \in 1 .. k |-> l[i + 1]] \in [1 .. k -> Nodes]
    BY <1>2
  <2>2. QED
    BY <2>1
<1>4. \A i \in 2 .. n : l[i] # tail
  BY <1>1 DEF Chained
<1>5. \A i \in 1 .. k : i + 1 \in 2 .. n /\ i + 1 \in 1 .. n /\ r[i] # tail
  BY <1>2, <1>3, <1>4
<1>6. Chained(k, r)'
  <2>1. \A i, j \in 1 .. k : r[i] = r[j] => i = j
    <3>1. SUFFICES ASSUME NEW i \in 1 .. k, NEW j \in 1 .. k, r[i] = r[j]
                   PROVE  i = j
      OBVIOUS
    <3>2. l[i + 1] = l[j + 1] /\ i + 1 \in 1 .. n /\ j + 1 \in 1 .. n
      BY <1>3, <1>5, <3>1
    <3>3. i + 1 = j + 1
      BY <3>2 DEF Chained
    <3>4. QED
      BY <3>3
  <2>2. r[1] = tail' /\ r[k] = head'
    BY <1>1, <1>2, <1>3
  <2>3. ASSUME NEW i \in 1 .. k - 1
        PROVE  \/ next[r[i]] = r[i + 1]
               \/ next[r[i]] = Null /\ \E t \in Users : Gap(t, r[i], r[i + 1])
    <3>1. i + 1 \in 1 .. n - 1 /\ r[i] = l[i + 1] /\ r[i + 1] = l[(i + 1) + 1]
      BY <1>2, <1>3
    <3>2. QED
      BY <3>1 DEF Chained
  <2>4. ASSUME NEW t \in Users, link[t].pc = "next"
        PROVE  \E i \in 1 .. k - 1 : Gap(t, r[i], r[i + 1]) /\ next[r[i]] = Null
    <3>1. PICK i \in 1 .. n - 1 : Gap(t, l[i], l[i + 1]) /\ next[l[i]] = Null
      BY <2>4 DEF Chained
    <3>2. i # 1
      BY <1>1, <3>1
    <3>3. PICK j \in 1 .. k - 1 : i = j + 1
      <4>1. i - 1 \in 1 .. k - 1 /\ i = (i - 1) + 1
        BY <1>2, <3>2
      <4>2. QED
        BY <4>1
    <3>4. r[j] = l[i] /\ r[j + 1] = l[i + 1]
      BY <1>2, <1>3, <3>3
    <3>5. QED
      BY <3>1, <3>4
  <2>5. next[head] = Null
    BY DEF Chained
  <2>6. QED
    BY <2>1, <2>2, <2>3, <2>4, <2>5 DEF Chained, Gap
<1>7. Placed(k, r)'
  <2>1. ASSUME NEW i \in 1 .. k
        PROVE  r[i] \notin inUse' /\ r[i] <= made'
    BY <1>3, <1>5 DEF Placed
  <2>2. ASSUME NEW t \in Users, link[t].pc = "exchange"
        PROVE  /\ link[t].node \notin inUse' /\ next[link[t].node] = Null
               /\ link[t].node <= made
               /\ \A i \in 1 .. k : r[i] # link[t].node
    BY <1>1, <1>3, <1>5, <2>2 DEF Placed
  <2>3. ASSUME NEW s \in 1 .. made
        PROVE  s \in inUse' \/ Loose(s) \/ \E i \in 1 .. k : r[i] = s
    <3>1. CASE s \in inUse \/ Loose(s)
      BY <3>1
    <3>2. CASE \E i \in 1 .. n : l[i] = s
      <4>1. PICK i \in 1 .. n : l[i] = s
        BY <3>2
      <4>2. CASE i = 1
        BY <1>1, <4>1, <4>2 DEF Sentinel, FInv, FactoryTypeOK
      <4>3. CASE i # 1
        <5>1. i - 1 \in 1 .. k /\ (i - 1) + 1 = i
          BY <1>2, <4>3
        <5>2. QED
          BY <1>3, <4>1, <5>1
      <4>4. QED
        BY <4>2, <4>3
    <3>3. QED
      BY <3>1, <3>2 DEF Placed
  <2>4. \A s \in 1 .. made : Loose(s)' <=> Loose(s)
    BY DEF Loose
  <2>5. QED
    BY <2>1, <2>2, <2>3, <2>4 DEF Placed
<1>8. ASSUME NEW t \in Users
      PROVE  link[t].node # tail
  <2>1. CASE link[t].pc = "exchange"
    BY <1>1, <2>1 DEF Placed
  <2>2. CASE link[t].pc = "next"
    <3>1. PICK i \in 1 .. n - 1 : Gap(t, l[i], l[i + 1])
      BY <2>2 DEF Chained
    <3>2. link[t].node = l[i + 1] /\ i + 1 \in 2 .. n
      BY <3>1 DEF Gap
    <3>3. QED
      BY <1>4, <3>2
  <2>3. CASE ~Active(t)
    BY <2>3 DEF FInv, Rest, LinkInv, NotLinking, FactoryTypeOK, Nodes, Sentinel, Pooled, Null
  <2>4. QED
    BY <2>1, <2>2, <2>3 DEF Active, FInv, FactoryTypeOK
<1>9. tail \notin inUse /\ tail <= made
  BY <1>1 DEF Placed
<1>10. QED
  BY <1>1, <1>4, <1>6, <1>7, <1>8, <1>9 DEF ListInv

(* An exchange of head_ adds the node, with a gap before it.              *)
LEMMA ExchangeStep ==
  ASSUME FInv, NEW t \in Users, Exchange(t)
  PROVE  Rest'
<1>1. PICK n \in Nat \ {0} : \E l \in [1 .. n -> Nodes] : Chained(n, l) /\ Placed(n, l)
  BY DEF FInv, Rest, ListInv
<1>2. PICK l \in [1 .. n -> Nodes] : Chained(n, l) /\ Placed(n, l)
  BY <1>1
<1>3. PICK s \in Nodes : s = link[t].node
  BY DEF Exchange, FInv, Rest, LinkInv, Active
<1> DEFINE gap == [pc |-> "next", node |-> s, prev |-> head]
<1>4. /\ link[t].pc = "exchange"
      /\ UNCHANGED <<next, tail, made, inUse, pop, deleted>>
      /\ head' = s
      /\ overlap' = (overlap \/ t # "pusher")
  BY <1>3 DEF Exchange
<1>5. \A u \in Users : link'[u] = IF u = t THEN gap ELSE link[u]
  BY <1>3, <1>4 DEF Exchange, FInv, FactoryTypeOK
<1> HIDE DEF gap
<1>6. gap.pc = "next" /\ gap.node = s /\ gap.prev = head
  BY DEF gap
<1>7. /\ s \notin inUse /\ next[s] = Null /\ s <= made
      /\ \A i \in 1 .. n : l[i] # s
  BY <1>2, <1>3, <1>4 DEF Placed
<1>8. tail = l[1] /\ head = l[n] /\ next[head] = Null /\ 1 \in 1 .. n /\ n \in 1 .. n
  BY <1>2 DEF Chained
<1>9. PICK k \in Nat \ {0} : k = n + 1
  BY <1>1
<1>10. PICK r \in [1 .. k -> Nodes] : \A i \in 1 .. k : r[i] = IF i = k THEN s ELSE l[i]
  <2>1. [i \in 1 .. k |-> IF i = k THEN s ELSE l[i]] \in [1 .. k -> Nodes]
    BY <1>9
  <2>2. QED
    BY <2>1
<1>11. r[k] = s /\ \A i \in 1 .. n : i # k /\ i \in 1 .. k /\ r[i] = l[i]
  BY <1>9, <1>10
<1>12. LinkInv'
  <2>1. LinkInv
    BY DEF FInv, Rest
  <2>2. QED
    BY <1>3, <1>4, <1>5, <1>6, <2>1 DEF LinkInv, Active
<1>13. PopInv'
  <2>1. tail # s
    BY <1>7, <1>8
  <2>2. QED
    BY <1>4, <1>5, <1>6, <2>1 DEF FInv, Rest, PopInv, Active, FactoryTypeOK, Users
<1>14. Alone'
  <2>1. \A u \in Releasers : u # "pusher" /\ u \in Users
    BY DEF Users
  <2>2. ASSUME ~overlap', pop.pc # "idle"
        PROVE  /\ \A u \in Releasers : link'[u].pc # "next"
               /\ pop.pc \in {"skip", "test"} => pop.next = next[tail]
               /\ pop.pc = "head" => next[tail] = Null
    <3>1. ~overlap /\ t = "pusher"
      BY <1>4, <2>2
    <3>2. QED
      BY <1>5, <2>1, <2>2, <3>1 DEF FInv, Rest, Alone
  <2>3. QED
    BY <1>4, <2>2 DEF Alone
<1>15. Chained(k, r)'
  <2>1. \A i, j \in 1 .. k : r[i] = r[j] => i = j
    <3>1. \A i, j \in 1 .. n : l[i] = l[j] => i = j
      BY <1>2 DEF Chained
    <3>2. \A i \in 1 .. k : i # k => i \in 1 .. n
      BY <1>9
    <3>3. QED
      BY <1>7, <1>10, <3>1, <3>2
  <2>2. r[1] = tail /\ r[k] = s
    BY <1>8, <1>11
  <2>3. ASSUME NEW i \in 1 .. k - 1
        PROVE  \/ next[r[i]] = r[i + 1]
               \/ next[r[i]] = Null /\ \E u \in Users : Gap(u, r[i], r[i + 1])'
    <3>1. CASE i = n
      <4>1. r[i] = head /\ r[i + 1] = s
        BY <1>8, <1>9, <1>11, <3>1
      <4>2. Gap(t, r[i], r[i + 1])'
        BY <1>5, <4>1 DEF Gap, gap
      <4>3. QED
        BY <1>8, <4>1, <4>2
    <3>2. CASE i # n
      <4>1. i \in 1 .. n - 1 /\ r[i] = l[i] /\ r[i + 1] = l[i + 1]
        BY <1>9, <1>11, <3>2
      <4>2. CASE next[l[i]] = l[i + 1]
        BY <4>1, <4>2
      <4>3. CASE next[l[i]] = Null /\ \E u \in Users : Gap(u, l[i], l[i + 1])
        <5>1. PICK u \in Users : Gap(u, l[i], l[i + 1])
          BY <4>3
        <5>2. u # t
          BY <1>4, <5>1 DEF Gap
        <5>3. Gap(u, r[i], r[i + 1])'
          BY <1>5, <4>1, <5>1, <5>2 DEF Gap
        <5>4. QED
          BY <4>1, <4>3, <5>3
      <4>4. QED
        BY <1>2, <4>1, <4>2, <4>3 DEF Chained
    <3>3. QED
      BY <3>1, <3>2
  <2>4. ASSUME NEW u \in Users, link'[u].pc = "next"
        PROVE  \E i \in 1 .. k - 1 : Gap(u, r[i], r[i + 1])' /\ next[r[i]] = Null
    <3>1. CASE u = t
      <4>1. n \in 1 .. k - 1 /\ r[n] = head /\ r[n + 1] = s
        BY <1>8, <1>9, <1>11
      <4>2. Gap(t, r[n], r[n + 1])'
        BY <1>5, <4>1 DEF Gap, gap
      <4>3. QED
        BY <1>8, <3>1, <4>1, <4>2
    <3>2. CASE u # t
      <4>1. link'[u] = link[u]
        BY <1>5, <3>2
      <4>2. PICK i \in 1 .. n - 1 : Gap(u, l[i], l[i + 1]) /\ next[l[i]] = Null
        BY <1>2, <2>4, <4>1 DEF Chained
      <4>3. i \in 1 .. k - 1 /\ r[i] = l[i] /\ r[i + 1] = l[i + 1]
        BY <1>9, <1>11
      <4>4. Gap(u, r[i], r[i + 1])'
        BY <4>1, <4>2, <4>3 DEF Gap
      <4>5. QED
        BY <4>2, <4>3, <4>4
    <3>3. QED
      BY <3>1, <3>2
  <2>5. QED
    BY <1>4, <1>7, <2>1, <2>2, <2>3, <2>4 DEF Chained
<1>16. Placed(k, r)'
  <2>1. ASSUME NEW i \in 1 .. k
        PROVE  r[i] \notin inUse /\ r[i] <= made
    <3>1. i = k \/ i \in 1 .. n
      BY <1>9
    <3>2. QED
      BY <1>2, <1>7, <1>11, <3>1 DEF Placed
  <2>2. ASSUME NEW u \in Users, link'[u].pc = "exchange"
        PROVE  /\ link'[u].node \notin inUse /\ next[link'[u].node] = Null
               /\ link'[u].node <= made
               /\ \A i \in 1 .. k : r[i] # link'[u].node
    <3>1. u # t /\ link'[u] = link[u] /\ Active(u)
      BY <1>5, <1>6, <2>2 DEF Active
    <3>2. link[u].node # s
      BY <1>3, <3>1 DEF FInv, Rest, LinkInv
    <3>3. \A i \in 1 .. k : i = k \/ i \in 1 .. n
      BY <1>9
    <3>4. QED
      BY <1>2, <1>11, <2>2, <3>1, <3>2, <3>3 DEF Placed
  <2>3. ASSUME NEW m \in 1 .. made
        PROVE  m \in inUse \/ Loose(m)' \/ \E i \in 1 .. k : r[i] = m
    <3>1. CASE m = s
      <4>1. k \in 1 .. k
        BY <1>9
      <4>2. QED
        BY <1>11, <3>1, <4>1
    <3>2. CASE m # s /\ Loose(m)
      <4>1. PICK u \in Users : link[u].pc = "exchange" /\ link[u].node = m
        BY <3>2 DEF Loose
      <4>2. u # t
        BY <1>3, <3>2, <4>1
      <4>3. QED
        BY <1>5, <4>1, <4>2 DEF Loose
    <3>3. QED
      BY <1>2, <1>11, <3>1, <3>2 DEF Placed
  <2>4. QED
    BY <1>4, <2>1, <2>2, <2>3 DEF Placed
<1>17. QED
  BY <1>4, <1>12, <1>13, <1>14, <1>15, <1>16 DEF Rest, ListInv, FInv, DelInv

(* The write of next_ closes the gap.                                      *)
LEMMA SetNextStep ==
  ASSUME FInv, NEW t \in Users, SetNext(t)
  PROVE  Rest'
<1>1. PICK n \in Nat \ {0} : \E l \in [1 .. n -> Nodes] : Chained(n, l) /\ Placed(n, l)
  BY DEF FInv, Rest, ListInv
<1>2. PICK l \in [1 .. n -> Nodes] : Chained(n, l) /\ Placed(n, l)
  BY <1>1
<1>3. /\ link[t].pc = "next"
      /\ UNCHANGED <<head, tail, made, inUse, pop, deleted, overlap>>
  BY DEF SetNext
<1>4. PICK i \in 1 .. n - 1 : Gap(t, l[i], l[i + 1]) /\ next[l[i]] = Null
  BY <1>2, <1>3 DEF Chained
<1>5. /\ i \in 1 .. n /\ i + 1 \in 1 .. n /\ i # n /\ n \in 1 .. n /\ 1 \in 1 .. n
      /\ l[i] \in Nodes /\ l[i + 1] \in Nodes
  BY <1>1
<1>6. \A m \in Nodes : next'[m] = IF m = l[i] THEN l[i + 1] ELSE next[m]
  BY <1>4, <1>5 DEF SetNext, Gap, FInv, FactoryTypeOK
<1>7. \A u \in Users : link'[u] = IF u = t THEN NotLinking ELSE link[u]
  BY DEF SetNext, FInv, FactoryTypeOK
<1>8. \A j \in 1 .. n : l[j] \in Nodes /\ (l[j] = l[i] => j = i)
  BY <1>2, <1>5 DEF Chained
<1>9. tail = l[1] /\ head = l[n] /\ next[head] = Null
  BY <1>2 DEF Chained
<1>10. next'[head] = Null
  BY <1>5, <1>6, <1>8, <1>9
<1>11. LinkInv'
  <2>1. LinkInv
    BY DEF FInv, Rest
  <2>2. NotLinking.node \notin Nodes
    BY DEF NotLinking, Nodes, Pooled, Sentinel, Null
  <2>3. NotLinking.pc = "idle"
    BY DEF NotLinking
  <2>4. QED
    BY <1>3, <1>7, <2>1, <2>2, <2>3 DEF LinkInv, Active
<1>12. PopInv'
  <2>1. \A u \in Users : link'[u].pc = "exchange" => link[u].pc = "exchange"
    BY <1>7 DEF NotLinking
  <2>2. \A u \in Users : Active(u)' => Active(u)
    BY <1>7 DEF NotLinking, Active
  <2>3. next[tail] = Null \/ next'[tail] = next[tail]
    BY <1>4, <1>5, <1>6, <1>9
  <2>4. "pusher" \in Users
    BY DEF Users
  <2>5. CASE t = "pusher"
    BY <1>3, <2>1, <2>2, <2>3, <2>4, <2>5 DEF FInv, Rest, PopInv, Active
  <2>6. CASE t # "pusher"
    <3>1. link'["pusher"] = link["pusher"]
      BY <1>7, <2>4, <2>6
    <3>2. QED
      BY <1>3, <2>3, <3>1 DEF FInv, Rest, PopInv, Active
  <2>7. QED
    BY <2>5, <2>6
<1>13. Alone'
  <2>1. \A u \in Releasers : u \in Users
    BY DEF Users
  <2>2. ASSUME ~overlap, pop.pc # "idle"
        PROVE  pop.pc \notin {"skip", "test", "head"}
    <3>1. t \notin Releasers
      BY <1>3, <2>2 DEF FInv, Rest, Alone
    <3>2. t = "pusher"
      BY <3>1 DEF Users
    <3>3. QED
      BY <1>3, <3>2 DEF FInv, Rest, PopInv, Active
  <2>3. \A u \in Users : link'[u].pc = "next" => link[u].pc = "next"
    BY <1>7 DEF NotLinking
  <2>4. QED
    BY <1>3, <2>1, <2>2, <2>3 DEF FInv, Rest, Alone
<1>14. Chained(n, l)'
  <2>1. ASSUME NEW j \in 1 .. n - 1
        PROVE  \/ next'[l[j]] = l[j + 1]
               \/ next'[l[j]] = Null /\ \E u \in Users : Gap(u, l[j], l[j + 1])'
    <3>1. j \in 1 .. n
      OBVIOUS
    <3>2. CASE j = i
      BY <1>5, <1>6, <3>2
    <3>3. CASE j # i
      <4>1. next'[l[j]] = next[l[j]]
        BY <1>6, <1>8, <3>1, <3>3
      <4>2. ASSUME NEW u \in Users, Gap(u, l[j], l[j + 1])
            PROVE  Gap(u, l[j], l[j + 1])'
        <5>1. u # t
          BY <1>4, <1>8, <3>1, <3>3, <4>2 DEF Gap
        <5>2. QED
          BY <1>7, <4>2, <5>1 DEF Gap
      <4>3. QED
        BY <1>2, <4>1, <4>2 DEF Chained
    <3>4. QED
      BY <3>2, <3>3
  <2>2. ASSUME NEW u \in Users, link'[u].pc = "next"
        PROVE  \E j \in 1 .. n - 1 : Gap(u, l[j], l[j + 1])' /\ next'[l[j]] = Null
    <3>1. u # t /\ link'[u] = link[u]
      BY <1>7, <2>2 DEF NotLinking
    <3>2. PICK j \in 1 .. n - 1 : Gap(u, l[j], l[j + 1]) /\ next[l[j]] = Null
      BY <1>2, <2>2, <3>1 DEF Chained
    <3>3. j # i
      BY <1>4, <3>1, <3>2, <2>2 DEF Gap, FInv, Rest, LinkInv, Active
    <3>4. j \in 1 .. n /\ next'[l[j]] = Null
      BY <1>6, <1>8, <3>2, <3>3
    <3>5. QED
      BY <3>1, <3>2, <3>4 DEF Gap
  <2>3. QED
    BY <1>2, <1>3, <1>10, <2>1, <2>2 DEF Chained
<1>15. Placed(n, l)'
  <2>1. ASSUME NEW u \in Users, link'[u].pc = "exchange"
        PROVE  /\ link'[u].node \notin inUse /\ next'[link'[u].node] = Null
               /\ link'[u].node <= made
               /\ \A j \in 1 .. n : l[j] # link'[u].node
    <3>1. link'[u] = link[u] /\ link[u].node \in Nodes
      BY <1>7, <2>1 DEF NotLinking, FInv, Rest, LinkInv, Active
    <3>2. QED
      BY <1>2, <1>5, <1>6, <2>1, <3>1 DEF Placed
  <2>2. \A m \in 1 .. made : Loose(m) => Loose(m)'
    BY <1>3, <1>7 DEF Loose
  <2>3. QED
    BY <1>2, <1>3, <2>1, <2>2 DEF Placed
<1>16. QED
  BY <1>3, <1>11, <1>12, <1>13, <1>14, <1>15 DEF Rest, ListInv, FInv, DelInv

(* The list and the releases in progress are left alone.                   *)
LEMMA ListUnchanged ==
  ASSUME FInv, UNCHANGED <<next, head, tail, made, inUse, link>>
  PROVE  LinkInv' /\ ListInv'
<1>1. PICK n \in Nat \ {0} : \E l \in [1 .. n -> Nodes] : Chained(n, l) /\ Placed(n, l)
  BY DEF FInv, Rest, ListInv
<1>2. PICK l \in [1 .. n -> Nodes] : Chained(n, l) /\ Placed(n, l)
  BY <1>1
<1>3. Chained(n, l)'
  BY <1>2 DEF Chained, Gap
<1>4. Placed(n, l)'
  BY <1>2 DEF Placed, Loose
<1>5. LinkInv'
  BY DEF FInv, Rest, LinkInv, Active
<1>6. QED
  BY <1>3, <1>4, <1>5 DEF ListInv

(* new_sample reads tail_ and its next_.                                   *)
LEMMA PopBeginStep ==
  ASSUME FInv, PopBegin
  PROVE  Rest'
<1>1. LinkInv' /\ ListInv'
  BY ListUnchanged DEF PopBegin
<1>2. PopInv'
  BY DEF PopBegin, PopInv, Active, FInv, FactoryTypeOK
<1>3. Alone'
  BY DEF PopBegin, Alone, FInv, FactoryTypeOK, Users
<1>4. QED
  BY <1>1, <1>2, <1>3 DEF PopBegin, Rest, FInv, DelInv

(* The same for a list that is only known to exist.                        *)
LEMMA TakenOff ==
  ASSUME FInv, next[tail] # Null, tail' = next[tail], UNCHANGED <<next, head, made, link>>,
         \/ tail = Sentinel /\ inUse' = inUse
         \/ inUse' = inUse \cup {tail} /\ tail # Sentinel
  PROVE  /\ LinkInv' /\ ListInv' /\ tail' \in Nodes /\ tail' # tail
         /\ tail \notin inUse
         /\ \A t \in Users : link[t].node # tail
<1>1. PICK n \in Nat \ {0} : \E l \in [1 .. n -> Nodes] : Chained(n, l) /\ Placed(n, l)
  BY DEF FInv, Rest, ListInv
<1>2. PICK l \in [1 .. n -> Nodes] : Chained(n, l) /\ Placed(n, l)
  BY <1>1
<1>3. /\ ListInv' /\ tail' \in Nodes /\ tail' # tail
      /\ tail \notin inUse /\ tail <= made
      /\ \A t \in Users : link[t].node # tail
  BY <1>2, DropTail
<1>4. LinkInv'
  <2>1. tail \in 1 .. made \/ tail = Sentinel
    BY <1>3 DEF FInv, FactoryTypeOK, Nodes, Pooled
  <2>2. LinkInv
    BY DEF FInv, Rest
  <2>3. inUse \subseteq 1 .. made
    BY <2>2 DEF LinkInv
  <2>4. CASE tail = Sentinel /\ inUse' = inUse
    BY <2>2, <2>4 DEF LinkInv, Active
  <2>5. CASE inUse' = inUse \cup {tail} /\ tail # Sentinel
    <3>1. inUse' \subseteq 1 .. made
      BY <2>1, <2>3, <2>5
    <3>2. QED
      BY <2>2, <3>1 DEF LinkInv, Active
  <2>6. QED
    BY <2>4, <2>5
<1>5. QED
  BY <1>3, <1>4

(* The sentinel is stepped over.                                           *)
LEMMA PopSkipStep ==
  ASSUME FInv, PopSkip
  PROVE  Rest'
<1>1. CASE pop.next = Null
  <2>1. pop' = [pop EXCEPT !.pc = "new"]
        /\ UNCHANGED <<next, head, tail, made, inUse, link, deleted, overlap>>
    BY <1>1 DEF PopSkip
  <2>2. LinkInv' /\ ListInv'
    BY <2>1, ListUnchanged
  <2>3. QED
    BY <2>1, <2>2 DEF PopSkip, PopInv, Alone, Active, Rest, FInv, FactoryTypeOK, DelInv
<1>2. CASE pop.next # Null
  <2>1. /\ tail' = pop.next /\ pop.pc = "skip"
        /\ pop' = [pc |-> "test", tail |-> pop.next, next |-> next[pop.next]]
        /\ UNCHANGED <<next, head, made, inUse, link, deleted, overlap>>
    BY <1>2 DEF PopSkip
  <2>2. tail = Sentinel /\ pop.next = next[tail]
    BY <1>2, <2>1 DEF FInv, Rest, PopInv
  <2>3. LinkInv' /\ ListInv' /\ tail' # tail
    BY <1>2, <2>1, <2>2, TakenOff
  <2>4. PopInv'
    BY <2>1, <2>2, <2>3 DEF PopInv, Active, FInv, Rest
  <2>5. Alone'
    BY <2>1 DEF Alone, FInv, Rest
  <2>6. QED
    BY <2>1, <2>3, <2>4, <2>5 DEF Rest, FInv, DelInv
<1>3. QED
  BY <1>1, <1>2

(* A sample with a successor is handed out.                                *)
LEMMA PopTestStep ==
  ASSUME FInv, PopTest
  PROVE  Rest'
<1>1. CASE pop.next = Null
  <2>1. pop' = [pop EXCEPT !.pc = "head"] /\ pop.pc = "test"
        /\ UNCHANGED <<next, head, tail, made, inUse, link, deleted, overlap>>
    BY <1>1 DEF PopTest
  <2>2. LinkInv' /\ ListInv'
    BY <2>1, ListUnchanged
  <2>3. pop'.pc = "head" /\ pop'.tail = pop.tail /\ pop'.next = pop.next
    BY <2>1 DEF FInv, FactoryTypeOK
  <2>4. PopInv' /\ Alone'
    BY <1>1, <2>1, <2>3 DEF PopInv, Alone, Active, Rest, FInv
  <2>5. QED
    BY <2>1, <2>2, <2>4 DEF Rest, FInv, DelInv
<1>2. CASE pop.next # Null
  <2>1. /\ tail' = pop.next /\ pop.pc = "test" /\ pop' = NotPopping
        /\ inUse' = inUse \cup {pop.tail}
        /\ UNCHANGED <<next, head, made, link, deleted, overlap>>
    BY <1>2 DEF PopTest, HandOut
  <2>2. pop.tail = tail /\ tail # Sentinel /\ pop.next = next[tail]
    BY <1>2, <2>1 DEF FInv, Rest, PopInv
  <2>3. LinkInv' /\ ListInv'
    BY <1>2, <2>1, <2>2, TakenOff
  <2>4. PopInv' /\ Alone'
    BY <2>1 DEF PopInv, Alone, NotPopping
  <2>5. QED
    BY <2>1, <2>3, <2>4 DEF Rest, FInv, DelInv
<1>3. QED
  BY <1>1, <1>2

(* A sample behind which the sentinel has been put is handed out.          *)
LEMMA PopAgainStep ==
  ASSUME FInv, PopAgain
  PROVE  Rest'
<1>1. CASE next[pop.tail] = Null
  <2>1. pop' = [pop EXCEPT !.pc = "new"] /\ pop.pc = "again" /\ link["pusher"].pc = "idle"
        /\ UNCHANGED <<next, head, tail, made, inUse, link, deleted, overlap>>
    BY <1>1 DEF PopAgain
  <2>2. LinkInv' /\ ListInv'
    BY <2>1, ListUnchanged
  <2>3. pop'.pc = "new"
    BY <2>1 DEF FInv, FactoryTypeOK
  <2>4. PopInv' /\ Alone'
    BY <2>1, <2>3 DEF PopInv, Alone, Active, Rest, FInv
  <2>5. QED
    BY <2>1, <2>2, <2>4 DEF Rest, FInv, DelInv
<1>2. CASE next[pop.tail] # Null
  <2>1. /\ tail' = next[pop.tail] /\ pop.pc = "again" /\ pop' = NotPopping
        /\ inUse' = inUse \cup {pop.tail}
        /\ UNCHANGED <<next, head, made, link, deleted, overlap>>
    BY <1>2 DEF PopAgain
  <2>2. pop.tail = tail /\ tail # Sentinel
    BY <2>1 DEF FInv, Rest, PopInv
  <2>3. LinkInv' /\ ListInv'
    BY <1>2, <2>1, <2>2, TakenOff
  <2>4. PopInv' /\ Alone'
    BY <2>1 DEF PopInv, Alone, NotPopping
  <2>5. QED
    BY <2>1, <2>3, <2>4 DEF Rest, FInv, DelInv
<1>3. QED
  BY <1>1, <1>2

(* tail_ is the only node: the sentinel, which is in no list, is put       *)
(* behind it.                                                              *)
LEMMA PopHeadStep ==
  ASSUME FInv, PopHead
  PROVE  Rest'
<1>1. pop.pc = "head" /\ pop.tail = tail /\ tail # Sentinel /\ ~Active("pusher")
  BY DEF PopHead, FInv, Rest, PopInv
<1>2. UNCHANGED <<head, tail, made, inUse, deleted, overlap>> /\ "pusher" \in Users
  BY DEF PopHead, Users
<1>3. CASE tail # head
  <2>1. pop' = [pop EXCEPT !.pc = "new"] /\ UNCHANGED <<next, link>>
    BY <1>1, <1>3 DEF PopHead
  <2>2. LinkInv' /\ ListInv'
    BY <1>2, <2>1, ListUnchanged
  <2>3. pop'.pc = "new"
    BY <2>1 DEF FInv, FactoryTypeOK
  <2>4. PopInv' /\ Alone'
    BY <1>1, <1>2, <2>1, <2>3 DEF PopInv, Alone, Active, Rest, FInv
  <2>5. QED
    BY <1>2, <2>2, <2>4 DEF Rest, FInv, DelInv
<1>4. CASE tail = head
  <2>1. StartLink("pusher", Sentinel) /\ pop' = [pop EXCEPT !.pc = "again"]
    BY <1>1, <1>4 DEF PopHead
  <2>2. PICK n \in Nat \ {0} : \E l \in [1 .. n -> Nodes] : Chained(n, l) /\ Placed(n, l)
    BY DEF FInv, Rest, ListInv
  <2>3. PICK l \in [1 .. n -> Nodes] : Chained(n, l) /\ Placed(n, l)
    BY <2>2
  <2>4. n = 1 /\ l[1] = tail
    <3>1. l[1] = tail /\ l[n] = head /\ 1 \in 1 .. n /\ n \in 1 .. n
      BY <2>3 DEF Chained
    <3>2. QED
      BY <1>4, <2>3, <3>1 DEF Chained
  <2>5. \A i \in 1 .. n : l[i] # Sentinel
    BY <1>1, <2>4
  <2>6. ASSUME NEW u \in Users, Active(u)
        PROVE  link[u].node # Sentinel
    BY <1>1, <2>6 DEF FInv, Rest, LinkInv
  <2>7. Sentinel \in Nodes /\ Sentinel <= made /\ inUse' = inUse \ {Sentinel}
    BY <1>2 DEF Nodes, Sentinel, FInv, FactoryTypeOK, Pooled
  <2>8. /\ LinkInv' /\ Chained(n, l)' /\ Placed(n, l)'
        /\ \A u \in Users : link'[u] = IF u = "pusher"
                                        THEN [pc |-> "exchange", node |-> Sentinel, prev |-> Null]
                                        ELSE link[u]
        /\ next'[tail] = next[tail]
    BY <1>2, <2>1, <2>3, <2>5, <2>6, <2>7, StartLinkStep
  <2>9. pop'.pc = "again" /\ pop'.tail = tail
    BY <1>1, <2>1 DEF FInv, FactoryTypeOK
  <2>10. PopInv'
    BY <1>1, <1>2, <2>8, <2>9 DEF PopInv
  <2>11. Alone'
    BY <1>1, <1>2, <2>8, <2>9 DEF Alone, FInv, Rest, Users
  <2>12. QED
    BY <1>2, <2>8, <2>10, <2>11 DEF Rest, ListInv, FInv, DelInv
<1>5. QED
  BY <1>3, <1>4

(* A sample is constructed: nothing refers to it yet.                      *)
LEMMA ConstructStep ==
  ASSUME FInv, Construct
  PROVE  Rest'
<1>1. PICK n \in Nat \ {0} : \E l \in [1 .. n -> Nodes] : Chained(n, l) /\ Placed(n, l)
  BY DEF FInv, Rest, ListInv
<1>2. PICK l \in [1 .. n -> Nodes] : Chained(n, l) /\ Placed(n, l)
  BY <1>1
<1>3. PICK s \in Nat : s = made + 1
  BY DEF FInv, FactoryTypeOK
<1>4. /\ made' = s /\ made \in Nat /\ inUse' = inUse \cup {s} /\ pop' = NotPopping
      /\ UNCHANGED <<next, head, tail, link, deleted, overlap>>
  BY <1>3 DEF Construct, FInv, FactoryTypeOK
<1>5. Chained(n, l)'
  BY <1>2, <1>4 DEF Chained, Gap
<1>6. Placed(n, l)'
  <2>1. ASSUME NEW i \in 1 .. n
        PROVE  l[i] \notin inUse' /\ l[i] <= s
    <3>1. l[i] \in Nat /\ l[i] \notin inUse /\ l[i] <= made
      BY <1>2 DEF Placed, Nodes, Pooled, Sentinel
    <3>2. QED
      BY <1>3, <1>4, <3>1
  <2>2. ASSUME NEW t \in Users, link[t].pc = "exchange"
        PROVE  /\ link[t].node \notin inUse' /\ next[link[t].node] = Null
               /\ link[t].node <= s
               /\ \A i \in 1 .. n : l[i] # link[t].node
    <3>1. link[t].node \in Nat
      BY <2>2 DEF FInv, Rest, LinkInv, Active, Nodes, Pooled, Sentinel
    <3>2. /\ link[t].node \notin inUse /\ next[link[t].node] = Null
          /\ link[t].node <= made
          /\ \A i \in 1 .. n : l[i] # link[t].node
      BY <1>2, <2>2 DEF Placed
    <3>3. QED
      BY <1>3, <1>4, <3>1, <3>2
  <2>3. ASSUME NEW m \in 1 .. s
        PROVE  m \in inUse' \/ Loose(m) \/ \E i \in 1 .. n : l[i] = m
    <3>1. m = s \/ m \in 1 .. made
      BY <1>3, <1>4
    <3>2. QED
      BY <1>2, <1>4, <3>1 DEF Placed
  <2>4. \A m \in 1 .. s : Loose(m)' <=> Loose(m)
    BY <1>4 DEF Loose
  <2>5. QED
    BY <1>4, <2>1, <2>2, <2>3, <2>4 DEF Placed
<1>7. LinkInv'
  <2>1. inUse' \subseteq 1 .. s
    BY <1>3, <1>4 DEF FInv, Rest, LinkInv
  <2>2. QED
    BY <1>4, <2>1 DEF FInv, Rest, LinkInv, Active
<1>8. PopInv' /\ Alone'
  BY <1>4 DEF NotPopping, PopInv, Alone
<1>9. QED
  BY <1>4, <1>5, <1>6, <1>7, <1>8 DEF Rest, ListInv, FInv, DelInv

(* The newest node has no successor, so the destructor deletes nothing.    *)
LEMMA DestructorStep ==
  ASSUME FInv, Destructor
  PROVE  Rest'
<1>1. next[head] = Null /\ head \in Nodes
  BY DEF FInv, Rest, ListInv, Chained, FactoryTypeOK
<1>2. {head} \in SUBSET Nodes /\ head \in {head}
      /\ \A k \in {head} : next[k] # Null => next[k] \in {head}
  BY <1>1
<1>3. Reach(head) \subseteq {head}
  BY <1>2 DEF Reach
<1>4. deleted' = [done |-> TRUE, samples |-> {n \in Reach(head) : next[n] # Null} \ {Sentinel}]
      /\ UNCHANGED <<next, head, tail, made, inUse, pop, link, overlap>>
  BY DEF Destructor
<1>5. {n \in Reach(head) : next[n] # Null} \ {Sentinel} = {}
  BY <1>1, <1>3
<1>6. DelInv'
  BY <1>4, <1>5 DEF DelInv
<1>7. LinkInv' /\ ListInv'
  BY <1>4, ListUnchanged
<1>8. PopInv' /\ Alone'
  BY <1>4 DEF FInv, Rest, PopInv, Alone, Active
<1>9. QED
  BY <1>6, <1>7, <1>8 DEF Rest

(* The constructor makes one list of the sentinel and the reserve.         *)
LEMMA InitFInv == FactoryInit => FInv
<1> SUFFICES ASSUME FactoryInit
             PROVE  FInv
  OBVIOUS
<1>1. FactoryTypeOK
  <2>1. next \in [Nodes -> Nodes \cup {Null}]
    <3>1. \A n \in Nodes : n < NumReserve => n + 1 \in Nodes
      BY DEF Nodes, Pooled, Sentinel
    <3>2. QED
      BY <3>1 DEF FactoryInit
  <2>2. head \in Nodes /\ tail \in Nodes /\ made \in NumReserve .. MaxSamples
    BY DEF FactoryInit, Nodes, Pooled, Sentinel
  <2>3. QED
    BY <2>1, <2>2 DEF FactoryInit, FactoryTypeOK, NotPopping, NotLinking
<1>2. LinkInv /\ PopInv /\ Alone /\ DelInv
  BY DEF FactoryInit, LinkInv, PopInv, Alone, DelInv, Active, NotPopping, NotLinking
<1>3. PICK n \in Nat \ {0} : n = NumReserve + 1
  OBVIOUS
<1>4. PICK l \in [1 .. n -> Nodes] : \A i \in 1 .. n : l[i] = i - 1
  <2>1. [i \in 1 .. n |-> i - 1] \in [1 .. n -> Nodes]
    BY <1>3 DEF Nodes, Pooled, Sentinel
  <2>2. QED
    BY <2>1
<1>5. Chained(n, l)
  BY <1>3, <1>4 DEF Chained, FactoryInit, NotLinking, Nodes, Pooled, Sentinel, Null
<1>6. Placed(n, l)
  <2>1. \A s \in 1 .. made : s + 1 \in 1 .. n /\ l[s + 1] = s
    BY <1>3, <1>4 DEF FactoryInit
  <2>2. QED
    BY <1>3, <1>4, <2>1 DEF Placed, FactoryInit, NotLinking
<1>7. QED
  BY <1>1, <1>2, <1>5, <1>6 DEF FInv, Rest, ListInv

(* Every step keeps the invariant.                                         *)
LEMMA StepFInv == FInv /\ [FactoryNext]_factoryVars => FInv'
<1>1. SUFFICES ASSUME FInv, [FactoryNext]_factoryVars
               PROVE  Rest'
  BY TypeStep DEF FInv, Rest
<1>2. CASE NewSample
  BY <1>1, <1>2, PopBeginStep, PopSkipStep, PopTestStep, PopHeadStep, PopAgainStep, ConstructStep
  DEF NewSample
<1>3. ASSUME NEW t \in Users, NEW s \in Pooled, Release(t, s)
      PROVE  Rest'
  BY <1>1, <1>3, ReleaseStep
<1>4. ASSUME NEW t \in Users, Exchange(t) \/ SetNext(t)
      PROVE  Rest'
  BY <1>1, <1>4, ExchangeStep, SetNextStep
<1>5. CASE Destructor
  BY <1>1, <1>5, DestructorStep
<1>6. CASE UNCHANGED factoryVars
  <2>1. LinkInv' /\ ListInv'
    BY <1>1, <1>6, ListUnchanged DEF factoryVars
  <2>2. PopInv' /\ Alone' /\ DelInv'
    BY <1>1, <1>6 DEF factoryVars, FInv, Rest, PopInv, Alone, Active, DelInv
  <2>3. QED
    BY <2>1, <2>2 DEF Rest
<1>7. QED
  BY <1>1, <1>2, <1>3, <1>4, <1>5, <1>6 DEF FactoryNext

(* The invariant of the freelist, for any reserve, any number of samples   *)
(* and any threads (sample.h:65-143).                                      *)
THEOREM FactoryInvariance == FactorySpec => []FInv
BY InitFInv, StepFInv, PTL DEF FactorySpec

(* The natural numbers are well ordered: this stands for induction.        *)
LEMMA LeastNat ==
  ASSUME NEW T, T \subseteq Nat, T # {}
  PROVE  \E x \in T : \A y \in T : x <= y
<1> DEFINE R == OpToRel(<, Nat)
<1>1. IsWellFoundedOn(R, Nat)
  BY NatLessThanWellFounded
<1>2. \A x, y \in Nat : <<y, x>> \in R <=> y < x
  BY DEF OpToRel
<1> HIDE DEF R
<1>3. PICK x \in T : \A y \in T : ~(<<y, x>> \in R)
  BY <1>1, WFMin
<1>4. \A y \in T : ~(y < x)
  <2>1. TAKE y \in T
  <2>2. x \in Nat /\ y \in Nat
    BY <1>3
  <2>3. <<y, x>> \in R <=> y < x
    BY <1>2, <2>2
  <2>4. QED
    BY <1>3, <2>3
<1>5. QED
  BY <1>3, <1>4

(* The nodes that can be reached from tail_ are those of the list, as soon *)
(* as it has no gaps.                                                      *)
LEMMA ReachInList ==
  ASSUME FInv, NEW n \in Nat \ {0}, NEW l \in [1 .. n -> Nodes], Chained(n, l)
  PROVE  \A m \in Reach(tail) : \E i \in 1 .. n : l[i] = m
<1> DEFINE S == {l[i] : i \in 1 .. n}
<1>1. S \in SUBSET Nodes /\ tail \in S
  BY DEF Chained
<1>2. ASSUME NEW k \in S, next[k] # Null
      PROVE  next[k] \in S
  <2>1. PICK i \in 1 .. n : l[i] = k
    OBVIOUS
  <2>2. i # n
    BY <1>2, <2>1 DEF Chained
  <2>3. i \in 1 .. n - 1 /\ i + 1 \in 1 .. n
    BY <2>2
  <2>4. QED
    BY <1>2, <2>1, <2>3 DEF Chained
<1>3. \A m \in Reach(tail) : m \in S
  BY <1>1, <1>2 DEF Reach
<1>4. QED
  BY <1>3

(* Every node of a list without gaps can be reached.                       *)
LEMMA ListInReach ==
  ASSUME FInv, NEW n \in Nat \ {0}, NEW l \in [1 .. n -> Nodes], Chained(n, l),
         \A t \in Users : link[t].pc # "next",
         NEW i \in 1 .. n
  PROVE  l[i] \in Reach(tail)
<1>1. SUFFICES ASSUME NEW S \in SUBSET Nodes, tail \in S,
                      \A k \in S : next[k] # Null => next[k] \in S,
                      l[i] \notin S
               PROVE  FALSE
  BY DEF Reach
<1> DEFINE T == {j \in 1 .. n : l[j] \notin S}
<1>2. T \subseteq Nat /\ T # {}
  BY <1>1
<1>3. PICK j \in T : \A k \in T : j <= k
  BY <1>2, LeastNat
<1>4. j # 1
  BY <1>1, <1>3 DEF Chained
<1>5. j - 1 \in 1 .. n - 1 /\ j - 1 \in 1 .. n /\ (j - 1) + 1 = j
  BY <1>3, <1>4
<1>6. l[j - 1] \in S
  BY <1>3, <1>5
<1>7. next[l[j - 1]] = l[j]
  <2>1. \A t \in Users : ~Gap(t, l[j - 1], l[j])
    BY DEF Gap
  <2>2. QED
    BY <1>5, <2>1 DEF Chained
<1>8. l[j] \in Nodes /\ l[j] # Null
  BY <1>3 DEF Nodes, Pooled, Sentinel, Null
<1>9. QED
  BY <1>1, <1>3, <1>6, <1>7, <1>8

(* No sample is lost.                                                      *)
LEMMA InvNoneLost == FInv => NoneLost
<1> SUFFICES ASSUME FInv, Quiet
             PROVE  /\ Reach(tail) \cup inUse \cup {Sentinel} = {Sentinel} \cup 1 .. made
                    /\ head \in Reach(tail) /\ next[head] = Null
  BY DEF NoneLost
<1>1. PICK n \in Nat \ {0} : \E l \in [1 .. n -> Nodes] : Chained(n, l) /\ Placed(n, l)
  BY DEF FInv, Rest, ListInv
<1>2. PICK l \in [1 .. n -> Nodes] : Chained(n, l) /\ Placed(n, l)
  BY <1>1
<1>3. \A t \in Users : link[t].pc = "idle"
  BY DEF Quiet
<1>4. \A m \in Reach(tail) : \E i \in 1 .. n : l[i] = m
  BY <1>2, ReachInList
<1>5. ASSUME NEW i \in 1 .. n
      PROVE  l[i] \in Reach(tail)
  <2>1. \A t \in Users : link[t].pc # "next"
    BY <1>3
  <2>2. QED
    BY <1>2, <2>1, ListInReach
<1>6. ASSUME NEW i \in 1 .. n
      PROVE  l[i] \in {Sentinel} \cup 1 .. made
  BY <1>2 DEF Placed, Nodes, Pooled, FInv, FactoryTypeOK
<1>7. inUse \subseteq 1 .. made
  BY DEF FInv, Rest, LinkInv
<1>8. ASSUME NEW s \in 1 .. made
      PROVE  s \in Reach(tail) \cup inUse
  <2>1. ~Loose(s)
    BY <1>3 DEF Loose
  <2>2. QED
    BY <1>2, <1>5, <2>1 DEF Placed
<1>9. head = l[n] /\ n \in 1 .. n /\ next[head] = Null
  BY <1>2 DEF Chained
<1>10. QED
  BY <1>4, <1>5, <1>6, <1>7, <1>8, <1>9

(* No sample is lost, however releases and calls of new_sample overlap     *)
(* (sample.h:100-143).                                                     *)
THEOREM NoneEverLost == FactorySpec => []NoneLost
BY FactoryInvariance, InvNoneLost, PTL

(* A sample is taken off the list by the pusher only, or is a new one.     *)
LEMMA StepHandedOut ==
  ASSUME FInv, FactoryNext
  PROVE  /\ \A s \in inUse' \ inUse : s # Sentinel /\ \A t \in Users : link[t].node # s
         /\ pop.pc # "idle" /\ pop'.pc = "idle" => inUse' # inUse
<1> DEFINE Goal == /\ \A s \in inUse' \ inUse : s # Sentinel /\ \A t \in Users : link[t].node # s
                   /\ pop.pc # "idle" /\ pop'.pc = "idle" => inUse' # inUse
<1> SUFFICES Goal
  OBVIOUS
<1>1. ASSUME next[tail] # Null, tail' = next[tail], UNCHANGED <<next, head, made, link>>,
             inUse' = inUse \cup {tail}, tail # Sentinel
      PROVE  Goal
  <2>1. tail \notin inUse /\ \A t \in Users : link[t].node # tail
    BY <1>1, TakenOff
  <2>2. QED
    BY <1>1, <2>1
<1>2. ASSUME inUse' \subseteq inUse, pop.pc # "idle" => pop'.pc # "idle"
      PROVE  Goal
  BY <1>2
<1>3. CASE PopBegin
  BY <1>2, <1>3 DEF PopBegin
<1>4. CASE PopSkip
  BY <1>2, <1>4 DEF PopSkip, FInv, FactoryTypeOK
<1>5. CASE PopTest
  <2>1. pop.tail = tail /\ tail # Sentinel /\ pop.next \in {Null, next[tail]}
    BY <1>5 DEF PopTest, FInv, Rest, PopInv
  <2>2. CASE pop.next = Null
    BY <1>2, <1>5, <2>2 DEF PopTest, FInv, FactoryTypeOK
  <2>3. CASE pop.next # Null
    BY <1>1, <1>5, <2>1, <2>3 DEF PopTest, HandOut
  <2>4. QED
    BY <2>2, <2>3
<1>6. CASE PopHead
  BY <1>2, <1>6 DEF PopHead, FInv, FactoryTypeOK
<1>7. CASE PopAgain
  <2>1. pop.tail = tail /\ tail # Sentinel
    BY <1>7 DEF PopAgain, FInv, Rest, PopInv
  <2>2. CASE next[tail] = Null
    BY <1>2, <1>7, <2>1, <2>2 DEF PopAgain, FInv, FactoryTypeOK
  <2>3. CASE next[tail] # Null
    BY <1>1, <1>7, <2>1, <2>3 DEF PopAgain
  <2>4. QED
    BY <2>2, <2>3
<1>8. CASE Construct
  <2>1. PICK s \in 1 .. MaxSamples : s = made + 1
    BY <1>8 DEF Construct, FInv, FactoryTypeOK
  <2>2. inUse' = inUse \cup {s} /\ s \notin inUse /\ s # Sentinel
    BY <1>8, <2>1 DEF Construct, FInv, Rest, LinkInv, FactoryTypeOK, Sentinel
  <2>3. ASSUME NEW t \in Users
        PROVE  link[t].node # s
    <3>1. CASE link[t].pc = "exchange"
      BY <2>1, <3>1 DEF FInv, Rest, ListInv, Placed, FactoryTypeOK
    <3>2. CASE link[t].pc = "next"
      <4>1. PICK n \in Nat \ {0} : \E l \in [1 .. n -> Nodes] : Chained(n, l) /\ Placed(n, l)
        BY DEF FInv, Rest, ListInv
      <4>2. PICK l \in [1 .. n -> Nodes] : Chained(n, l) /\ Placed(n, l)
        BY <4>1
      <4>3. PICK i \in 1 .. n - 1 : Gap(t, l[i], l[i + 1])
        BY <3>2, <4>2 DEF Chained
      <4>4. i + 1 \in 1 .. n /\ link[t].node = l[i + 1]
        BY <4>3 DEF Gap
      <4>5. l[i + 1] <= made
        BY <4>2, <4>4 DEF Placed
      <4>6. QED
        BY <2>1, <4>4, <4>5 DEF FInv, FactoryTypeOK
    <3>3. CASE ~Active(t)
      BY <2>1, <3>3 DEF FInv, Rest, LinkInv, NotLinking, Null
    <3>4. QED
      BY <3>1, <3>2, <3>3 DEF FInv, FactoryTypeOK, Active
  <2>4. QED
    BY <2>2, <2>3
<1>9. ASSUME NEW t \in Users, NEW s \in Pooled, Release(t, s)
      PROVE  Goal
  BY <1>2, <1>9 DEF Release
<1>10. ASSUME NEW t \in Users, Exchange(t) \/ SetNext(t)
       PROVE  Goal
  BY <1>2, <1>10 DEF Exchange, SetNext
<1>11. CASE Destructor
  BY <1>2, <1>11 DEF Destructor
<1> HIDE DEF Goal
<1>12. QED
  BY <1>3, <1>4, <1>5, <1>6, <1>7, <1>8, <1>9, <1>10, <1>11 DEF FactoryNext, NewSample

(* Every call of new_sample hands out a sample that nobody uses and no     *)
(* release holds (sample.h:90-97, 120-143).                                *)
THEOREM AlwaysHandedOutOnce == FactorySpec => HandedOutOnce
<1>1. FInv /\ [FactoryNext]_factoryVars =>
        [/\ \A s \in inUse' \ inUse : s # Sentinel /\ \A t \in Users : link[t].node # s
         /\ pop.pc # "idle" /\ pop'.pc = "idle" => inUse' # inUse]_factoryVars
  BY StepHandedOut
<1>2. QED
  BY <1>1, FactoryInvariance, PTL DEF FactorySpec, HandedOutOnce

(* Without a release at the same time, a node that has no successor is the *)
(* last one.                                                               *)
LEMMA StepGrows ==
  ASSUME FInv, FactoryNext, pop.pc # "new", pop'.pc = "new", ~overlap
  PROVE  Reach(tail) \subseteq {Sentinel}
<1>1. PICK n \in Nat \ {0} : \E l \in [1 .. n -> Nodes] : Chained(n, l) /\ Placed(n, l)
  BY DEF FInv, Rest, ListInv
<1>2. PICK l \in [1 .. n -> Nodes] : Chained(n, l) /\ Placed(n, l)
  BY <1>1
<1>3. tail = l[1] /\ head = l[n] /\ 1 \in 1 .. n
  BY <1>2 DEF Chained
<1>4. ASSUME pop.pc # "idle", link["pusher"].pc = "idle", next[tail] = Null
      PROVE  n = 1
  <2>1. \A t \in Users : link[t].pc # "next"
    BY <1>4 DEF FInv, Rest, Alone, Users
  <2>2. ASSUME n # 1
        PROVE  FALSE
    <3>1. 1 \in 1 .. n - 1 /\ 1 + 1 = 2 /\ 2 \in 1 .. n
      BY <2>2
    <3>2. \A t \in Users : ~Gap(t, l[1], l[1 + 1])
      BY <2>1 DEF Gap
    <3>3. next[l[1]] = l[2]
      BY <1>2, <3>1, <3>2 DEF Chained
    <3>4. QED
      BY <1>3, <1>4, <3>1, <3>3 DEF Nodes, Pooled, Sentinel, Null
  <2>3. QED
    BY <2>2
<1>5. CASE PopBegin
  BY <1>5 DEF PopBegin
<1>6. CASE PopSkip
  <2>1. pop.pc = "skip" /\ pop.next = Null
    BY <1>6 DEF PopSkip
  <2>2. tail = Sentinel /\ next[tail] = Null /\ link["pusher"].pc = "idle"
    BY <2>1 DEF FInv, Rest, PopInv, Alone, Active
  <2>3. n = 1
    BY <1>4, <2>1, <2>2
  <2>4. \A m \in Reach(tail) : \E i \in 1 .. n : l[i] = m
    BY <1>2, ReachInList
  <2>5. ASSUME NEW i \in 1 .. n
        PROVE  l[i] = Sentinel
    <3>1. i = 1
      BY <2>3
    <3>2. QED
      BY <1>3, <2>2, <3>1
  <2>6. QED
    BY <2>4, <2>5
<1>7. CASE PopTest
  BY <1>7 DEF PopTest, HandOut, NotPopping, FInv, FactoryTypeOK
<1>8. CASE PopHead
  <2>1. pop.pc = "head" /\ pop.tail # head
    BY <1>8 DEF PopHead, FInv, FactoryTypeOK
  <2>2. pop.tail = tail /\ next[tail] = Null /\ link["pusher"].pc = "idle"
    BY <2>1 DEF FInv, Rest, PopInv, Alone, Active
  <2>3. n = 1
    BY <1>4, <2>1, <2>2
  <2>4. QED
    BY <1>3, <2>1, <2>2, <2>3
<1>9. CASE PopAgain
  <2>1. pop.pc = "again" /\ next[pop.tail] = Null /\ link["pusher"].pc = "idle"
    BY <1>9 DEF PopAgain, NotPopping
  <2>2. pop.tail = tail /\ tail # head
    BY <2>1 DEF FInv, Rest, PopInv
  <2>3. n = 1
    BY <1>4, <2>1, <2>2
  <2>4. QED
    BY <1>3, <2>2, <2>3
<1>10. CASE Construct
  BY <1>10 DEF Construct
<1>11. CASE \E t \in Users : (\E s \in Pooled : Release(t, s)) \/ Exchange(t) \/ SetNext(t)
  BY <1>11 DEF Release, Exchange, SetNext
<1>12. CASE Destructor
  BY <1>12 DEF Destructor
<1>13. QED
  BY <1>5, <1>6, <1>7, <1>8, <1>9, <1>10, <1>11, <1>12 DEF FactoryNext, NewSample

(* new_sample constructs a sample only if the list is empty or another     *)
(* release overlaps it (sample.h:124-125, 135-136).                        *)
THEOREM AlwaysGrowsOnlyIfNeeded == FactorySpec => GrowsOnlyIfNeeded
<1>1. FInv /\ [FactoryNext]_factoryVars =>
        [pop.pc # "new" /\ pop'.pc = "new" =>
           Reach(tail) \subseteq {Sentinel} \/ overlap]_factoryVars
  BY StepGrows
<1>2. QED
  BY <1>1, FactoryInvariance, PTL DEF FactorySpec, GrowsOnlyIfNeeded

(* ~factory starts at the newest node, which has no successor: it never    *)
(* deletes a sample (sample.h:81-86).                                      *)
THEOREM NothingDeleted == FactorySpec => [](deleted.samples = {})
BY FactoryInvariance, PTL DEF FInv, Rest, DelInv
=============================================================================
