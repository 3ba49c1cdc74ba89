---------------------------- MODULE NetworkProof ----------------------------
(***************************************************************************)
(* Proofs about the client's side of the network: CancellableStreambuf for *)
(* any registries and any number of cancels, and Resolver for any hosts,   *)
(* queries, plans and ports.                                               *)
(*                                                                         *)
(* The buffer: a cancel raises the flag before it waits for the lock, and  *)
(* connect looks at the flag under the lock.  Hence no close is posted     *)
(* between that look and the opening of the socket, and after a close has  *)
(* been posted no connect gets past its look.  And as long as the socket   *)
(* is open an operation waits alone, so that it can only end with the      *)
(* success of something else when a close has closed the socket.           *)
(*                                                                         *)
(* The resolver: a host answers only queries that its stream matches, with *)
(* the query as the id, so this holds of every answer that is ever on the  *)
(* network; and an attempt takes an answer only if the id is its own query.*)
(* No matter to whom the answer was sent, or how long ago.                 *)
(***************************************************************************)
EXTENDS CancellableStreambuf, Resolver, FiniteSetTheorems, WellFoundedInduction, TLAPS

(* A cancel raises the flag first.                                         *)
FlagFirst ==
  /\ posted => cancelIssued
  /\ \A r \in Registries : canceller[r] = "post" => cancelIssued

NotPostedWhileLocked == pc = "locked" => ~posted

CancelInv ==
  /\ canceller \in [Registries -> {"out", "flag", "post"}]
  /\ FlagFirst
  /\ NotPostedWhileLocked
  /\ CancelsOnlyLive

LEMMA CancelInit == Init => CancelInv
BY DEF Init, CancelInv, FlagFirst, NotPostedWhileLocked, CancelsOnlyLive

LEMMA CancelStep == CancelInv /\ [Next]_vars => CancelInv'
<1> SUFFICES ASSUME CancelInv, [Next]_vars
             PROVE  CancelInv'
  OBVIOUS
<1> USE DEF CancelInv, FlagFirst, NotPostedWhileLocked, CancelsOnlyLive
<1> DEFINE Rest == UNCHANGED <<cancelIssued, registered, canceller, posted>>
<1>1. CASE ConnectCheck
  BY <1>1 DEF ConnectCheck, allCancelVars, cancelVars
<1>2. CASE Connect \/ ReadOrWrite \/ Leave \/ Flush
  <2>1. Rest /\ pc' # "locked"
    BY <1>2 DEF Connect, ReadOrWrite, Leave, Flush, allCancelVars, cancelVars
  <2>2. QED
    BY <2>1
<1>3. CASE ProtectedReset
  <2>1. Rest /\ pc' # "locked"
    BY <1>3 DEF ProtectedReset, CloseIfOpen, cancelVars
  <2>2. QED
    BY <2>1
<1>4. CASE RunOne
  <2>1. Rest /\ pc' # "locked"
    BY <1>4 DEF RunOne, CloseIfOpen, cancelVars
  <2>2. QED
    BY <2>1
<1>5. CASE LoopEnds
  <2>1. Rest /\ pc' # "locked"
    BY <1>5 DEF LoopEnds, allCancelVars, cancelVars
  <2>2. QED
    BY <2>1
<1>6. ASSUME NEW r \in Registries, Unregister(r)
      PROVE  CancelInv'
  BY <1>6 DEF Unregister, threadVars
<1>7. ASSUME NEW r \in Registries, CancelBegin(r)
      PROVE  CancelInv'
  BY <1>7 DEF CancelBegin, threadVars
<1>8. ASSUME NEW r \in Registries, CancelFlag(r)
      PROVE  CancelInv'
  BY <1>8 DEF CancelFlag, threadVars
<1>9. ASSUME NEW r \in Registries, CancelPost(r)
      PROVE  CancelInv'
  BY <1>9 DEF CancelPost, Locked, threadVars
<1>10. ASSUME NEW n \in pending, Complete(n)
       PROVE  CancelInv'
  BY <1>10 DEF Complete, threadVars, allCancelVars, cancelVars
<1>11. CASE UNCHANGED vars
  BY <1>11 DEF vars, threadVars, allCancelVars, cancelVars
<1>12. QED
  BY <1>1, <1>2, <1>3, <1>4, <1>5, <1>6, <1>7, <1>8, <1>9, <1>10, <1>11
  DEF Next, Thread, Cancel

LEMMA AlwaysCancelInv == Spec => []CancelInv
<1>1. QED
  BY CancelInit, CancelStep, PTL DEF Spec

-----------------------------------------------------------------------------
(* No cancel touches a buffer that its destructor has unregistered         *)
(* (cancellable_streambuf.h:56, cancellation.h:85-91).                     *)
THEOREM CancelsOnlyRegistered == Spec => []CancelsOnlyLive
<1>1. CancelInv => CancelsOnlyLive
  BY DEF CancelInv
<1>2. QED
  BY <1>1, AlwaysCancelInv, PTL

(* Once a cancel has posted its close, the socket is never opened again    *)
(* (cancellable_streambuf.h:66, 85).                                       *)
THEOREM NeverReused == Spec => NotReused
<1>1. CancelInv /\ [Next]_vars => [posted /\ ~open => ~open']_vars
  <2> SUFFICES ASSUME CancelInv, Next, posted, ~open
               PROVE  ~open'
    OBVIOUS
  <2>1. pc # "locked"
    BY DEF CancelInv, NotPostedWhileLocked
  <2>2. CASE Thread
    <3>1. ~Connect
      BY <2>1 DEF Connect
    <3>2. CASE ConnectCheck \/ ReadOrWrite \/ Leave \/ Flush \/ \E r \in Registries : Unregister(r)
      BY <3>2 DEF ConnectCheck, ReadOrWrite, Leave, Flush, Unregister, socketVars
    <3>3. CASE ProtectedReset
      BY <3>3 DEF ProtectedReset, CloseIfOpen, Close, MustClose, socketVars
    <3>4. CASE RunOne
      BY <3>4 DEF RunOne, CloseIfOpen, Close, MustClose, socketVars
    <3>5. CASE LoopEnds
      BY <3>5 DEF LoopEnds, Close
    <3>6. QED
      BY <2>2, <3>1, <3>2, <3>3, <3>4, <3>5 DEF Thread
  <2>3. CASE \E r \in Registries : CancelBegin(r) \/ Cancel(r)
    BY <2>3 DEF CancelBegin, Cancel, CancelFlag, CancelPost, socketVars
  <2>4. CASE \E n \in pending : Complete(n)
    BY <2>4 DEF Complete
  <2>5. QED
    BY <2>2, <2>3, <2>4 DEF Next
<1>2. QED
  BY <1>1, AlwaysCancelInv, PTL DEF Spec, NotReused
-----------------------------------------------------------------------------
(* The only thing that keeps a read from going on with new bytes after     *)
(* somebody else's success is that the socket is closed by then.  So the   *)
(* invariant says what can run while the socket is open: outside close(),  *)
(* an operation waits alone.                                               *)
Shape ==
  /\ pc \in {"new", "locked", "idle", "reset", "run", "end", "dtor", "gone"}
  /\ stack \in Seq({"reset", "run"})
  /\ own \in BOOLEAN /\ open \in BOOLEAN /\ put \in BOOLEAN
  /\ cancelIssued \in BOOLEAN /\ cancelStarted \in BOOLEAN
  /\ pending \subseteq Nat /\ IsFiniteSet(pending)
  /\ ready \in Seq([of : Nat, res : {"ok", "error", "close"}])

(* A handler that ends a loop: any but a posted close. *)
Ends(i) == ready[i] # PostedClose

Alone == pending = {} /\ \A i \in DOMAIN ready : ~Ends(i)

(* The operation waits, or its handler is there, and no other. *)
Sole ==
  /\ pending \subseteq {0}
  /\ \A i \in DOMAIN ready :
       Ends(i) => ready[i].of = 0 /\ pending = {} /\ \A j \in DOMAIN ready : Ends(j) => j = i

Outside == pc \in {"new", "locked", "idle", "dtor", "gone"} => stack = <<>>

Unconnected == pc \in {"new", "locked"} => ~open /\ ~cancelStarted /\ Alone

ClosedIdle == ~open => pending = {}

(* A close that has begun has closed the socket, or is still under way. *)
CloseUnderWay == open /\ cancelStarted => stack # <<>>

OneAtATime ==
  open /\ stack = <<>> =>
    /\ pc \in {"reset", "run"} => ec = "would_block" /\ ~own
    /\ pc = "run" => Sole
    /\ pc = "reset" /\ ~cancelIssued => Sole
    /\ pc \in {"idle", "dtor", "end"} /\ ~cancelIssued => Alone
    /\ pc = "end" /\ ~own => ec # "ok"

(* After a read of stale bytes every operation fails. *)
NoSuccess ==
  outcome = "stale" =>
    /\ pc \notin {"new", "locked"} /\ ~open /\ stack = <<>>
    /\ pc \in {"reset", "run"} =>
         ~own /\ \A i \in DOMAIN ready : ready[i].of = 0 => ready[i].res # "ok"
    /\ pc = "end" /\ own => ec # "ok"

SoleInv ==
  /\ Shape
  /\ Outside
  /\ Unconnected
  /\ ClosedIdle
  /\ CloseUnderWay
  /\ OneAtATime
  /\ NoSuccess

Handlers == [of : Nat, res : {"ok", "error", "close"}]

LEMMA SoleInit == Init => SoleInv
<1>1. Init => IsFiniteSet(pending)
  BY FS_EmptySet DEF Init
<1>2. Init => /\ <<>> \in Seq({"reset", "run"})
              /\ <<>> \in Seq([of : Nat, res : {"ok", "error", "close"}])
              /\ DOMAIN ready = {}
  BY DEF Init
<1>3. Init => Shape /\ Alone
  BY <1>1, <1>2 DEF Init, Shape, Alone
<1>4. QED
  BY <1>3 DEF Init, SoleInv, Outside, Unconnected, ClosedIdle, CloseUnderWay,
              OneAtATime, NoSuccess

-----------------------------------------------------------------------------
LEMMA OldType == Old \in Nat /\ Old # 0
BY StreambufAssumption DEF Old

(* What the changes of the queue of handlers do. *)
LEMMA PostKeeps ==
  ASSUME Shape, ready' = Append(ready, PostedClose), pending' = pending
  PROVE  /\ ready' \in Seq(Handlers)
         /\ Alone => Alone'
         /\ Sole => Sole'
         /\ (\A i \in DOMAIN ready : ready[i].of = 0 => ready[i].res # "ok")
              => (\A i \in DOMAIN ready' : ready'[i].of = 0 => ready'[i].res # "ok")
<1>1. PostedClose \in Handlers /\ PostedClose.of # 0
  BY OldType DEF PostedClose, Handlers
<1>2. /\ ready \in Seq(Handlers) /\ Len(ready) \in Nat
      /\ DOMAIN ready = 1 .. Len(ready)
      /\ DOMAIN ready' = 1 .. Len(ready) + 1
      /\ \A i \in 1 .. Len(ready) : ready'[i] = ready[i]
      /\ ready'[Len(ready) + 1] = PostedClose
      /\ ready' \in Seq(Handlers)
  BY <1>1 DEF Shape, Handlers
<1>3. \A i \in DOMAIN ready' :
        \/ i \in DOMAIN ready /\ ready'[i] = ready[i]
        \/ ready'[i] = PostedClose
  BY <1>2
<1>4. \A i \in DOMAIN ready' : Ends(i)' => i \in DOMAIN ready /\ ready'[i] = ready[i] /\ Ends(i)
  BY <1>3 DEF Ends
<1>5. QED
  BY <1>1, <1>2, <1>3, <1>4 DEF Alone, Sole

LEMMA CompleteKeeps ==
  ASSUME Shape, NEW n \in pending, Complete(n)
  PROVE  /\ ready' \in Seq(Handlers)
         /\ pending' \subseteq Nat /\ IsFiniteSet(pending')
         /\ ~Alone
         /\ Sole => Sole'
<1>1. PICK res \in {"ok", "error"} : ready' = Append(ready, Handler(n, res))
  BY DEF Complete
<1>2. pending' = pending \ {n} /\ n \in Nat
  BY DEF Complete, Shape
<1>3. Handler(n, res) \in Handlers
  BY <1>2 DEF Handler, Handlers
<1>4. /\ ready \in Seq(Handlers) /\ Len(ready) \in Nat
      /\ DOMAIN ready = 1 .. Len(ready)
      /\ DOMAIN ready' = 1 .. Len(ready) + 1
      /\ \A i \in 1 .. Len(ready) : ready'[i] = ready[i]
      /\ ready'[Len(ready) + 1] = Handler(n, res)
      /\ ready' \in Seq(Handlers)
  BY <1>1, <1>3 DEF Shape, Handlers
<1>5. IsFiniteSet(pending')
  BY <1>2, FS_RemoveElement DEF Shape
<1>6. ASSUME Sole
      PROVE  Sole'
  <2>1. n = 0 /\ pending = {0} /\ pending' = {}
    BY <1>2, <1>6 DEF Sole
  <2>2. \A i \in 1 .. Len(ready) : ~Ends(i)
    BY <1>4, <1>6, <2>1 DEF Sole
  <2>3. \A i \in DOMAIN ready' : Ends(i)' => i = Len(ready) + 1
    BY <1>4, <2>2 DEF Ends
  <2>4. Handler(n, res).of = 0
    BY <2>1 DEF Handler
  <2>5. QED
    BY <1>4, <2>1, <2>3, <2>4 DEF Sole
<1>7. QED
  BY <1>2, <1>4, <1>5, <1>6 DEF Alone, Shape

(* An operation that begins when nothing else waits is the only one. *)
LEMMA BeginAlone ==
  ASSUME Shape, ClosedIdle, NEW o, NEW isOpen \in BOOLEAN, Begin(o, isOpen)
  PROVE  /\ ready' \in Seq(Handlers)
         /\ pending' \subseteq Nat /\ IsFiniteSet(pending')
         /\ ec' = "would_block" /\ own' = FALSE
         /\ Alone /\ isOpen => Sole'
         /\ ~open /\ ~isOpen => /\ pending' = {}
                      /\ \A i \in DOMAIN ready' : ready'[i].of = 0 => ready'[i].res # "ok"
<1> DEFINE old == [i \in DOMAIN ready |-> [ready[i] EXCEPT !.of = Old]]
           given == {Old : n \in pending}
<1>1. /\ ready \in Seq(Handlers) /\ Len(ready) \in Nat
      /\ DOMAIN ready = 1 .. Len(ready)
      /\ \A i \in 1 .. Len(ready) : ready[i] \in Handlers
  <2>1. ready \in Seq(Handlers)
    BY DEF Shape, Handlers
  <2>2. QED
    BY <2>1
<1>2. \A i \in 1 .. Len(ready) :
         /\ old[i] \in Handlers /\ old[i].of = Old
         /\ ready[i] = PostedClose => old[i] = PostedClose
  <2>1. TAKE i \in 1 .. Len(ready)
  <2>2. ready[i] \in Handlers /\ i \in DOMAIN ready
    BY <1>1
  <2>3. old[i] = [of |-> Old, res |-> ready[i].res]
    BY <2>2 DEF Handlers
  <2>4. old[i] \in Handlers /\ old[i].of = Old
    BY <2>2, <2>3, OldType DEF Handlers
  <2>5. ASSUME ready[i] = PostedClose
        PROVE  old[i] = PostedClose
    BY <2>3, <2>5, OldType DEF PostedClose
  <2>6. QED
    BY <2>4, <2>5
<1>3. old \in Seq(Handlers) /\ Len(old) = Len(ready)
  BY <1>1, <1>2
<1>4. given \subseteq {Old} /\ given \subseteq Nat /\ IsFiniteSet(given)
  <2>1. given \subseteq {Old}
    OBVIOUS
  <2>2. IsFiniteSet({Old})
    BY FS_Singleton
  <2>3. QED
    BY <2>1, <2>2, FS_Subset, OldType
<1>5. /\ ec' = "would_block" /\ own' = FALSE
      /\ pending' = IF isOpen THEN given \cup {0} ELSE given
      /\ ready' = IF isOpen THEN old ELSE Append(old, Handler(0, "error"))
  BY DEF Begin, Async
<1>6. Handler(0, "error") \in Handlers /\ Handler(0, "error").res # "ok"
  BY DEF Handler, Handlers
<1>7. ready' \in Seq(Handlers)
  BY <1>3, <1>5, <1>6
<1>8. pending' \subseteq Nat /\ IsFiniteSet(pending')
  BY <1>4, <1>5, FS_AddElement
<1>9. ASSUME Alone, isOpen
      PROVE  Sole'
  <2>1. pending' = {0}
    BY <1>5, <1>9 DEF Alone
  <2>2. \A i \in DOMAIN ready' : ready'[i] = PostedClose
    BY <1>1, <1>2, <1>3, <1>5, <1>9 DEF Alone, Ends
  <2>3. QED
    BY <2>1, <2>2 DEF Sole, Ends
<1>10. ASSUME ~open, ~isOpen
       PROVE  /\ pending' = {}
              /\ \A i \in DOMAIN ready' : ready'[i].of = 0 => ready'[i].res # "ok"
  <2>1. pending' = {}
    BY <1>5, <1>10 DEF ClosedIdle
  <2>2. ready' = Append(old, Handler(0, "error"))
    BY <1>5, <1>10
  <2>3. \A i \in DOMAIN ready' :
          \/ i \in 1 .. Len(ready) /\ ready'[i] = old[i]
          \/ ready'[i] = Handler(0, "error")
    BY <1>1, <1>3, <1>6, <2>2
  <2>4. ASSUME NEW i \in DOMAIN ready', ready'[i].of = 0
        PROVE  ready'[i].res # "ok"
    <3>1. CASE i \in 1 .. Len(ready) /\ ready'[i] = old[i]
      <4>1. ready'[i].of = Old
        BY <1>2, <3>1
      <4>2. QED
        BY <2>4, <4>1, OldType
    <3>2. CASE ready'[i] = Handler(0, "error")
      BY <1>6, <3>2
    <3>3. QED
      BY <2>3, <2>4, <3>1, <3>2
  <2>5. QED
    BY <2>1, <2>4
<1>11. QED
  BY <1>5, <1>7, <1>8, <1>9, <1>10

LEMMA TailKeeps ==
  ASSUME Shape, ready # <<>>, ready' = Tail(ready), pending' = pending
  PROVE  /\ ready' \in Seq(Handlers)
         /\ Head(ready) \in Handlers
         /\ Sole /\ Head(ready) # PostedClose => Head(ready).of = 0 /\ Alone'
         /\ (\A i \in DOMAIN ready : ready[i].of = 0 => ready[i].res # "ok")
              => /\ Head(ready).of = 0 => Head(ready).res # "ok"
                 /\ \A i \in DOMAIN ready' : ready'[i].of = 0 => ready'[i].res # "ok"
<1>1. ready \in Seq(Handlers)
  BY DEF Shape, Handlers
<1>2. /\ Len(ready) \in Nat \ {0}
      /\ DOMAIN ready = 1 .. Len(ready)
      /\ 1 \in DOMAIN ready /\ Head(ready) = ready[1] /\ ready[1] \in Handlers
      /\ DOMAIN ready' = 1 .. Len(ready) - 1
      /\ \A i \in 1 .. Len(ready) - 1 : ready'[i] = ready[i + 1]
      /\ ready' \in Seq(Handlers)
  BY <1>1
<1>3. \A i \in DOMAIN ready' : i + 1 \in DOMAIN ready /\ i + 1 # 1 /\ ready'[i] = ready[i + 1]
  BY <1>2
<1>4. ASSUME Sole, Head(ready) # PostedClose
      PROVE  Head(ready).of = 0 /\ Alone'
  <2>1. Ends(1)
    BY <1>2, <1>4 DEF Ends
  <2>2. \A j \in DOMAIN ready : Ends(j) => j = 1
    BY <1>2, <1>4, <2>1 DEF Sole
  <2>3. \A i \in DOMAIN ready' : ~Ends(i)'
    BY <1>3, <2>2 DEF Ends
  <2>4. ready[1].of = 0 /\ pending = {}
    BY <1>2, <1>4, <2>1 DEF Sole
  <2>5. QED
    BY <1>2, <2>3, <2>4 DEF Alone
<1>5. QED
  BY <1>2, <1>3, <1>4

-----------------------------------------------------------------------------
(* What a close does: the socket is closed, or a flush comes first. *)
LEMMA CloseDoes ==
  ASSUME Shape, NEW queue \in Seq(Handlers), Close(pending, queue)
  PROVE  /\ open' = FALSE /\ put' = FALSE
         /\ pending' = {} /\ IsFiniteSet(pending')
         /\ ready' \in Seq(Handlers)
<1>1. PICK s \in SetToSeqs(pending) :
        ready' = queue \o [i \in DOMAIN s |-> Handler(s[i], "error")]
  BY DEF Close
<1>2. Cardinality(pending) \in Nat
  BY FS_CardinalityType DEF Shape
<1>3. DOMAIN s = 1 .. Cardinality(pending) /\ \A i \in DOMAIN s : s[i] \in Nat
  BY <1>1 DEF SetToSeqs, Shape
<1>4. [i \in DOMAIN s |-> Handler(s[i], "error")] \in Seq(Handlers)
  <2>1. \A i \in DOMAIN s : Handler(s[i], "error") \in Handlers
    BY <1>3 DEF Handler, Handlers
  <2>2. QED
    BY <1>2, <1>3, <2>1
<1>5. ready' \in Seq(Handlers)
  BY <1>1, <1>4
<1>6. QED
  BY <1>5, FS_EmptySet DEF Close

LEMMA CloseIfOpenDoes ==
  ASSUME Shape, NEW place \in {"reset", "run"}, NEW queue \in Seq(Handlers), NEW next,
         open, CloseIfOpen(place, queue, next)
  PROVE  /\ cancelStarted' = TRUE /\ put' \in BOOLEAN /\ open' \in BOOLEAN
         /\ pending' \subseteq Nat /\ IsFiniteSet(pending')
         /\ ready' \in Seq(Handlers)
         /\ stack' \in Seq({"reset", "run"})
         /\ pc' \in {"reset", next}
         /\ open' => stack' # <<>>
         /\ ~open' => pending' = {}
<1>1. CASE put
  <2>1. /\ stack' = <<place>> \o stack /\ pc' = "reset"
        /\ Async(Len(stack) + 1, open, pending, queue)
        /\ UNCHANGED <<open, put>> /\ cancelStarted' = TRUE
    BY <1>1 DEF CloseIfOpen
  <2>2. pending' = pending \cup {Len(stack) + 1} /\ ready' = queue
    BY <2>1 DEF Async
  <2>3. Len(stack) \in Nat
    BY DEF Shape
  <2>4. IsFiniteSet(pending') /\ pending' \subseteq Nat
    <3>1. IsFiniteSet(pending) /\ pending \subseteq Nat
      BY DEF Shape
    <3>2. IsFiniteSet(pending \cup {Len(stack) + 1})
      BY <3>1, FS_AddElement
    <3>3. IsFiniteSet(pending')
      BY <2>2, <3>2, Zenon
    <3>4. pending' \subseteq Nat
      <4> DEFINE n == Len(stack) + 1
      <4>1. n \in Nat
        BY <2>3
      <4>2. pending' = pending \cup {n}
        BY <2>2
      <4> HIDE DEF n
      <4>3. QED
        BY <3>1, <4>1, <4>2
    <3>5. QED
      BY <3>3, <3>4
  <2>5. stack' \in Seq({"reset", "run"}) /\ stack' # <<>>
    <3>1. stack \in Seq({"reset", "run"}) /\ <<place>> \in Seq({"reset", "run"})
      BY DEF Shape
    <3>2. stack' \in Seq({"reset", "run"})
      BY <2>1, <3>1
    <3>3. Len(stack') = 1 + Len(stack)
      BY <2>1, <3>1
    <3>4. QED
      BY <2>3, <3>2, <3>3
  <2>6. QED
    BY <2>1, <2>2, <2>4, <2>5 DEF Shape
<1>2. CASE ~put
  <2>1. Close(pending, queue) /\ pc' = next /\ stack' = stack /\ cancelStarted' = TRUE
    BY <1>2 DEF CloseIfOpen
  <2>2. QED
    BY <2>1, CloseDoes DEF Shape
<1>3. QED
  BY <1>1, <1>2 DEF Shape

(* While a close is under way the rest of the invariant says nothing. *)
LEMMA ClosingKeeps ==
  ASSUME Shape', pc' \in {"reset", "run", "end"}, open' => stack' # <<>>,
         ~open' => pending' = {}, outcome' # "stale"
  PROVE  SoleInv'
BY DEF SoleInv, Outside, Unconnected, ClosedIdle, CloseUnderWay, OneAtATime, NoSuccess

-----------------------------------------------------------------------------
(* One lemma for each action that moves handlers. *)
LEMMA ConnectKeeps == SoleInv /\ Connect => SoleInv'
<1> SUFFICES ASSUME SoleInv, Connect
             PROVE  SoleInv'
  OBVIOUS
<1>1. Shape /\ ClosedIdle /\ Alone /\ stack = <<>> /\ ~cancelStarted /\ outcome # "stale"
  BY DEF SoleInv, Connect, Unconnected, Outside, NoSuccess
<1>2. /\ ready' \in Seq(Handlers)
      /\ pending' \subseteq Nat /\ IsFiniteSet(pending')
      /\ ec' = "would_block" /\ own' = FALSE /\ Sole'
  BY <1>1, BeginAlone DEF Connect
<1>3. pc' = "run" /\ open' = TRUE
      /\ UNCHANGED <<stack, put, cancelIssued, cancelStarted, outcome>>
  BY DEF Connect, allCancelVars
<1>4. Shape'
  BY <1>1, <1>2, <1>3 DEF Shape, Handlers
<1>5. QED
  BY <1>1, <1>2, <1>3, <1>4
  DEF SoleInv, Outside, Unconnected, ClosedIdle, CloseUnderWay, OneAtATime, NoSuccess

LEMMA BeginKeeps == SoleInv /\ (ReadOrWrite \/ Flush) => SoleInv'
<1> SUFFICES ASSUME SoleInv, ReadOrWrite \/ Flush
             PROVE  SoleInv'
  OBVIOUS
<1>1. Shape /\ ClosedIdle /\ pc \in {"idle", "dtor"} /\ stack = <<>>
  BY DEF SoleInv, ReadOrWrite, Flush, Outside
<1>2. UNCHANGED <<stack, open, cancelIssued, cancelStarted, outcome>>
  BY DEF ReadOrWrite, Flush, allCancelVars
<1>3. CASE pc' = "gone"
  <2>1. UNCHANGED <<own, put, ec, pending, ready>>
    BY <1>3 DEF ReadOrWrite, Flush
  <2>2. QED
    BY <1>1, <1>2, <1>3, <2>1
    DEF SoleInv, Shape, Outside, Unconnected, ClosedIdle, CloseUnderWay, OneAtATime, NoSuccess
<1>4. CASE pc' # "gone"
  <2>1. PICK o : Begin(o, open)
    BY <1>4 DEF ReadOrWrite, Flush
  <2>2. pc' = "reset" /\ put' \in BOOLEAN
    BY <1>1, <1>4 DEF ReadOrWrite, Flush, Shape
  <2>3. /\ ready' \in Seq(Handlers)
        /\ pending' \subseteq Nat /\ IsFiniteSet(pending')
        /\ ec' = "would_block" /\ own' = FALSE
        /\ Alone /\ open => Sole'
        /\ ~open => /\ pending' = {}
                    /\ \A i \in DOMAIN ready' : ready'[i].of = 0 => ready'[i].res # "ok"
    BY <1>1, <2>1, BeginAlone DEF Shape
  <2>4. Shape'
    BY <1>1, <1>2, <2>2, <2>3 DEF Shape, Handlers
  <2>5. QED
    BY <1>1, <1>2, <2>2, <2>3, <2>4
    DEF SoleInv, Outside, Unconnected, ClosedIdle, CloseUnderWay, OneAtATime, NoSuccess
<1>5. QED
  BY <1>3, <1>4

LEMMA ResetKeeps == SoleInv /\ ProtectedReset => SoleInv'
<1> SUFFICES ASSUME SoleInv, ProtectedReset
             PROVE  SoleInv'
  OBVIOUS
<1>1. Shape /\ pc = "reset" /\ UNCHANGED <<own, cancelIssued, outcome>>
  BY DEF SoleInv, ProtectedReset
<1>2. CASE cancelIssued /\ MustClose
  <2>1. CloseIfOpen("reset", ready, "run") /\ open
    BY <1>2 DEF ProtectedReset, MustClose
  <2>2. /\ cancelStarted' = TRUE /\ put' \in BOOLEAN /\ open' \in BOOLEAN
        /\ pending' \subseteq Nat /\ IsFiniteSet(pending')
        /\ ready' \in Seq(Handlers)
        /\ stack' \in Seq({"reset", "run"})
        /\ pc' \in {"reset", "run"}
        /\ open' => stack' # <<>>
        /\ ~open' => pending' = {}
    <3>1. ready \in Seq(Handlers)
      BY <1>1 DEF Shape, Handlers
    <3>2. QED
      BY <1>1, <2>1, <3>1, CloseIfOpenDoes
  <2>3. Shape'
    BY <1>1, <2>2 DEF Shape, Handlers
  <2>4. outcome # "stale"
    BY <2>1 DEF SoleInv, NoSuccess
  <2>5. QED
    BY <1>1, <2>2, <2>3, <2>4, ClosingKeeps
<1>3. CASE ~(cancelIssued /\ MustClose)
  <2>1. pc' = "run" /\ UNCHANGED <<stack, ec, put, open, pending, ready, cancelStarted>>
    BY <1>3 DEF ProtectedReset, socketVars
  <2>2. open /\ stack = <<>> => ~cancelIssued
    BY <1>3 DEF SoleInv, CloseUnderWay, MustClose
  <2>3. Shape' /\ (Sole => Sole')
    BY <1>1, <2>1 DEF Shape, Sole, Ends
  <2>4. QED
    BY <1>1, <2>1, <2>2, <2>3
    DEF SoleInv, Outside, Unconnected, ClosedIdle, CloseUnderWay, OneAtATime, NoSuccess
<1>4. QED
  BY <1>2, <1>3

LEMMA RunKeeps == SoleInv /\ RunOne => SoleInv'
<1> SUFFICES ASSUME SoleInv, RunOne
             PROVE  SoleInv'
  OBVIOUS
<1>1. Shape /\ pc = "run" /\ UNCHANGED <<cancelIssued, outcome>>
  BY DEF SoleInv, RunOne
<1>2. open /\ stack = <<>> => MustClose /\ ec = "would_block" /\ ~own /\ Sole
  BY <1>1 DEF SoleInv, OneAtATime, CloseUnderWay, MustClose
<1>3. outcome = "stale" =>
        /\ ~open /\ stack = <<>> /\ ~own
        /\ \A i \in DOMAIN ready : ready[i].of = 0 => ready[i].res # "ok"
  BY <1>1 DEF SoleInv, NoSuccess
<1>4. ~open => pending = {}
  BY DEF SoleInv, ClosedIdle
<1>5. CASE ready = <<>> /\ pending = {}
  <2>1. /\ pc' = IF Again(ec) THEN "run" ELSE "end"
        /\ UNCHANGED <<stack, own, ec, put, open, pending, ready, cancelStarted>>
    BY <1>1, <1>5 DEF RunOne, socketVars
  <2>2. Shape' /\ Sole' = Sole /\ DOMAIN ready = {}
    BY <1>1, <1>5, <2>1 DEF Shape, Sole, Ends
  <2>3. Alone'
    BY <1>5, <2>1, <2>2 DEF Alone
  <2>4. QED
    BY <1>1, <1>2, <1>3, <2>1, <2>2, <2>3
    DEF SoleInv, Outside, Unconnected, ClosedIdle, CloseUnderWay, OneAtATime, NoSuccess
<1>6. CASE ready # <<>> /\ Head(ready) = PostedClose /\ MustClose
  <2>1. CloseIfOpen("run", Tail(ready), "end") /\ own' = own /\ open
    BY <1>6 DEF RunOne, MustClose
  <2>2. /\ cancelStarted' = TRUE /\ put' \in BOOLEAN /\ open' \in BOOLEAN
        /\ pending' \subseteq Nat /\ IsFiniteSet(pending')
        /\ ready' \in Seq(Handlers)
        /\ stack' \in Seq({"reset", "run"})
        /\ pc' \in {"reset", "end"}
        /\ open' => stack' # <<>>
        /\ ~open' => pending' = {}
    <3>1. ready \in Seq(Handlers)
      BY <1>1 DEF Shape, Handlers
    <3>2. Tail(ready) \in Seq(Handlers)
      BY <1>6, <3>1
    <3>3. QED
      BY <1>1, <2>1, <3>2, CloseIfOpenDoes
  <2>3. Shape'
    BY <1>1, <2>1, <2>2 DEF Shape, Handlers
  <2>4. QED
    BY <1>1, <1>3, <2>1, <2>2, <2>3, ClosingKeeps
<1>7. CASE ready # <<>> /\ Head(ready) = PostedClose /\ ~MustClose
  <2>1. /\ ready' = Tail(ready)
        /\ pc' \in {"run", "end"}
        /\ UNCHANGED <<stack, own, ec, put, open, pending, cancelStarted>>
    BY <1>7 DEF RunOne
  <2>2. /\ ready' \in Seq(Handlers)
        /\ (\A i \in DOMAIN ready : ready[i].of = 0 => ready[i].res # "ok")
              => \A i \in DOMAIN ready' : ready'[i].of = 0 => ready'[i].res # "ok"
    BY <1>1, <1>7, <2>1, TailKeeps
  <2>3. Shape' /\ ~(open' /\ stack' = <<>>)
    BY <1>1, <1>2, <1>7, <2>1, <2>2 DEF Shape, Handlers
  <2>4. QED
    BY <1>1, <1>3, <1>4, <2>1, <2>2, <2>3
    DEF SoleInv, Outside, Unconnected, ClosedIdle, CloseUnderWay, OneAtATime, NoSuccess
<1>8. CASE ready # <<>> /\ Head(ready) # PostedClose
  <2>1. /\ ready' = Tail(ready)
        /\ ec' = Head(ready).res
        /\ own' = (own \/ Head(ready).of = 0)
        /\ pc' = "end"
        /\ UNCHANGED <<stack, put, open, pending, cancelStarted>>
    BY <1>8 DEF RunOne
  <2>2. /\ ready' \in Seq(Handlers)
        /\ Sole => Head(ready).of = 0 /\ Alone'
        /\ (\A i \in DOMAIN ready : ready[i].of = 0 => ready[i].res # "ok")
             => (Head(ready).of = 0 => Head(ready).res # "ok")
    BY <1>1, <1>8, <2>1, TailKeeps
  <2>3. own' \in BOOLEAN
    BY <1>1, <2>1 DEF Shape
  <2>4. Shape'
    BY <1>1, <2>1, <2>2, <2>3 DEF Shape, Handlers
  <2>5. open /\ stack = <<>> => own' /\ Alone'
    BY <1>2, <2>1, <2>2
  <2>6. outcome = "stale" /\ own' => ec' # "ok"
    BY <1>3, <2>1, <2>2
  <2>7. QED
    BY <1>1, <1>3, <1>4, <2>1, <2>4, <2>5, <2>6
    DEF SoleInv, Outside, Unconnected, ClosedIdle, CloseUnderWay, OneAtATime, NoSuccess
<1>9. QED
  BY <1>5, <1>6, <1>7, <1>8 DEF RunOne

LEMMA LoopKeeps == SoleInv /\ LoopEnds => SoleInv'
<1> SUFFICES ASSUME SoleInv, LoopEnds
             PROVE  SoleInv'
  OBVIOUS
<1>1. Shape /\ pc = "end" /\ UNCHANGED <<op, own, cancelIssued, cancelStarted>>
  BY DEF SoleInv, LoopEnds, allCancelVars
<1>2. CASE stack # <<>>
  <2>1. /\ Close(pending, ready)
        /\ pc' \in {"run", "end"}
        /\ stack' = Tail(stack)
        /\ outcome' = outcome
    BY <1>2 DEF LoopEnds
  <2>2. ready \in Seq(Handlers)
    BY <1>1 DEF Shape, Handlers
  <2>3. /\ open' = FALSE /\ put' = FALSE
        /\ pending' = {} /\ IsFiniteSet(pending')
        /\ ready' \in Seq(Handlers)
    BY <1>1, <2>1, <2>2, CloseDoes
  <2>4. stack' \in Seq({"reset", "run"})
    BY <1>1, <1>2, <2>1 DEF Shape
  <2>5. Shape'
    BY <1>1, <2>1, <2>3, <2>4 DEF Shape, Handlers
  <2>6. outcome # "stale"
    BY <1>2 DEF SoleInv, NoSuccess
  <2>7. QED
    BY <2>1, <2>3, <2>5, <2>6, ClosingKeeps
<1>3. CASE stack = <<>>
  <2>1. /\ pc' \in {"gone", "idle"}
        /\ put' = (put /\ ~(op \in {"send", "flush"} /\ ec = "ok"))
        /\ outcome' = IF ec # "ok" THEN "failed" ELSE IF own THEN "done" ELSE "stale"
        /\ UNCHANGED <<stack, ec, open, pending, ready>>
    BY <1>3 DEF LoopEnds
  <2>2. put' \in BOOLEAN
    BY <2>1, Zenon
  <2>3. Shape' /\ (Alone => Alone')
    BY <1>1, <2>1, <2>2 DEF Shape, Alone, Ends
  <2>4. outcome' = "stale" => ~open
    BY <1>1, <1>3, <2>1 DEF SoleInv, OneAtATime
  <2>5. QED
    BY <1>1, <1>3, <2>1, <2>3, <2>4
    DEF SoleInv, Outside, Unconnected, ClosedIdle, CloseUnderWay, OneAtATime, NoSuccess
<1>4. QED
  BY <1>2, <1>3

LEMMA PostKeepsSole == ASSUME NEW r \in Registries PROVE SoleInv /\ CancelPost(r) => SoleInv'
<1> SUFFICES ASSUME SoleInv, CancelPost(r)
             PROVE  SoleInv'
  OBVIOUS
<1>1. /\ ready' = Append(ready, PostedClose)
      /\ cancelStarted' = FALSE
      /\ UNCHANGED <<pc, op, stack, own, ec, put, open, pending, cancelIssued, outcome>>
  BY DEF CancelPost, threadVars
<1>2. /\ ready' \in Seq(Handlers)
      /\ Alone => Alone'
      /\ Sole => Sole'
      /\ (\A i \in DOMAIN ready : ready[i].of = 0 => ready[i].res # "ok")
           => (\A i \in DOMAIN ready' : ready'[i].of = 0 => ready'[i].res # "ok")
  BY <1>1, PostKeeps DEF SoleInv
<1>3. Shape'
  BY <1>1, <1>2 DEF SoleInv, Shape, Handlers
<1>4. QED
  BY <1>1, <1>2, <1>3
  DEF SoleInv, Outside, Unconnected, ClosedIdle, CloseUnderWay, OneAtATime, NoSuccess

LEMMA CompleteKeepsSole ==
  ASSUME NEW n \in pending
  PROVE  SoleInv /\ Complete(n) => SoleInv'
<1> SUFFICES ASSUME SoleInv, Complete(n)
             PROVE  SoleInv'
  OBVIOUS
<1>1. UNCHANGED <<pc, op, stack, own, ec, put, open, cancelIssued, cancelStarted, outcome>>
  BY DEF Complete, threadVars, allCancelVars
<1>2. /\ ready' \in Seq(Handlers)
      /\ pending' \subseteq Nat /\ IsFiniteSet(pending')
      /\ ~Alone
      /\ Sole => Sole'
  BY CompleteKeeps DEF SoleInv
<1>3. open
  BY DEF SoleInv, ClosedIdle
<1>4. Shape'
  BY <1>1, <1>2 DEF SoleInv, Shape, Handlers
<1>5. QED
  BY <1>1, <1>2, <1>3, <1>4
  DEF SoleInv, Outside, Unconnected, ClosedIdle, CloseUnderWay, OneAtATime, NoSuccess

(* The other actions leave the socket and its handlers alone. *)
LEMMA RestKeeps ==
  ASSUME SoleInv,
         UNCHANGED <<stack, own, socketVars, cancelStarted, outcome>>,
         cancelIssued' \in BOOLEAN, cancelIssued => cancelIssued',
         \/ pc' = pc
         \/ pc = "new" /\ pc' = "locked"
         \/ pc \in {"new", "idle"} /\ pc' = "dtor"
  PROVE  SoleInv'
<1>1. Shape' /\ Alone' = Alone /\ Sole' = Sole
  BY DEF SoleInv, Shape, Alone, Sole, Ends, socketVars
<1>2. QED
  BY <1>1 DEF SoleInv, Outside, Unconnected, ClosedIdle, CloseUnderWay, OneAtATime, NoSuccess,
              socketVars

LEMMA SoleStep == SoleInv /\ [Next]_vars => SoleInv'
<1> SUFFICES ASSUME SoleInv, [Next]_vars
             PROVE  SoleInv'
  OBVIOUS
<1>1. cancelIssued \in BOOLEAN
  BY DEF SoleInv, Shape
<1>2. CASE ConnectCheck \/ Leave
  BY <1>1, <1>2, RestKeeps DEF ConnectCheck, Leave, allCancelVars
<1>3. CASE Connect
  BY <1>3, ConnectKeeps
<1>4. CASE ReadOrWrite \/ Flush
  BY <1>4, BeginKeeps
<1>5. CASE ProtectedReset
  BY <1>5, ResetKeeps
<1>6. CASE RunOne
  BY <1>6, RunKeeps
<1>7. CASE LoopEnds
  BY <1>7, LoopKeeps
<1>8. ASSUME NEW r \in Registries, Unregister(r) \/ CancelBegin(r) \/ CancelFlag(r)
      PROVE  SoleInv'
  BY <1>1, <1>8, RestKeeps DEF Unregister, CancelBegin, CancelFlag, threadVars
<1>9. ASSUME NEW r \in Registries, CancelPost(r)
      PROVE  SoleInv'
  BY <1>9, PostKeepsSole
<1>10. ASSUME NEW n \in pending, Complete(n)
       PROVE  SoleInv'
  BY <1>10, CompleteKeepsSole
<1>11. CASE UNCHANGED vars
  BY <1>1, <1>11, RestKeeps DEF vars, threadVars, allCancelVars
<1>12. QED
  BY <1>2, <1>3, <1>4, <1>5, <1>6, <1>7, <1>8, <1>9, <1>10, <1>11 DEF Next, Thread, Cancel

(* After a read of bytes that are not its own, no operation succeeds any   *)
(* more (cancellable_streambuf.h:109, 152-158).                            *)
THEOREM StaleEndsTheStream == Spec => StaleIsLast
<1>1. SoleInv /\ [Next]_vars => [outcome = "stale" => outcome' \in {"stale", "failed"}]_vars
  <2> SUFFICES ASSUME SoleInv, Next, outcome = "stale"
               PROVE  outcome' \in {"stale", "failed"}
    OBVIOUS
  <2>1. CASE LoopEnds
    <3>1. stack = <<>> /\ pc = "end" /\ (own => ec # "ok")
      BY <2>1 DEF SoleInv, NoSuccess, LoopEnds
    <3>2. outcome' = IF ec # "ok" THEN "failed" ELSE IF own THEN "done" ELSE "stale"
      BY <2>1, <3>1 DEF LoopEnds
    <3>3. QED
      BY <3>1, <3>2
  <2>2. CASE ~LoopEnds
    <3>1. outcome' = outcome
      BY <2>2 DEF Next, Thread, Cancel, ConnectCheck, Connect, ReadOrWrite, Leave,
                  ProtectedReset, RunOne, Unregister, Flush, CancelBegin, CancelFlag, CancelPost,
                  Complete
    <3>2. QED
      BY <3>1
  <2>3. QED
    BY <2>1, <2>2
<1>2. QED
  BY <1>1, SoleInit, SoleStep, PTL DEF Spec, StaleIsLast

-----------------------------------------------------------------------------
(* Each close that has begun has used up a cancel: one that is posted and  *)
(* has cleared cancel_started_, or, if it is the only one, the one whose   *)
(* flag protected_reset has seen before it was posted.                     *)
Cancelling == {r \in Registries : canceller[r] # "out"}

Unused == IF cancelStarted THEN 0 ELSE 1

NoCloseReady == \A i \in DOMAIN ready : ready[i].res # "close"

Nesting ==
  /\ cancels \in 0 .. MaxCancels
  /\ IsFiniteSet(Cancelling) /\ Cardinality(Cancelling) <= cancels
  /\ cancelIssued => cancels > 0
  /\ posted => Len(stack) + Unused + Cardinality(Cancelling) <= cancels
  /\ ~posted => /\ NoCloseReady
                /\ stack = <<>> \/ (stack = <<"reset">> /\ cancelStarted /\ cancelIssued)

LEMMA NestingInit == Init => Nesting
<1> SUFFICES ASSUME Init
             PROVE  Nesting
  OBVIOUS
<1>1. Cancelling = {}
  BY DEF Init, Cancelling
<1>2. IsFiniteSet(Cancelling) /\ Cardinality(Cancelling) = 0
  BY <1>1, FS_EmptySet
<1>3. QED
  BY <1>2, StreambufAssumption DEF Init, Nesting, NoCloseReady

(* A step of the thread, or of the socket, makes handlers ready that bear  *)
(* a result; the others were there before, for an operation that may have  *)
(* been given up since.                                                    *)
Inherits ==
  \A i \in DOMAIN ready' :
    \/ ready'[i].res \in {"ok", "error"}
    \/ \E j \in DOMAIN ready :
         ready'[i].res = ready[j].res /\ ready'[i].of \in {ready[j].of, Old}

LEMMA InheritsSame == ASSUME ready' = ready PROVE Inherits
BY DEF Inherits

LEMMA BeginInherits ==
  ASSUME Shape, NEW o, NEW isOpen \in BOOLEAN, Begin(o, isOpen)
  PROVE  Inherits
<1> DEFINE old == [i \in DOMAIN ready |-> [ready[i] EXCEPT !.of = Old]]
<1>1. ready \in Seq(Handlers) /\ DOMAIN ready = 1 .. Len(ready) /\ Len(ready) \in Nat
  <2>1. ready \in Seq(Handlers)
    BY DEF Shape, Handlers
  <2>2. QED
    BY <2>1
<1>2. \A i \in 1 .. Len(ready) : old[i] \in Handlers /\ old[i].res = ready[i].res
                                 /\ old[i].of = Old
  <2>1. TAKE i \in 1 .. Len(ready)
  <2>2. ready[i] \in Handlers /\ i \in DOMAIN ready
    BY <1>1
  <2>3. old[i] = [ready[i] EXCEPT !.of = Old]
    BY <2>2
  <2>4. QED
    BY <2>2, <2>3, OldType DEF Handlers
<1>3. old \in Seq(Handlers) /\ Len(old) = Len(ready)
  BY <1>1, <1>2
<1>4. ready' = IF isOpen THEN old ELSE Append(old, Handler(0, "error"))
  BY DEF Begin, Async
<1>5. Handler(0, "error").res = "error"
  BY DEF Handler
<1> HIDE DEF old
<1>6. CASE isOpen
  BY <1>1, <1>2, <1>3, <1>4, <1>6 DEF Inherits
<1>7. CASE ~isOpen
  <2>1. ready' = Append(old, Handler(0, "error"))
    BY <1>4, <1>7
  <2>2. \A i \in DOMAIN ready' : \/ i \in 1 .. Len(ready) /\ ready'[i] = old[i]
                                 \/ ready'[i] = Handler(0, "error")
    BY <1>1, <1>3, <2>1
  <2>3. QED
    BY <1>2, <1>5, <2>2 DEF Inherits
<1>8. QED
  BY <1>6, <1>7

LEMMA CloseInherits ==
  ASSUME Shape, NEW queue \in Seq(Handlers), Close(pending, queue),
         \A i \in DOMAIN queue : \E j \in DOMAIN ready : queue[i] = ready[j]
  PROVE  Inherits
<1>1. PICK s \in SetToSeqs(pending) :
        ready' = queue \o [i \in DOMAIN s |-> Handler(s[i], "error")]
  BY DEF Close
<1> DEFINE given == [i \in DOMAIN s |-> Handler(s[i], "error")]
<1>2. Cardinality(pending) \in Nat
  BY FS_CardinalityType DEF Shape
<1>3. DOMAIN s = 1 .. Cardinality(pending) /\ \A i \in DOMAIN s : s[i] \in Nat
  BY <1>1 DEF SetToSeqs, Shape
<1>4. \A i \in DOMAIN s : given[i] \in Handlers /\ given[i].res = "error"
  BY <1>3 DEF Handler, Handlers
<1>5. given \in Seq(Handlers) /\ DOMAIN given = 1 .. Len(given)
      /\ \A i \in 1 .. Len(given) : given[i].res = "error"
  BY <1>2, <1>3, <1>4
<1> HIDE DEF given
<1>7. \A i \in DOMAIN ready' : \/ i \in DOMAIN queue /\ ready'[i] = queue[i]
                               \/ \E j \in 1 .. Len(given) : ready'[i] = given[j]
  <2>1. ready' = queue \o given
    BY <1>1 DEF given
  <2>2. /\ Len(queue) \in Nat /\ Len(given) \in Nat
        /\ DOMAIN queue = 1 .. Len(queue)
        /\ DOMAIN ready' = 1 .. Len(queue) + Len(given)
        /\ \A i \in 1 .. Len(queue) : ready'[i] = queue[i]
        /\ \A i \in Len(queue) + 1 .. Len(queue) + Len(given) : ready'[i] = given[i - Len(queue)]
    BY <1>5, <2>1
  <2>3. \A i \in Len(queue) + 1 .. Len(queue) + Len(given) : i - Len(queue) \in 1 .. Len(given)
    BY <2>2
  <2>4. QED
    BY <2>2, <2>3
<1>8. QED
  BY <1>5, <1>7 DEF Inherits

LEMMA TailInherits ==
  ASSUME Shape, ready # <<>>, ready' = Tail(ready)
  PROVE  Inherits
<1>1. ready \in Seq(Handlers)
  BY DEF Shape, Handlers
<1>2. /\ Len(ready) \in Nat \ {0}
      /\ DOMAIN ready = 1 .. Len(ready)
      /\ 1 \in DOMAIN ready /\ Head(ready) = ready[1]
      /\ DOMAIN ready' = 1 .. Len(ready) - 1
      /\ \A i \in 1 .. Len(ready) - 1 : ready'[i] = ready[i + 1]
  BY <1>1
<1>3. \A i \in DOMAIN ready' : i + 1 \in DOMAIN ready /\ ready'[i] = ready[i + 1]
  BY <1>2
<1>4. QED
  BY <1>3 DEF Inherits

LEMMA CompleteInherits ==
  ASSUME Shape, NEW n \in pending, Complete(n)
  PROVE  Inherits
<1>1. PICK res \in {"ok", "error"} : ready' = Append(ready, Handler(n, res))
  BY DEF Complete
<1>2. Handler(n, res) \in Handlers /\ Handler(n, res).res \in {"ok", "error"}
  BY DEF Handler, Handlers, Shape
<1>3. ready \in Seq(Handlers)
  BY DEF Shape, Handlers
<1>4. \A i \in DOMAIN ready' : \/ i \in DOMAIN ready /\ ready'[i] = ready[i]
                               \/ ready'[i] = Handler(n, res)
  BY <1>1, <1>2, <1>3
<1>5. QED
  BY <1>2, <1>4 DEF Inherits

(* So, without a posted close, none appears.                               *)
LEMMA InheritsNoClose == Inherits /\ NoCloseReady => NoCloseReady'
BY DEF Inherits, NoCloseReady

(* Without a cancel a step changes the stack, the flag and the queue only. *)
LEMMA NestingSame ==
  ASSUME Nesting, Shape, UNCHANGED <<canceller, cancels, posted, cancelIssued>>,
         Inherits,
         \/ stack' = stack /\ (cancelStarted' = cancelStarted \/ cancelStarted' = TRUE)
         \/ stack # <<>> /\ stack' = Tail(stack) /\ cancelStarted' = cancelStarted
  PROVE  Nesting'
<1>0. NoCloseReady => NoCloseReady'
  BY InheritsNoClose
<1>1. Cancelling' = Cancelling
  BY DEF Cancelling
<1>2. stack \in Seq({"reset", "run"}) /\ cancelStarted \in BOOLEAN
  BY DEF Shape
<1>3. CASE stack' = stack /\ (cancelStarted' = cancelStarted \/ cancelStarted' = TRUE)
  <2>1. Unused' \in {0, 1} /\ Unused' <= Unused /\ Unused \in {0, 1}
    BY <1>2, <1>3 DEF Unused
  <2>2. Len(stack) \in Nat /\ Cardinality(Cancelling) \in Nat /\ cancels \in Nat
    BY <1>2, FS_CardinalityType DEF Nesting
  <2>3. posted => Len(stack') + Unused' + Cardinality(Cancelling) <= cancels
    BY <1>3, <2>1, <2>2 DEF Nesting
  <2>4. QED
    BY <1>0, <1>1, <1>2, <1>3, <2>3 DEF Nesting
<1>4. CASE stack # <<>> /\ stack' = Tail(stack) /\ cancelStarted' = cancelStarted
  <2>1. Len(stack') = Len(stack) - 1 /\ Len(stack) \in Nat
    BY <1>2, <1>4
  <2>2. Unused' = Unused /\ Unused \in {0, 1}
    BY <1>4 DEF Unused
  <2>3. Cardinality(Cancelling) \in Nat /\ cancels \in Nat
    BY FS_CardinalityType DEF Nesting
  <2>4. posted => Len(stack') + Unused' + Cardinality(Cancelling) <= cancels
    BY <2>1, <2>2, <2>3 DEF Nesting
  <2>5. ~posted => stack' = <<>>
    <3>1. ~posted => stack = <<"reset">>
      BY <1>4 DEF Nesting
    <3>2. Tail(<<"reset">>) = <<>>
      OBVIOUS
    <3>3. QED
      BY <1>4, <3>1, <3>2
  <2>6. QED
    BY <1>0, <1>1, <2>4, <2>5 DEF Nesting
<1>5. QED
  BY <1>3, <1>4

(* A close begins: there is a cancel that has not been used up.            *)
LEMMA NestingGrows ==
  ASSUME Nesting, Shape, FlagFirst, NEW place \in {"reset", "run"}, NEW queue, NEW next,
         MustClose, CloseIfOpen(place, queue, next),
         UNCHANGED <<canceller, cancels, posted, cancelIssued>>,
         posted \/ (place = "reset" /\ queue = ready /\ cancelIssued)
  PROVE  Nesting'
<1>1. cancelStarted = FALSE /\ open = TRUE /\ cancelStarted' = TRUE
  BY DEF MustClose, CloseIfOpen, Shape
<1>2. CASE ~put
  <2>1. stack' = stack /\ Close(pending, queue)
    BY <1>2 DEF CloseIfOpen
  <2>2. CASE posted
    <3>1. Cancelling' = Cancelling /\ Unused' = 0 /\ Unused = 1
      BY <1>1 DEF Cancelling, Unused
    <3>2. Len(stack) \in Nat /\ Cardinality(Cancelling) \in Nat /\ cancels \in Nat
      BY FS_CardinalityType DEF Nesting, Shape
    <3>3. Len(stack') + Unused' + Cardinality(Cancelling') <= cancels
      BY <2>1, <2>2, <3>1, <3>2 DEF Nesting
    <3>4. QED
      BY <2>2, <3>1, <3>3 DEF Nesting
  <2>3. CASE ~posted
    BY <1>1, <2>1, <2>3, NestingSame, CloseInherits DEF Shape, Handlers
  <2>4. QED
    BY <2>2, <2>3
<1>3. CASE put
  <2>1. stack' = <<place>> \o stack /\ Async(Len(stack) + 1, open, pending, queue)
    BY <1>3 DEF CloseIfOpen
  <2>2. ready' = queue
    BY <1>1, <2>1 DEF Async
  <2>3. Cancelling' = Cancelling /\ Unused' = 0 /\ Unused = 1
    BY <1>1 DEF Cancelling, Unused
  <2>4. CASE posted
    <3>1. Len(stack') = Len(stack) + 1 /\ Len(stack) \in Nat
      <4>1. stack \in Seq({"reset", "run"}) /\ <<place>> \in Seq({"reset", "run"})
        BY DEF Shape
      <4>2. QED
        BY <2>1, <4>1
    <3>2. Cardinality(Cancelling) \in Nat /\ cancels \in Nat
      BY FS_CardinalityType DEF Nesting
    <3>3. Len(stack') + Unused' + Cardinality(Cancelling') <= cancels
      BY <2>3, <2>4, <3>1, <3>2 DEF Nesting
    <3>4. QED
      BY <2>3, <2>4, <3>3 DEF Nesting
  <2>5. CASE ~posted
    <3>1. stack = <<>> /\ NoCloseReady
      BY <1>1, <2>5 DEF Nesting
    <3>2. stack' = <<"reset">>
      <4>1. <<"reset">> \o <<>> = <<"reset">>
        OBVIOUS
      <4>2. QED
        BY <2>1, <2>5, <3>1, <4>1
    <3>3. NoCloseReady'
      BY <2>2, <2>5, <3>1 DEF NoCloseReady
    <3>4. QED
      BY <1>1, <2>3, <2>5, <3>2, <3>3 DEF Nesting
  <2>6. QED
    BY <2>4, <2>5
<1>4. QED
  BY <1>2, <1>3 DEF Shape

(* The steps of the thread.                                                *)
LEMMA NestingThread == ASSUME SoleInv, FlagFirst, Nesting, Thread PROVE Nesting'
<1> Shape
  BY DEF SoleInv
<1>1. CASE ConnectCheck \/ Leave \/ \E r \in Registries : Unregister(r)
  <2>1. UNCHANGED <<stack, ready, cancelStarted, canceller, cancels, posted, cancelIssued>>
    <3>1. CASE ConnectCheck \/ Leave
      BY <3>1 DEF ConnectCheck, Leave, socketVars, allCancelVars, cancelVars
    <3>2. ASSUME NEW r \in Registries, Unregister(r)
          PROVE  UNCHANGED <<stack, ready, cancelStarted, canceller, cancels, posted, cancelIssued>>
      BY <3>2 DEF Unregister, threadVars, socketVars
    <3>3. QED
      BY <1>1, <3>1, <3>2
  <2>2. QED
    BY <2>1, NestingSame, InheritsSame
<1>2. CASE Connect \/ ReadOrWrite \/ Flush
  <2>1. UNCHANGED <<stack, cancelStarted, canceller, cancels, posted, cancelIssued>>
    BY <1>2 DEF Connect, ReadOrWrite, Flush, allCancelVars, cancelVars
  <2>2. \/ ready' = ready
        \/ \E o \in {"connect", "recv", "send", "flush"}, isOpen \in BOOLEAN : Begin(o, isOpen)
    BY <1>2 DEF Connect, ReadOrWrite, Flush, Shape
  <2>3. Inherits
    BY <2>2, BeginInherits, InheritsSame
  <2>4. QED
    BY <2>1, <2>3, NestingSame
<1>3. CASE ProtectedReset
  <2>1. UNCHANGED <<canceller, cancels, posted, cancelIssued>>
    BY <1>3 DEF ProtectedReset, cancelVars
  <2>2. CASE cancelIssued /\ MustClose
    <3>1. CloseIfOpen("reset", ready, "run")
      BY <1>3, <2>2 DEF ProtectedReset
    <3>2. QED
      BY <2>1, <2>2, <3>1, NestingGrows
  <2>3. CASE ~(cancelIssued /\ MustClose)
    BY <1>3, <2>1, <2>3, NestingSame, InheritsSame DEF ProtectedReset, socketVars
  <2>4. QED
    BY <2>2, <2>3
<1>4. CASE RunOne
  <2>1. UNCHANGED <<canceller, cancels, posted, cancelIssued>>
    BY <1>4 DEF RunOne, cancelVars
  <2>2. CASE ready # <<>> /\ Head(ready) = PostedClose /\ MustClose
    <3>1. CloseIfOpen("run", Tail(ready), "end")
      BY <1>4, <2>2 DEF RunOne
    <3>2. posted
      <4>1. 1 \in DOMAIN ready /\ Head(ready) = ready[1]
        BY <2>2 DEF Shape
      <4>2. PostedClose.res = "close"
        BY DEF PostedClose
      <4>3. QED
        BY <2>2, <4>1, <4>2 DEF Nesting, NoCloseReady
    <3>3. QED
      BY <2>1, <2>2, <3>1, <3>2, NestingGrows
  <2>3. CASE ~(ready # <<>> /\ Head(ready) = PostedClose /\ MustClose)
    <3>1. stack' = stack /\ cancelStarted' = cancelStarted
      BY <1>4, <2>3 DEF RunOne
    <3>2. ready' = ready \/ (ready # <<>> /\ ready' = Tail(ready))
      BY <1>4, <2>3 DEF RunOne, socketVars
    <3>3. Inherits
      BY <3>2, TailInherits, InheritsSame
    <3>4. QED
      BY <2>1, <3>1, <3>3, NestingSame
  <2>4. QED
    BY <2>2, <2>3
<1>5. CASE LoopEnds
  <2>1. UNCHANGED <<canceller, cancels, posted, cancelIssued, cancelStarted>>
    BY <1>5 DEF LoopEnds, allCancelVars, cancelVars
  <2>2. CASE stack # <<>>
    <3>1. Close(pending, ready) /\ stack' = Tail(stack)
      BY <1>5, <2>2 DEF LoopEnds
    <3>2. QED
      BY <2>1, <2>2, <3>1, CloseInherits, NestingSame DEF Shape, Handlers
  <2>3. CASE stack = <<>>
    BY <1>5, <2>1, <2>3, NestingSame, InheritsSame DEF LoopEnds
  <2>4. QED
    BY <2>2, <2>3
<1>6. QED
  BY <1>1, <1>2, <1>3, <1>4, <1>5 DEF Thread

(* The steps of a cancel.                                                  *)
LEMMA NestingCancel ==
  ASSUME SoleInv, CancelInv, Nesting, NEW r \in Registries, CancelBegin(r) \/ Cancel(r)
  PROVE  Nesting'
<1>1. Len(stack) \in Nat /\ Cardinality(Cancelling) \in Nat /\ cancels \in Nat
  BY FS_CardinalityType DEF Nesting, SoleInv, Shape
<1>2. canceller \in [Registries -> {"out", "flag", "post"}]
  BY DEF CancelInv
<1>3. CASE CancelBegin(r)
  <2>1. Cancelling' = Cancelling \cup {r} /\ r \notin Cancelling
    BY <1>2, <1>3 DEF CancelBegin, Cancelling
  <2>2. IsFiniteSet(Cancelling') /\ Cardinality(Cancelling') = Cardinality(Cancelling) + 1
    BY <2>1, FS_AddElement DEF Nesting
  <2>3. /\ cancels < MaxCancels /\ cancels' = cancels + 1
        /\ UNCHANGED <<stack, ready, cancelStarted, posted, cancelIssued>>
    BY <1>3 DEF CancelBegin, threadVars, socketVars
  <2>4. Unused' = Unused /\ Unused \in {0, 1} /\ NoCloseReady' = NoCloseReady
    BY <2>3 DEF Unused, NoCloseReady
  <2>5. cancels' \in 0 .. MaxCancels
    BY <1>1, <2>3, StreambufAssumption
  <2>6. posted' => Len(stack') + Unused' + Cardinality(Cancelling') <= cancels'
    BY <1>1, <2>2, <2>3, <2>4 DEF Nesting
  <2>7. QED
    BY <1>1, <2>2, <2>3, <2>4, <2>5, <2>6 DEF Nesting
<1>4. CASE CancelFlag(r)
  <2>1. /\ canceller[r] = "flag" /\ canceller' = [canceller EXCEPT ![r] = "post"]
        /\ cancelIssued' = TRUE
        /\ UNCHANGED <<stack, ready, cancelStarted, cancels, posted>>
    BY <1>4 DEF CancelFlag, threadVars, socketVars
  <2>2. Cancelling' = Cancelling /\ r \in Cancelling
    BY <1>2, <2>1 DEF Cancelling
  <2>3. cancels > 0
    <3>1. Cancelling # {} => Cardinality(Cancelling) # 0
      BY FS_EmptySet DEF Nesting
    <3>2. QED
      BY <1>1, <2>2, <3>1 DEF Nesting
  <2>4. Unused' = Unused /\ NoCloseReady' = NoCloseReady
    BY <2>1 DEF Unused, NoCloseReady
  <2>5. QED
    BY <2>1, <2>2, <2>3, <2>4 DEF Nesting
<1>5. CASE CancelPost(r)
  <2>1. /\ canceller[r] = "post" /\ canceller' = [canceller EXCEPT ![r] = "out"] /\ ~Locked
        /\ cancelStarted' = FALSE /\ posted' = TRUE
        /\ UNCHANGED <<stack, cancels, cancelIssued>>
    BY <1>5 DEF CancelPost, threadVars
  <2>2. Cancelling' = Cancelling \ {r} /\ r \in Cancelling
    BY <1>2, <2>1 DEF Cancelling
  <2>3. IsFiniteSet(Cancelling') /\ Cardinality(Cancelling') = Cardinality(Cancelling) - 1
    BY <2>2, FS_RemoveElement DEF Nesting
  <2>4. Unused' = 1 /\ Unused \in {0, 1}
    BY <2>1 DEF Unused
  <2>5. ~posted => Len(stack) = 0
    <3>1. ~posted => stack # <<"reset">>
      <4>1. DOMAIN <<"reset">> = {1} /\ <<"reset">>[1] = "reset"
        OBVIOUS
      <4>2. QED
        BY <2>1, <4>1 DEF Locked
    <3>2. QED
      BY <3>1 DEF Nesting
  <2>6. Len(stack') + Unused' + Cardinality(Cancelling') <= cancels'
    BY <1>1, <2>1, <2>3, <2>4, <2>5 DEF Nesting
  <2>7. Cardinality(Cancelling') <= cancels'
    BY <1>1, <2>1, <2>3 DEF Nesting
  <2>8. QED
    BY <2>1, <2>3, <2>6, <2>7 DEF Nesting
<1>6. QED
  BY <1>3, <1>4, <1>5 DEF Cancel

LEMMA NestingStep == SoleInv /\ CancelInv /\ Nesting /\ [Next]_vars => Nesting'
<1> SUFFICES ASSUME SoleInv, CancelInv, Nesting, [Next]_vars
             PROVE  Nesting'
  OBVIOUS
<1>1. CASE Thread
  BY <1>1, NestingThread DEF CancelInv
<1>2. CASE \E r \in Registries : CancelBegin(r) \/ Cancel(r)
  BY <1>2, NestingCancel
<1>3. ASSUME NEW n \in pending, Complete(n)
      PROVE  Nesting'
  <2>1. UNCHANGED <<stack, cancelStarted, canceller, cancels, posted, cancelIssued>>
    BY <1>3 DEF Complete, threadVars, allCancelVars, cancelVars
  <2>2. Inherits
    BY <1>3, CompleteInherits DEF SoleInv
  <2>3. QED
    BY <2>1, <2>2, NestingSame DEF SoleInv
<1>4. CASE UNCHANGED vars
  BY <1>4, NestingSame, InheritsSame
     DEF vars, threadVars, socketVars, allCancelVars, cancelVars, SoleInv
<1>5. QED
  BY <1>1, <1>2, <1>3, <1>4 DEF Next

LEMMA AlwaysNesting == Spec => [](SoleInv /\ CancelInv /\ Nesting)
BY SoleInit, SoleStep, CancelInit, CancelStep, NestingInit, NestingStep, PTL DEF Spec

(* However often close() is entered again inside its own run_one(), it is  *)
(* so at most once for each cancel (cancellable_streambuf.h:67-72,         *)
(* 123-128).                                                               *)
THEOREM AlwaysNestsWithinCancels == Spec => []NestsWithinCancels
<1>1. SoleInv /\ Nesting => NestsWithinCancels
  <2> SUFFICES ASSUME SoleInv, Nesting
               PROVE  Len(stack) <= cancels
    BY DEF NestsWithinCancels
  <2>1. Len(stack) \in Nat /\ Cardinality(Cancelling) \in Nat /\ cancels \in Nat
    BY FS_CardinalityType DEF Nesting, SoleInv, Shape
  <2>2. CASE posted
    BY <2>1, <2>2 DEF Nesting, Unused
  <2>3. CASE ~posted /\ stack = <<>>
    BY <2>1, <2>3
  <2>4. CASE ~posted /\ stack = <<"reset">> /\ cancelStarted /\ cancelIssued
    <3>1. Len(stack) = 1
      BY <2>4
    <3>2. cancels > 0
      BY <2>4 DEF Nesting
    <3>3. QED
      BY <2>1, <3>1, <3>2
  <2>5. QED
    BY <2>2, <2>3, <2>4 DEF Nesting
<1>2. QED
  BY <1>1, AlwaysNesting, PTL

-----------------------------------------------------------------------------
(* A handler that bears no result is a posted close.                       *)
OnlyPosted == \A i \in DOMAIN ready : ready[i].res = "close" => ready[i].of = Old

LEMMA InheritsOnlyPosted == Inherits /\ OnlyPosted => OnlyPosted'
BY DEF Inherits, OnlyPosted

LEMMA CloseIfOpenInherits ==
  ASSUME Shape, NEW place, NEW queue \in Seq(Handlers), NEW next,
         open, CloseIfOpen(place, queue, next),
         \A i \in DOMAIN queue : \E j \in DOMAIN ready : queue[i] = ready[j]
  PROVE  Inherits
<1>1. CASE put
  <2>1. ready' = queue
    BY <1>1 DEF CloseIfOpen, Async
  <2>2. QED
    BY <2>1 DEF Inherits
<1>2. CASE ~put
  BY <1>2, CloseInherits DEF CloseIfOpen
<1>3. QED
  BY <1>1, <1>2 DEF Shape

LEMMA TailOfReady ==
  ASSUME Shape, ready # <<>>
  PROVE  /\ Tail(ready) \in Seq(Handlers)
         /\ \A i \in DOMAIN Tail(ready) : \E j \in DOMAIN ready : Tail(ready)[i] = ready[j]
<1>1. ready \in Seq(Handlers)
  BY DEF Shape, Handlers
<1>2. /\ Len(ready) \in Nat \ {0} /\ DOMAIN ready = 1 .. Len(ready)
      /\ Tail(ready) \in Seq(Handlers)
      /\ DOMAIN Tail(ready) = 1 .. Len(ready) - 1
      /\ \A i \in 1 .. Len(ready) - 1 : Tail(ready)[i] = ready[i + 1]
  BY <1>1
<1>3. \A i \in DOMAIN Tail(ready) : i + 1 \in DOMAIN ready /\ Tail(ready)[i] = ready[i + 1]
  BY <1>2
<1>4. QED
  BY <1>2, <1>3

(* What Shape and the other invariants leave open.                         *)
Codes == {"ok", "would_block", "error"}

Outer ==
  /\ op \in {"connect", "recv", "send", "flush"}
  /\ ec \in Codes
  /\ registered \subseteq Registries
  /\ posted \in BOOLEAN
  /\ outcome \in {"none", "done", "failed", "stale"}

StreamTyped == Outer /\ OnlyPosted

LEMMA BeginTyped ==
  ASSUME Shape, NEW o \in {"connect", "recv", "send", "flush"}, NEW isOpen \in BOOLEAN,
         Begin(o, isOpen), StreamTyped, UNCHANGED <<registered, posted, outcome>>
  PROVE  StreamTyped'
<1>1. OnlyPosted'
  BY BeginInherits, InheritsOnlyPosted DEF StreamTyped
<1>2. op' = o /\ ec' = "would_block"
  BY DEF Begin, Async
<1>3. QED
  BY <1>1, <1>2 DEF StreamTyped, Outer, Codes

LEMMA StreamThread == ASSUME SoleInv, StreamTyped, Thread PROVE StreamTyped'
<1> Shape
  BY DEF SoleInv
<1> ready \in Seq(Handlers)
  BY DEF Shape, Handlers
<1>1. CASE ConnectCheck \/ Leave
  BY <1>1 DEF ConnectCheck, Leave, socketVars, allCancelVars, cancelVars, StreamTyped, Outer,
              OnlyPosted
<1>2. ASSUME NEW r \in Registries, Unregister(r)
      PROVE  StreamTyped'
  BY <1>2 DEF Unregister, threadVars, socketVars, StreamTyped, Outer, OnlyPosted
<1>3. CASE Connect \/ ReadOrWrite \/ Flush
  <2>1. UNCHANGED <<registered, posted, outcome>>
    BY <1>3 DEF Connect, ReadOrWrite, Flush, allCancelVars, cancelVars
  <2>2. \/ ready' = ready /\ op' = op /\ ec' = ec
        \/ \E o \in {"connect", "recv", "send", "flush"}, isOpen \in BOOLEAN : Begin(o, isOpen)
    BY <1>3 DEF Connect, ReadOrWrite, Flush, Shape
  <2>3. QED
    BY <2>1, <2>2, BeginTyped DEF StreamTyped, Outer, OnlyPosted
<1>4. ASSUME NEW place, NEW queue \in Seq(Handlers), NEW next, MustClose,
             CloseIfOpen(place, queue, next), UNCHANGED <<op, registered, posted, outcome>>,
             \A i \in DOMAIN queue : \E j \in DOMAIN ready : queue[i] = ready[j]
      PROVE  StreamTyped'
  <2>1. OnlyPosted'
    BY <1>4, CloseIfOpenInherits, InheritsOnlyPosted DEF StreamTyped, MustClose
  <2>2. ec' \in Codes
    BY <1>4 DEF CloseIfOpen, Async, Close, Codes
  <2>3. QED
    BY <1>4, <2>1, <2>2 DEF StreamTyped, Outer
<1>5. CASE ProtectedReset
  <2>1. UNCHANGED <<op, registered, posted, outcome>>
    BY <1>5 DEF ProtectedReset, cancelVars
  <2>2. CASE cancelIssued /\ MustClose
    BY <1>4, <1>5, <2>1, <2>2 DEF ProtectedReset
  <2>3. CASE ~(cancelIssued /\ MustClose)
    BY <1>5, <2>1, <2>3 DEF ProtectedReset, socketVars, StreamTyped, Outer, OnlyPosted
  <2>4. QED
    BY <2>2, <2>3
<1>6. CASE RunOne
  <2>1. UNCHANGED <<op, registered, posted, outcome>>
    BY <1>6 DEF RunOne, cancelVars
  <2>2. CASE ready = <<>>
    BY <1>6, <2>1, <2>2 DEF RunOne, socketVars, StreamTyped, Outer, OnlyPosted
  <2>3. CASE ready # <<>> /\ Head(ready) = PostedClose /\ MustClose
    <3>1. CloseIfOpen("run", Tail(ready), "end")
      BY <1>6, <2>3 DEF RunOne
    <3>2. QED
      BY <1>4, <2>1, <2>3, <3>1, TailOfReady
  <2>4. CASE ready # <<>> /\ ~(Head(ready) = PostedClose /\ MustClose)
    <3>1. ready' = Tail(ready)
      BY <1>6, <2>4 DEF RunOne
    <3>2. OnlyPosted'
      BY <2>4, <3>1, TailInherits, InheritsOnlyPosted DEF StreamTyped
    <3>3. ec' \in Codes
      <4>1. CASE Head(ready) = PostedClose
        <5>1. ec' = ec
          BY <1>6, <2>4, <4>1 DEF RunOne
        <5>2. QED
          BY <5>1 DEF StreamTyped, Outer
      <4>2. CASE Head(ready) # PostedClose
        <5>1. ec' = Head(ready).res
          BY <1>6, <2>4, <4>2 DEF RunOne
        <5>2. Head(ready) \in Handlers /\ Head(ready) = ready[1] /\ 1 \in DOMAIN ready
          BY <2>4
        <5>3. Head(ready).res # "close"
          BY <4>2, <5>2 DEF StreamTyped, OnlyPosted, PostedClose, Handlers
        <5>4. QED
          BY <5>1, <5>2, <5>3 DEF Handlers, Codes
      <4>3. QED
        BY <4>1, <4>2
    <3>4. QED
      BY <2>1, <3>2, <3>3 DEF StreamTyped, Outer
  <2>5. QED
    BY <2>2, <2>3, <2>4
<1>7. CASE LoopEnds
  <2>1. UNCHANGED <<op, registered, posted>>
    BY <1>7 DEF LoopEnds, allCancelVars, cancelVars
  <2>2. outcome' \in {outcome, "none", "done", "failed", "stale"}
    BY <1>7 DEF LoopEnds
  <2>3. OnlyPosted' /\ ec' \in Codes
    <3>1. CASE stack # <<>>
      <4>1. Close(pending, ready)
        BY <1>7, <3>1 DEF LoopEnds
      <4>2. ec' \in Codes
        BY <4>1 DEF Close, Codes
      <4>3. QED
        BY <4>1, <4>2, CloseInherits, InheritsOnlyPosted DEF StreamTyped
    <3>2. CASE stack = <<>>
      BY <1>7, <3>2 DEF LoopEnds, StreamTyped, Outer, OnlyPosted
    <3>3. QED
      BY <3>1, <3>2
  <2>4. QED
    BY <2>1, <2>2, <2>3 DEF StreamTyped, Outer
<1>8. QED
  BY <1>1, <1>2, <1>3, <1>5, <1>6, <1>7 DEF Thread

LEMMA StreamStep == ASSUME SoleInv, StreamTyped, [Next]_vars PROVE StreamTyped'
<1>1. CASE Thread
  BY <1>1, StreamThread
<1>2. ASSUME NEW r \in Registries, CancelBegin(r) \/ CancelFlag(r)
      PROVE  StreamTyped'
  BY <1>2 DEF CancelBegin, CancelFlag, threadVars, socketVars, StreamTyped, Outer, OnlyPosted
<1>3. ASSUME NEW r \in Registries, CancelPost(r)
      PROVE  StreamTyped'
  <2>1. /\ ready' = Append(ready, PostedClose) /\ posted' = TRUE
        /\ UNCHANGED <<op, ec, registered, outcome>>
    BY <1>3 DEF CancelPost, threadVars
  <2>2. PostedClose \in Handlers /\ PostedClose.of = Old
    BY OldType DEF PostedClose, Handlers
  <2>3. ready \in Seq(Handlers)
    BY DEF SoleInv, Shape, Handlers
  <2>4. \A i \in DOMAIN ready' : \/ i \in DOMAIN ready /\ ready'[i] = ready[i]
                                 \/ ready'[i] = PostedClose
    BY <2>1, <2>2, <2>3
  <2>5. OnlyPosted'
    BY <2>2, <2>4 DEF StreamTyped, OnlyPosted
  <2>6. QED
    BY <2>1, <2>5 DEF StreamTyped, Outer
<1>4. ASSUME NEW n \in pending, Complete(n)
      PROVE  StreamTyped'
  <2>1. OnlyPosted'
    BY <1>4, CompleteInherits, InheritsOnlyPosted DEF StreamTyped, SoleInv
  <2>2. QED
    BY <1>4, <2>1
       DEF Complete, threadVars, allCancelVars, cancelVars, StreamTyped, Outer
<1>5. CASE UNCHANGED vars
  BY <1>5
     DEF vars, threadVars, socketVars, allCancelVars, cancelVars, StreamTyped, Outer, OnlyPosted
<1>6. QED
  BY <1>1, <1>2, <1>3, <1>4, <1>5 DEF Next, Cancel

(* The variables of the buffer have their types: the flag of a cancel, the *)
(* error code and the handlers of the io_service                           *)
(* (cancellable_streambuf.h:224-230).                                      *)
THEOREM StreambufTypeCorrect == Spec => []TypeOK
<1>1. Init => StreamTyped
  <2>1. Init => OnlyPosted
    BY DEF Init, OnlyPosted
  <2>2. Init => Outer
    BY DEF Init, Outer, Codes
  <2>3. QED
    BY <2>1, <2>2 DEF StreamTyped
<1>2. SoleInv /\ CancelInv /\ Nesting /\ StreamTyped => TypeOK
  BY DEF SoleInv, Shape, CancelInv, Nesting, StreamTyped, Outer, Codes, TypeOK
<1>3. SoleInv /\ StreamTyped /\ [Next]_vars => StreamTyped'
  BY StreamStep
<1>4. QED
  BY <1>1, <1>2, <1>3, AlwaysNesting, PTL DEF Spec

-----------------------------------------------------------------------------
(* An answer names a host and a query that its stream matches.             *)
AnswersMatch == \A m \in replies : m.host \in Hosts /\ m.id \in Matches[m.host]

ResultInv == AnswersMatch /\ ResultsOfQuery

LEMMA ResultInit == ResolverInit => ResultInv
BY DEF ResolverInit, UdpInit, ResultInv, AnswersMatch, ResultsOfQuery

(* The hosts answer what matches, whatever the resolver does meanwhile.    *)
LEMMA HostStep ==
  ASSUME AnswersMatch, UdpServerNext
  PROVE  AnswersMatch'
<1>1. ASSUME NEW h \in Hosts, HostHandle(h)
      PROVE  AnswersMatch'
  <2> DEFINE answer == [host |-> h, id |-> packet[h].query, port |-> packet[h].port]
  <2>1. CASE packet[h].query \in Matches[h]
    <3>1. replies' \subseteq replies \cup {answer}
      BY <1>1, <2>1 DEF HostHandle, Answered
    <3>2. answer.host \in Hosts /\ answer.id \in Matches[answer.host]
      BY <2>1
    <3>3. QED
      BY <3>1, <3>2 DEF AnswersMatch
  <2>2. CASE packet[h].query \notin Matches[h]
    <3>1. replies' = replies
      BY <1>1, <2>2 DEF HostHandle
    <3>2. QED
      BY <3>1 DEF AnswersMatch
  <2>3. QED
    BY <2>1, <2>2
<1>2. ASSUME NEW h \in Hosts,
             \/ \E r \in requests : HostReceive(h, r)
             \/ HostSent(h) \/ HostNext(h) \/ HostAborted(h) \/ EndServing(h) \/ CloseSocket(h)
      PROVE  AnswersMatch'
  <2>1. replies' = replies
    BY <1>2 DEF HostReceive, HostSent, HostNext, HostAborted, EndServing, CloseSocket
  <2>2. QED
    BY <2>1 DEF AnswersMatch
<1>3. QED
  BY <1>1, <1>2 DEF UdpServerNext, Host

LEMMA ResultStep == ResultInv /\ [ResolverNext]_rvars => ResultInv'
<1> SUFFICES ASSUME ResultInv, [ResolverNext]_rvars
             PROVE  ResultInv'
  OBVIOUS
<1> DEFINE SameResults == results' = results /\ plan' = plan /\ calls' = calls
<1>1. SameResults => ResultsOfQuery'
  BY DEF ResultInv, ResultsOfQuery, Call
<1>2. replies' = replies => AnswersMatch'
  BY DEF ResultInv, AnswersMatch
<1>3. CASE UdpServerNext /\ UNCHANGED resolverVars
  <2>1. SameResults
    BY <1>3 DEF resolverVars, callVars
  <2>2. QED
    BY <1>1, <1>3, <2>1, HostStep DEF ResultInv
<1>4. CASE Resolve
  <2>1. replies' = replies /\ results' = {}
    BY <1>4 DEF Resolve, udpVars
  <2>2. QED
    BY <1>2, <2>1 DEF ResultInv, ResultsOfQuery
<1>5. CASE ThreadStep
  <2>1. replies' = replies
    BY <1>5 DEF ThreadStep, Wave, Burst, Own, SetTimers, Check, RunReturns, Destroyed, udpVars
  <2>2. SameResults
    BY <1>5 DEF ThreadStep, Wave, Burst, Own, SetTimers, Check, RunReturns, Destroyed, callVars
  <2>3. QED
    BY <1>1, <1>2, <2>1, <2>2 DEF ResultInv
<1>6. ASSUME NEW t \in Timers, Expires(t) \/ TimerHandler(t) \/ CancelTimer(t)
      PROVE  ResultInv'
  <2>1. replies' = replies /\ SameResults
    BY <1>6 DEF Expires, TimerHandler, CancelTimer, udpVars, callVars
  <2>2. QED
    BY <1>1, <1>2, <2>1 DEF ResultInv
<1>7. ASSUME NEW a \in Attempts, DoCancel(a) \/ Release(a)
      PROVE  ResultInv'
  <2>1. replies' = replies /\ SameResults
    BY <1>7 DEF DoCancel, Release, udpVars, callVars
  <2>2. QED
    BY <1>1, <1>2, <2>1 DEF ResultInv
<1>8. ASSUME NEW a \in Attempts, NEW m \in replies, Receive(a, m)
      PROVE  ResultInv'
  <2>1. /\ replies' = replies /\ plan' = plan /\ calls' = calls
        /\ results' = results \cup {m.host} /\ m.id = Call.query
    BY <1>8 DEF Receive, udpVars, callVars
  <2>2. Call.query \in Matches[m.host]
    BY <2>1 DEF ResultInv, AnswersMatch
  <2>3. ResultsOfQuery'
    BY <2>1, <2>2 DEF ResultInv, ResultsOfQuery, Call
  <2>4. QED
    BY <1>2, <2>1, <2>3 DEF ResultInv
<1>9. ASSUME NEW h \in Hosts, Forget(h)
      PROVE  ResultInv'
  <2>1. /\ replies' = replies /\ plan' = plan /\ calls' = calls
        /\ results' \subseteq results
    BY <1>9 DEF Forget, udpVars, callVars
  <2>2. ResultsOfQuery'
    BY <2>1 DEF ResultInv, ResultsOfQuery, Call
  <2>3. QED
    BY <1>2, <2>1, <2>2 DEF ResultInv
<1>10. CASE WaitPasses \/ SetCancelled \/ CancellingStep
  <2>1. replies' = replies /\ SameResults
    BY <1>10 DEF WaitPasses, SetCancelled, CancellingStep, CancelExpire, CancelAll, Join, udpVars,
                 callVars
  <2>2. QED
    BY <1>1, <1>2, <2>1 DEF ResultInv
<1>11. CASE UNCHANGED rvars
  <2>1. replies' = replies /\ SameResults
    BY <1>11 DEF rvars, udpVars, resolverVars, callVars
  <2>2. QED
    BY <1>1, <1>2, <2>1 DEF ResultInv
<1>12. QED
  BY <1>3, <1>4, <1>5, <1>6, <1>7, <1>8, <1>9, <1>10, <1>11 DEF ResolverNext

(* Whatever answers to earlier queries still arrive, and to whichever port,*)
(* what is found matches the query of the call                             *)
(* (resolve_attempt_udp.cpp:109-113, udp_server.cpp:113-130).              *)
THEOREM ResultsAlwaysOfQuery == ResolverInit /\ [][ResolverNext]_rvars => []ResultsOfQuery
<1>1. ResultInv => ResultsOfQuery
  BY DEF ResultInv
<1>2. QED
  BY <1>1, ResultInit, ResultStep, PTL

-----------------------------------------------------------------------------
(* The natural numbers are well ordered.                                   *)
LEMMA LeastNat ==
  ASSUME NEW T, T \subseteq Nat, T # {}
  PROVE  \E x \in T : \A y \in T : x <= y
<1> DEFINE R == OpToRel(<, Nat)
<1>1. IsWellFoundedOn(R, Nat)
  BY NatLessThanWellFounded
<1>2. \A x, y \in Nat : <<y, x>> \in R <=> y < x
  BY DEF OpToRel
<1> HIDE DEF R
<1>3. PICK x \in T : \A y \in T : ~(<<y, x>> \in R)
  BY <1>1, WFMin
<1>4. \A y \in T : x <= y
  <2>1. TAKE y \in T
  <2>2. x \in Nat /\ y \in Nat
    BY <1>3
  <2>3. ~(y < x)
    BY <1>2, <1>3, <2>2
  <2>4. QED
    BY <2>2, <2>3
<1>5. QED
  BY <1>3, <1>4

(* The attempts: one at a time is being constructed or destroyed, by the   *)
(* resolving thread.                                                       *)
AttTyped ==
  att \in [Attempts -> [pc : {"none", "bare", "open", "closed", "dying"},
                        port : Ports \cup {0}, posted : BOOLEAN]]

Constructing == rpc \in {"own", "ownUnicast"}

AttInv ==
  /\ AttTyped
  /\ \A a \in Attempts : att[a].posted => att[a].pc # "none"
  /\ \A a \in Attempts : att[a].pc = "bare" => Constructing
  /\ \A a, b \in Attempts : att[a].pc = "bare" /\ att[b].pc = "bare" => a = b
  /\ \A a \in Attempts : att[a].pc = "dying" => rpc = "destroy"

(* An attempt in use is closed, or a cancel is posted to it, at most.      *)
LEMMA AttKeeps ==
  ASSUME AttInv, AttTyped', rpc' = rpc \/ (~Constructing /\ rpc # "destroy"),
         \A a \in Attempts :
           /\ att'[a].port = att[a].port
           /\ \/ att'[a].pc = att[a].pc
              \/ att[a].pc \in {"open", "closed"} /\ att'[a].pc = "closed"
           /\ att'[a].posted => att[a].posted \/ att[a].pc # "none"
  PROVE  AttInv'
BY DEF AttInv, Constructing

LEMMA AttSame ==
  ASSUME AttInv, att' = att, rpc' = rpc \/ (~Constructing /\ rpc # "destroy")
  PROVE  AttInv'
BY AttKeeps DEF AttInv, AttTyped

(* bind_port_in_range finds a port of the range, or the socket has none.   *)
LEMMA FreePortType == FreePort \in Ports \cup {0}
<1> DEFINE free == (Ports \cap Call.free) \ {att[b].port : b \in Registered}
<1>1. free \subseteq Nat /\ free \subseteq Ports
  BY ResolverAssumption
<1>2. FreePort = IF free = {} THEN 0 ELSE Min(free)
  BY DEF FreePort
<1> HIDE DEF free
<1>3. ASSUME free # {} PROVE FreePort \in free
  BY <1>1, <1>2, <1>3, LeastNat DEF Min
<1>4. QED
  BY <1>1, <1>2, <1>3

(* Where the resolving thread constructs an attempt, and where it loses    *)
(* one.                                                                    *)
LEMMA AttBurst == ASSUME AttInv, Burst PROVE AttInv'
<1>1. CASE Registered = Attempts
  BY <1>1, AttSame DEF Burst, Constructing
<1>2. CASE Registered # Attempts
  <2>1. PICK a \in Attempts \ Registered :
          att' = [att EXCEPT ![a] = [pc |-> "bare", port |-> FreePort, posted |-> FALSE]]
    BY <1>2 DEF Burst
  <2>2. rpc \in {"burst", "unicast"} /\ rpc' \in {"own", "ownUnicast"}
    BY <1>2 DEF Burst
  <2>3. FreePort \in Ports \cup {0}
    BY FreePortType
  <2>4. /\ att'[a] = [pc |-> "bare", port |-> FreePort, posted |-> FALSE]
        /\ \A b \in Attempts : b # a => att'[b] = att[b]
    BY <2>1 DEF AttInv, AttTyped
  <2>5. AttTyped'
    BY <2>1, <2>3 DEF AttInv, AttTyped
  <2>6. \A b \in Attempts : att[b].pc # "bare" /\ att[b].pc # "dying"
    BY <2>2 DEF AttInv, Constructing
  <2>7. QED
    BY <2>2, <2>4, <2>5, <2>6 DEF AttInv, Constructing
<1>3. QED
  BY <1>1, <1>2

LEMMA AttOwn == ASSUME AttInv, Own PROVE AttInv'
<1>1. PICK a \in Attempts : att[a].pc = "bare" /\ att' = [att EXCEPT ![a].pc = "open"]
  BY DEF Own
<1>2. rpc \in {"own", "ownUnicast"} /\ rpc' \in {"timers", "run"}
  BY DEF Own
<1>3. /\ att'[a].pc = "open" /\ att'[a].port = att[a].port /\ att'[a].posted = att[a].posted
      /\ \A b \in Attempts : b # a => att'[b] = att[b]
  BY <1>1 DEF AttInv, AttTyped
<1>4. AttTyped'
  BY <1>1 DEF AttInv, AttTyped
<1>5. \A b \in Attempts : b # a => att[b].pc # "bare"
  BY <1>1 DEF AttInv
<1>6. \A b \in Attempts : att[b].pc # "dying"
  BY <1>2 DEF AttInv
<1>7. QED
  BY <1>1, <1>3, <1>4, <1>5, <1>6 DEF AttInv

LEMMA AttDestroyed ==
  ASSUME AttInv, Destroyed \/ \E a \in Attempts : Release(a)
  PROVE  AttInv'
<1>1. CASE Destroyed
  <2>1. /\ att' = [a \in Attempts |-> IF att[a].pc = "dying" THEN NoAttempt ELSE att[a]]
        /\ rpc = "destroy"
    BY <1>1 DEF Destroyed
  <2>2. AttTyped'
    BY <2>1 DEF AttInv, AttTyped, NoAttempt
  <2>3. \A a \in Attempts : att[a].pc # "bare"
    BY <2>1 DEF AttInv, Constructing
  <2>4. \A a \in Attempts : \/ att'[a] = att[a] /\ att[a].pc # "dying"
                            \/ att'[a].pc = "none" /\ ~att'[a].posted
    BY <2>1 DEF NoAttempt
  <2>5. QED
    BY <2>2, <2>3, <2>4 DEF AttInv
<1>2. ASSUME NEW a \in Attempts, Release(a)
      PROVE  AttInv'
  <2>1. /\ att[a].pc = "closed" /\ att' = [att EXCEPT ![a].pc = "dying"]
        /\ rpc = "run" /\ rpc' = "destroy"
    BY <1>2 DEF Release
  <2>2. /\ att'[a].pc = "dying" /\ att'[a].port = att[a].port /\ att'[a].posted = att[a].posted
        /\ \A b \in Attempts : b # a => att'[b] = att[b]
    BY <2>1 DEF AttInv, AttTyped
  <2>3. AttTyped'
    BY <2>1 DEF AttInv, AttTyped
  <2>4. \A b \in Attempts : att[b].pc # "bare"
    BY <2>1 DEF AttInv, Constructing
  <2>5. QED
    BY <2>1, <2>2, <2>3, <2>4 DEF AttInv
<1>3. QED
  BY <1>1, <1>2

(* Cancels that are posted, by the resolving thread or by another.         *)
LEMMA AttPosted ==
  ASSUME AttInv, rpc' = rpc \/ (~Constructing /\ rpc # "destroy"),
         NEW f \in [Attempts -> BOOLEAN],
         att' = [a \in Attempts |-> [att[a] EXCEPT !.posted = f[a]]],
         \A a \in Attempts : f[a] => att[a].posted \/ att[a].pc # "none"
  PROVE  AttInv'
<1>1. \A a \in Attempts : /\ att'[a].pc = att[a].pc /\ att'[a].port = att[a].port
                          /\ att'[a].posted = f[a]
                          /\ att'[a] = [pc |-> att[a].pc, port |-> att[a].port, posted |-> f[a]]
  BY DEF AttInv, AttTyped
<1>2. AttTyped'
  BY <1>1 DEF AttInv, AttTyped
<1>3. QED
  BY <1>1, <1>2, AttKeeps

LEMMA AttCancelOngoing ==
  ASSUME AttInv, CancelOngoing, ~Constructing, rpc # "destroy"
  PROVE  AttInv'
<1> DEFINE f == [a \in Attempts |-> a \in Registered]
<1>1. f \in [Attempts -> BOOLEAN] /\ \A a \in Attempts : f[a] = (a \in Registered)
  OBVIOUS
<1> HIDE DEF f
<1>2. att' = [a \in Attempts |-> [att[a] EXCEPT !.posted = f[a]]]
  BY <1>1 DEF CancelOngoing
<1>3. QED
  BY <1>1, <1>2, AttPosted DEF Registered

LEMMA AttCancelAll == ASSUME AttInv, CancelAll PROVE AttInv'
<1>1. rpc' = rpc
  BY DEF CancelAll
<1>2. CASE att' = [a \in Attempts |-> [att[a] EXCEPT !.posted = a \in Owned]]
  <2> DEFINE f == [a \in Attempts |-> a \in Owned]
  <2>1. f \in [Attempts -> BOOLEAN] /\ \A a \in Attempts : f[a] = (a \in Owned)
    OBVIOUS
  <2> HIDE DEF f
  <2>2. att' = [a \in Attempts |-> [att[a] EXCEPT !.posted = f[a]]]
    BY <1>2, <2>1
  <2>3. QED
    BY <1>1, <2>1, <2>2, AttPosted DEF Owned
<1>3. ASSUME NEW before \in SUBSET Owned,
             att' = [a \in Attempts |-> [att[a] EXCEPT !.posted = @ \/ a \in before]]
      PROVE  AttInv'
  <2> DEFINE f == [a \in Attempts |-> att[a].posted \/ a \in before]
  <2>1. f \in [Attempts -> BOOLEAN] /\ \A a \in Attempts : f[a] = (att[a].posted \/ a \in before)
    OBVIOUS
  <2> HIDE DEF f
  <2>2. att' = [a \in Attempts |-> [att[a] EXCEPT !.posted = f[a]]]
    BY <1>3, <2>1
  <2>3. QED
    BY <1>1, <1>3, <2>1, <2>2, AttPosted DEF Owned
<1>4. QED
  BY <1>2, <1>3 DEF CancelAll

LEMMA AttStep == AttInv /\ [ResolverNext]_rvars => AttInv'
<1> SUFFICES ASSUME AttInv, [ResolverNext]_rvars
             PROVE  AttInv'
  OBVIOUS
<1>1. CASE \/ UdpServerNext /\ UNCHANGED resolverVars
           \/ UNCHANGED rvars
  BY <1>1, AttSame DEF resolverVars, attVars, rvars
<1>2. CASE Resolve
  BY <1>2, AttSame DEF Resolve, Constructing
<1>3. CASE ThreadStep
  <2>1. CASE Wave
    <3>1. rpc = "wave" /\ (CancelOngoing \/ att' = att)
      BY <2>1 DEF Wave
    <3>2. QED
      BY <3>1, AttCancelOngoing, AttSame DEF Constructing
  <2>2. CASE SetTimers \/ Check \/ RunReturns
    BY <2>2, AttSame DEF SetTimers, Check, RunReturns, Constructing
  <2>3. QED
    BY <1>3, <2>1, <2>2, AttBurst, AttOwn, AttDestroyed DEF ThreadStep
<1>4. CASE WaitPasses \/ SetCancelled \/ CancelExpire \/ Join
  BY <1>4, AttSame DEF WaitPasses, SetCancelled, CancelExpire, Join
<1>5. ASSUME NEW t \in Timers, Expires(t) \/ CancelTimer(t)
      PROVE  AttInv'
  BY <1>5, AttSame DEF Expires, CancelTimer
<1>6. ASSUME NEW t \in Timers, TimerHandler(t)
      PROVE  AttInv'
  <2>1. rpc = "run" /\ (CancelOngoing \/ att' = att)
    BY <1>6 DEF TimerHandler, Timers
  <2>2. QED
    BY <2>1, AttCancelOngoing, AttSame DEF Constructing
<1>7. ASSUME NEW a \in Attempts, DoCancel(a)
      PROVE  AttInv'
  <2>1. rpc' = rpc /\ rpc = "run"
    BY <1>7 DEF DoCancel
  <2>2. att[a].pc \in {"open", "closed"}
    BY <1>7, <2>1 DEF DoCancel, AttInv, AttTyped, Constructing
  <2>3. /\ att'[a].pc = "closed" /\ att'[a].port = att[a].port
        /\ att'[a].posted => att[a].posted
        /\ \A b \in Attempts : b # a => att'[b] = att[b]
    BY <1>7 DEF DoCancel, AttInv, AttTyped
  <2>4. AttTyped'
    BY <1>7 DEF DoCancel, AttInv, AttTyped
  <2>5. QED
    BY <2>1, <2>2, <2>3, <2>4, AttKeeps
<1>8. ASSUME NEW a \in Attempts, NEW m \in replies, Receive(a, m)
      PROVE  AttInv'
  BY <1>8, AttSame DEF Receive
<1>9. ASSUME NEW h \in Hosts, Forget(h)
      PROVE  AttInv'
  BY <1>9, AttSame DEF Forget
<1>10. QED
  BY <1>1, <1>2, <1>3, <1>4, <1>5, <1>6, <1>7, <1>8, <1>9, AttDestroyed, AttCancelAll
     DEF ResolverNext, CancellingStep

LEMMA AttInit == ResolverInit => AttInv
BY DEF ResolverInit, AttInv, AttTyped, NoAttempt

LEMMA AlwaysAtt == ResolverInit /\ [][ResolverNext]_rvars => []AttInv
BY AttInit, AttStep, PTL

(* No attempt is found by cancel_ongoing_resolve, which the resolving      *)
(* thread runs in a wave or a handler, before its shared_ptr owns it or    *)
(* after its destructor has begun: only a cancel from another thread meets *)
(* it there (resolver_impl.cpp:220-230, resolve_attempt_udp.cpp:38-76).    *)
THEOREM WaveFindsOwned ==
  ResolverInit /\ [][ResolverNext]_rvars => [](rpc \in {"wave", "run"} => Registered = Owned)
<1>1. AttInv => (rpc \in {"wave", "run"} => Registered = Owned)
  BY DEF AttInv, AttTyped, Constructing, Registered, Owned
<1>2. QED
  BY <1>1, AlwaysAtt, PTL

-----------------------------------------------------------------------------
(* The network: what is on it is of its type.                              *)
LEMMA QueryType == Query \subseteq [query : Queries, port : Nat] /\ NoPacket \in Query
<1>1. Query \subseteq [query : Queries, port : Nat]
  <2>1. Ports \cup {0} \subseteq Nat
    BY ResolverAssumption
  <2>2. [query : Queries, port : Ports \cup {0}] \subseteq [query : Queries, port : Nat]
    BY <2>1
  <2>3. Others \subseteq [query : Queries, port : Nat]
    BY UdpServerAssumption
  <2>4. QED
    BY <2>2, <2>3 DEF Query
<1>2. Query # {}
  <2>1. PICK q \in Queries : TRUE
    BY UdpServerAssumption
  <2>2. [query |-> q, port |-> 0] \in Query
    BY DEF Query
  <2>3. QED
    BY <2>2
<1>3. QED
  BY <1>1, <1>2 DEF NoPacket

LEMMA UdpStep == ASSUME UdpTypeOK, UdpServerNext PROVE UdpTypeOK'
<1>1. ASSUME NEW h \in Hosts, HostHandle(h)
      PROVE  UdpTypeOK'
  <2>1. packet[h] \in Query /\ packet[h] \in [query : Queries, port : Nat]
    BY QueryType DEF UdpTypeOK
  <2>2. [query |-> packet[h].query, port |-> packet[h].port] = packet[h]
    BY <2>1
  <2>3. replies' \subseteq replies \cup
          {[host |-> h, id |-> packet[h].query, port |-> packet[h].port]}
    BY <1>1 DEF HostHandle, Answered
  <2>4. \A m \in replies' : m.host \in Hosts /\ [query |-> m.id, port |-> m.port] \in Query
    <3> DEFINE answer == [host |-> h, id |-> packet[h].query, port |-> packet[h].port]
    <3>1. /\ answer.host = h
          /\ [query |-> answer.id, port |-> answer.port]
               = [query |-> packet[h].query, port |-> packet[h].port]
      OBVIOUS
    <3>2. answer.host \in Hosts /\ [query |-> answer.id, port |-> answer.port] \in Query
      BY <2>1, <2>2, <3>1
    <3>3. \A m \in replies' : m \in replies \/ m = answer
      BY <2>3
    <3> HIDE DEF answer
    <3>4. QED
      BY <3>2, <3>3 DEF UdpTypeOK
  <2>5. sop' \in [Hosts -> {"receive", "send", "got", "sent", "aborted", "bad", "end"}]
    BY <1>1 DEF HostHandle, BeginOp, UdpTypeOK
  <2>6. packet' \in [Hosts -> Query]
    BY <1>1, QueryType DEF HostHandle, UdpTypeOK
  <2>7. QED
    BY <1>1, <2>4, <2>5, <2>6 DEF HostHandle, UdpTypeOK
<1>2. ASSUME NEW h \in Hosts, NEW r \in requests, HostReceive(h, r)
      PROVE  UdpTypeOK'
  BY <1>2 DEF HostReceive, UdpTypeOK
<1>3. ASSUME NEW h \in Hosts, HostSent(h) \/ HostNext(h) \/ HostAborted(h)
      PROVE  UdpTypeOK'
  BY <1>3 DEF HostSent, HostNext, HostAborted, BeginOp, UdpTypeOK
<1>4. ASSUME NEW h \in Hosts, EndServing(h) \/ CloseSocket(h)
      PROVE  UdpTypeOK'
  BY <1>4 DEF EndServing, CloseSocket, UdpTypeOK
<1>5. QED
  BY <1>1, <1>2, <1>3, <1>4 DEF UdpServerNext, Host

(* The calls, and what they have found.                                    *)
CallTyped ==
  /\ plan \in Plans /\ calls \in 0 .. Len(plan) /\ waited \in BOOLEAN
  /\ results \subseteq Hosts /\ output \subseteq Hosts
  /\ rpc # "idle" => calls > 0

CallRecord == [query : Queries, minimum : Nat, timed : BOOLEAN, continuous : BOOLEAN,
               free : SUBSET Ports]

LEMMA CallType == ASSUME CallTyped, calls > 0 PROVE Call \in CallRecord
<1>1. plan \in Seq(CallRecord)
  BY ResolverAssumption DEF CallTyped, CallRecord
<1>2. calls \in 1 .. Len(plan)
  <2> DEFINE n == Len(plan)
  <2>1. n \in Nat
    BY <1>1
  <2>2. calls \in 0 .. n
    BY DEF CallTyped
  <2> HIDE DEF n
  <2>3. calls \in 1 .. n
    BY <2>1, <2>2
  <2>4. QED
    BY <2>3 DEF n
<1>3. QED
  BY <1>1, <1>2 DEF Call

(* The flags of the threads, and the timers.                               *)
ThreadTyped ==
  /\ rpc \in {"idle", "check", "run", "wave", "burst", "timers", "unicast", "own",
              "ownUnicast", "destroy"}
  /\ back \in {"check", "run"}
  /\ cancelled \in BOOLEAN /\ expired \in BOOLEAN /\ threw \in BOOLEAN
  /\ timer \in [Timers -> {"off", "set", "due", "aborted"}] /\ toCancel \subseteq Timers
  /\ cpc \in {"no", "expire", "all", "join", "done"}

LEMMA CallStep == ASSUME CallTyped, UdpTypeOK, [ResolverNext]_rvars PROVE CallTyped'
<1>0. Len(plan) \in Nat
  BY ResolverAssumption DEF CallTyped
<1>1. CASE \/ UdpServerNext /\ UNCHANGED resolverVars
           \/ UNCHANGED rvars
  BY <1>1 DEF resolverVars, callVars, rvars, CallTyped
<1>2. CASE Resolve
  <2>1. calls' = calls + 1 /\ calls < Len(plan) /\ results' = {} /\ waited' = FALSE
        /\ UNCHANGED <<plan, output>>
    BY <1>2 DEF Resolve
  <2>2. calls' \in 0 .. Len(plan') /\ calls' > 0
    BY <1>0, <2>1 DEF CallTyped
  <2>3. QED
    BY <2>1, <2>2 DEF CallTyped
<1>3. CASE Check \/ RunReturns
  BY <1>3 DEF Check, RunReturns, CallTyped
<1>4. CASE Wave \/ Burst \/ Own \/ SetTimers \/ Destroyed
  <2>1. rpc # "idle" /\ UNCHANGED <<plan, calls, waited, output, results>>
    BY <1>4 DEF Wave, Burst, Own, SetTimers, Destroyed, callVars
  <2>2. QED
    BY <2>1 DEF CallTyped
<1>5. CASE WaitPasses
  BY <1>5 DEF WaitPasses, CallTyped
<1>6. ASSUME NEW t \in Timers, Expires(t) \/ TimerHandler(t) \/ CancelTimer(t)
      PROVE  CallTyped'
  <2>1. UNCHANGED <<plan, calls, waited, output, results>>
    BY <1>6 DEF Expires, TimerHandler, CancelTimer, callVars
  <2>2. rpc' = rpc \/ rpc = "run"
    BY <1>6 DEF Expires, TimerHandler, CancelTimer
  <2>3. QED
    BY <2>1, <2>2 DEF CallTyped
<1>7. ASSUME NEW a \in Attempts, DoCancel(a) \/ Release(a)
      PROVE  CallTyped'
  BY <1>7 DEF DoCancel, Release, callVars, CallTyped
<1>8. ASSUME NEW a \in Attempts, NEW m \in replies, Receive(a, m)
      PROVE  CallTyped'
  <2>1. m.host \in Hosts
    BY DEF UdpTypeOK
  <2>2. QED
    BY <1>8, <2>1 DEF Receive, callVars, CallTyped
<1>9. ASSUME NEW h \in Hosts, Forget(h)
      PROVE  CallTyped'
  BY <1>9 DEF Forget, callVars, CallTyped
<1>10. CASE SetCancelled \/ CancelExpire \/ CancelAll \/ Join
  BY <1>10 DEF SetCancelled, CancelExpire, CancelAll, Join, callVars, CallTyped
<1>11. QED
  BY <1>1, <1>2, <1>3, <1>4, <1>5, <1>6, <1>7, <1>8, <1>9, <1>10
     DEF ResolverNext, ThreadStep, CancellingStep

LEMMA ThreadTypeStep == ASSUME ThreadTyped, [ResolverNext]_rvars PROVE ThreadTyped'
<1>1. CASE \/ UdpServerNext /\ UNCHANGED resolverVars
           \/ UNCHANGED rvars
  BY <1>1 DEF resolverVars, flagVars, timerVars, stopVars, rvars, ThreadTyped
<1>2. CASE Resolve
  BY <1>2 DEF Resolve, stopVars, ThreadTyped, Timers
<1>3. CASE Wave
  BY <1>3 DEF Wave, CancelOngoing, stopVars, ThreadTyped
<1>4. CASE Burst \/ Own \/ Check \/ RunReturns \/ Destroyed
  BY <1>4 DEF Burst, Own, Check, RunReturns, Destroyed, flagVars, timerVars, stopVars, ThreadTyped
<1>5. CASE SetTimers
  BY <1>5 DEF SetTimers, flagVars, stopVars, ThreadTyped, Timers
<1>6. CASE WaitPasses
  BY <1>6 DEF WaitPasses, flagVars, timerVars, stopVars, ThreadTyped
<1>7. ASSUME NEW t \in Timers, Expires(t) \/ CancelTimer(t)
      PROVE  ThreadTyped'
  BY <1>7 DEF Expires, CancelTimer, flagVars, stopVars, ThreadTyped
<1>8. ASSUME NEW t \in Timers, TimerHandler(t)
      PROVE  ThreadTyped'
  <2>1. /\ rpc' \in {rpc, "wave", "unicast"} /\ back' \in {back, "run"}
        /\ expired' \in {expired, TRUE} /\ toCancel' \in {toCancel, Timers}
        /\ timer' = [timer EXCEPT ![t] = "off"]
        /\ UNCHANGED <<cancelled, cpc, threw>>
    BY <1>8 DEF TimerHandler, CancelOngoing, Timers, stopVars
  <2>2. QED
    BY <2>1 DEF ThreadTyped
<1>9. ASSUME NEW a \in Attempts,
             DoCancel(a) \/ Release(a) \/ \E m \in replies : Receive(a, m)
      PROVE  ThreadTyped'
  BY <1>9 DEF DoCancel, Release, Receive, flagVars, timerVars, stopVars, ThreadTyped
<1>10. ASSUME NEW h \in Hosts, Forget(h)
       PROVE  ThreadTyped'
  BY <1>10 DEF Forget, flagVars, timerVars, stopVars, ThreadTyped
<1>11. CASE SetCancelled \/ CancelExpire \/ CancelAll \/ Join
  BY <1>11 DEF SetCancelled, CancelExpire, CancelAll, Join, flagVars, timerVars, ThreadTyped
<1>12. QED
  BY <1>1, <1>2, <1>3, <1>4, <1>5, <1>6, <1>7, <1>8, <1>9, <1>10, <1>11
     DEF ResolverNext, ThreadStep, CancellingStep

(* The resolver changes the network only by the query of an attempt.       *)
LEMMA NetworkStep ==
  ASSUME UdpTypeOK, CallTyped, AttInv, [ResolverNext]_rvars
  PROVE  UdpTypeOK'
<1>1. CASE UdpServerNext
  BY <1>1, UdpStep
<1>2. CASE Own
  <2>1. PICK a \in Attempts :
          /\ att[a].pc = "bare"
          /\ requests' = requests \cup {[query |-> Call.query, port |-> att[a].port]}
    BY <1>2 DEF Own
  <2>2. Call \in CallRecord
    BY <1>2, CallType DEF Own, CallTyped
  <2>3. att[a].port \in Ports \cup {0}
    BY DEF AttInv, AttTyped
  <2>4. [query |-> Call.query, port |-> att[a].port] \in Query
    BY <2>2, <2>3 DEF CallRecord, Query
  <2>5. requests' \subseteq Query
    BY <2>1, <2>4 DEF UdpTypeOK
  <2>6. QED
    BY <1>2, <2>5 DEF Own, hostVars, UdpTypeOK
<1>3. CASE UNCHANGED udpVars
  BY <1>3 DEF udpVars, hostVars, UdpTypeOK
<1>4. UdpServerNext \/ Own \/ UNCHANGED udpVars
  <2>1. ASSUME NEW t \in Timers, Expires(t) \/ TimerHandler(t) \/ CancelTimer(t)
        PROVE  UNCHANGED udpVars
    BY <2>1 DEF Expires, TimerHandler, CancelTimer
  <2>2. ASSUME NEW a \in Attempts,
               DoCancel(a) \/ Release(a) \/ \E m \in replies : Receive(a, m)
        PROVE  UNCHANGED udpVars
    BY <2>2 DEF DoCancel, Release, Receive
  <2>3. ASSUME NEW h \in Hosts, Forget(h)
        PROVE  UNCHANGED udpVars
    BY <2>3 DEF Forget
  <2>4. CASE \/ Resolve \/ Wave \/ Burst \/ SetTimers \/ Check \/ RunReturns \/ Destroyed
             \/ WaitPasses \/ SetCancelled \/ CancelExpire \/ CancelAll \/ Join
             \/ UNCHANGED rvars
    BY <2>4 DEF Resolve, Wave, Burst, SetTimers, Check, RunReturns, Destroyed, WaitPasses,
                SetCancelled, CancelExpire, CancelAll, Join, rvars
  <2>5. QED
    BY <2>1, <2>2, <2>3, <2>4 DEF ResolverNext, ThreadStep, CancellingStep
<1>5. QED
  BY <1>1, <1>2, <1>3, <1>4

(* The resolver and the hosts keep their types: in particular what arrives *)
(* at an attempt is an answer to a query that was sent                     *)
(* (resolve_attempt_udp.cpp:56-63, udp_server.cpp:113-130).                *)
THEOREM ResolverTypeCorrect == ResolverInit /\ [][ResolverNext]_rvars => []ResolverTypeOK
<1> DEFINE Typed == UdpTypeOK /\ CallTyped /\ ThreadTyped /\ AttInv
<1>1. ResolverInit => Typed
  <2>1. ResolverInit => UdpTypeOK
    BY QueryType DEF ResolverInit, UdpInit, UdpTypeOK, Query
  <2>2. ResolverInit => CallTyped
    <3>1. SUFFICES ASSUME ResolverInit
                   PROVE  CallTyped
      OBVIOUS
    <3>2. plan \in Seq(CallRecord)
      BY <3>1, ResolverAssumption DEF ResolverInit, CallRecord
    <3>3. 0 \in 0 .. Len(plan)
      <4> DEFINE n == Len(plan)
      <4>1. n \in Nat
        BY <3>2
      <4> HIDE DEF n
      <4>2. 0 \in 0 .. n
        BY <4>1
      <4>3. QED
        BY <4>2 DEF n
    <3>4. QED
      BY <3>1, <3>3 DEF ResolverInit, CallTyped
  <2>3. ResolverInit => ThreadTyped
    BY DEF ResolverInit, ThreadTyped, Timers
  <2>4. QED
    BY <2>1, <2>2, <2>3, AttInit
<1>2. Typed /\ [ResolverNext]_rvars => Typed'
  BY NetworkStep, CallStep, ThreadTypeStep, AttStep
<1>3. Typed => ResolverTypeOK
  BY DEF CallTyped, ThreadTyped, AttInv, AttTyped, ResolverTypeOK
<1>4. QED
  BY <1>1, <1>2, <1>3, PTL
=============================================================================
