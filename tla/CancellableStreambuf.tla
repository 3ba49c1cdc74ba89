------------------------ MODULE CancellableStreambuf ------------------------
(***************************************************************************)
(* A cancellable_streambuf (cancellable_streambuf.h) and the registries it *)
(* is registered at (cancellation.h).  One thread connects it, reads and   *)
(* writes, and destroys it; each registry may cancel it from another       *)
(* thread at any time.  A cancel posts the closing of the socket to the    *)
(* io_service of the buffer, which only run_one() of the first thread      *)
(* executes.                                                               *)
(*                                                                         *)
(* The peer and the kernel may complete or fail a connect or a receive, or *)
(* never answer; a send is taken or fails (the buffer has 512 bytes).      *)
(* What is sent or received is left out, except whether a read returns the *)
(* bytes of its own receive.  The flag `stopped' of the io_service is left *)
(* out too: it is raised when no work is left, and then every loop here is *)
(* about to end or to reset it.                                            *)
(***************************************************************************)
EXTENDS Naturals, Sequences, SequencesExt

CONSTANTS
  Registries,   \* where the buffer is registered: connection, data_receiver
  MaxCancels    \* bound: cancels in all

ASSUME StreambufAssumption == MaxCancels \in Nat

VARIABLES
  pc,            \* the thread: "new", "locked", "idle", "reset", "run", "end",
                 \* "dtor" or "gone"
  op,            \* the operation it is at: "connect", "recv", "send", "flush"
  stack,         \* calls of close() it is inside of, by the place of the call
  ec,            \* ec_: "ok", "would_block" or "error"
  own,           \* has the handler of this operation run?
  put,           \* is there something in put_buffer_?
  open,          \* the socket
  pending,       \* operations the socket is waiting for
  ready,         \* handlers of the io_service that can run
  cancelIssued,  \* cancel_issued_
  cancelStarted, \* cancel_started_
  registered,    \* registries that know the buffer
  canceller,     \* registry -> cancel_all_registered: "out", "flag", "post"
  cancels,       \* bound: cancels so far
  posted,        \* history: a cancel has posted its close
  outcome        \* how the last operation ended: "none", "done", "failed"
                 \* or "stale": with the success of something else

threadVars == <<pc, op, stack, own>>
socketVars == <<ec, put, open, pending, ready>>
cancelVars == <<registered, canceller, cancels, posted>>
allCancelVars == <<cancelIssued, cancelStarted, cancelVars>>
vars == <<threadVars, socketVars, allCancelVars, outcome>>

(* An operation is known by the depth at which it was begun, which is at   *)
(* most MaxCancels (NestsWithinCancels); one that was given up, by Old.    *)
Old == MaxCancels + 1
Handler(n, res) == [of |-> n, res |-> res]
PostedClose     == [of |-> Old, res |-> "close"]

Init ==
  /\ pc = "new" /\ op = "connect" /\ stack = <<>> /\ own = FALSE
  /\ ec = "ok" /\ put = FALSE /\ open = FALSE /\ pending = {} /\ ready = <<>>
  /\ cancelIssued = FALSE /\ cancelStarted = FALSE
  /\ registered = Registries
  /\ canceller = [r \in Registries |-> "out"]
  /\ cancels = 0
  /\ posted = FALSE
  /\ outcome = "none"

(* cancel_mut_ is held from the check in connect to its end, and by a      *)
(* close that protected_reset has begun.                                   *)
Locked == pc = "locked" \/ \E i \in DOMAIN stack : stack[i] = "reset"

-----------------------------------------------------------------------------
(* async_connect, async_receive, async_send: on a closed socket they fail. *)
Async(n, isOpen, waiting, queue) ==
  /\ pending' = IF isOpen THEN waiting \cup {n} ELSE waiting
  /\ ready' = IF isOpen THEN queue ELSE Append(queue, Handler(n, "error"))
  /\ ec' = "would_block"

(* An operation of the user begins; handlers of earlier ones may be left.  *)
Begin(o, isOpen) ==
  /\ op' = o
  /\ own' = FALSE
  /\ Async(0, isOpen, {Old : n \in pending}, [i \in DOMAIN ready |-> [ready[i] EXCEPT !.of = Old]])

(* Fault: a cancelled buffer can be connected.                             *)
ConnectAnyway ==
  /\ pc = "new"
  /\ pc' = "locked"
  /\ UNCHANGED <<op, stack, own, socketVars, allCancelVars, outcome>>

(* connect: throw if cancelled ...                                         *)
ConnectCheck ==
  /\ pc = "new"
  /\ pc' = IF cancelIssued THEN "dtor" ELSE "locked"
  /\ UNCHANGED <<op, stack, own, socketVars, allCancelVars, outcome>>

(* ... async_connect opens the socket; the lock is released.               *)
Connect ==
  /\ pc = "locked"
  /\ pc' = "run"
  /\ open' = TRUE
  /\ Begin("connect", TRUE)
  /\ UNCHANGED <<stack, put, allCancelVars, outcome>>

(* underflow, and overflow with a non-empty buffer, as far as the wait.    *)
(* The iostreams and archives on top stop at the first failure, except     *)
(* that info_receiver does not look at connect's result and goes on to     *)
(* read when it could not send.                                            *)
ReadOrWrite ==
  /\ pc = "idle"
  /\ pc' = "reset"
  /\ \/ /\ outcome = "failed" => op # "recv"
        /\ Begin("recv", open)
        /\ UNCHANGED put
     \/ /\ outcome = "failed" => op = "connect"
        /\ Begin("send", open)
        /\ put' = TRUE
  /\ UNCHANGED <<stack, open, allCancelVars, outcome>>

(* Fault: close() does not get as far as the socket.                       *)
CloseAbortsOnly(waiting, queue) ==
  /\ open' = open
  /\ put' = FALSE
  /\ ec' = "ok"
  /\ pending' = {}
  /\ \E s \in SetToSeqs(waiting) :
       ready' = queue \o [i \in DOMAIN s |-> Handler(s[i], "error")]

(* basic_socket::close(ec_): what is pending is aborted, ec_ is a success. *)
Close(waiting, queue) ==
  /\ open' = FALSE
  /\ put' = FALSE
  /\ ec' = "ok"
  /\ pending' = {}
  /\ \E s \in SetToSeqs(waiting) :
       ready' = queue \o [i \in DOMAIN s |-> Handler(s[i], "error")]

(* The condition of close_if_open.                                         *)
MustClose == ~cancelStarted /\ open

(* close_if_open, called at `place'.  close() first flushes the buffer     *)
(* with an overflow of its own.                                            *)
CloseIfOpen(place, queue, next) ==
  /\ cancelStarted' = TRUE
  /\ IF put
       THEN /\ stack' = <<place>> \o stack
            /\ pc' = "reset"
            /\ Async(Len(stack) + 1, open, pending, queue)
            /\ UNCHANGED <<open, put>>
       ELSE /\ Close(pending, queue)
            /\ pc' = next
            /\ UNCHANGED stack

(* A cancel that came before this is carried out here.                     *)
ProtectedReset ==
  /\ pc = "reset"
  /\ IF cancelIssued /\ MustClose
       THEN CloseIfOpen("reset", ready, "run")
       ELSE pc' = "run" /\ UNCHANGED <<stack, socketVars, cancelStarted>>
  /\ UNCHANGED <<op, own, cancelIssued, cancelVars, outcome>>

(* The condition of the loops around run_one().                            *)
Again(code) ==
  code = "would_block" /\ ~(op = "connect" /\ stack = <<>> /\ cancelIssued)

(* run_one() executes a handler, or returns at once if no work is left.    *)
RunOne ==
  /\ pc = "run"
  /\ \/ /\ ready = <<>> /\ pending = {}
        /\ pc' = IF Again(ec) THEN "run" ELSE "end"
        /\ UNCHANGED <<stack, own, socketVars, cancelStarted>>
     \/ /\ ready # <<>> /\ Head(ready) = PostedClose
        /\ IF MustClose
             THEN CloseIfOpen("run", Tail(ready), "end")
             ELSE /\ ready' = Tail(ready)
                  /\ pc' = IF Again(ec) THEN "run" ELSE "end"
                  /\ UNCHANGED <<stack, ec, put, open, pending, cancelStarted>>
        /\ UNCHANGED own
     \/ /\ ready # <<>> /\ Head(ready) # PostedClose
        /\ ready' = Tail(ready)
        /\ ec' = Head(ready).res
        /\ own' = (own \/ Head(ready).of = 0)
        /\ pc' = "end"
        /\ UNCHANGED <<stack, put, open, pending, cancelStarted>>
  /\ UNCHANGED <<op, cancelIssued, cancelVars, outcome>>

(* The loop has ended: of a flush inside close(), which now closes the     *)
(* socket and returns to its caller, or of the user's operation.           *)
LoopEnds ==
  /\ pc = "end"
  /\ IF stack # <<>>
       THEN /\ Close(pending, ready)
            /\ pc' = IF Head(stack) = "reset" THEN "run" ELSE "end"
            /\ stack' = Tail(stack)
            /\ UNCHANGED outcome
       ELSE /\ pc' = IF op = "flush" THEN "gone" ELSE "idle"
            /\ put' = (put /\ ~(op \in {"send", "flush"} /\ ec = "ok"))
            /\ outcome' = IF ec # "ok" THEN "failed" ELSE IF own THEN "done" ELSE "stale"
            /\ UNCHANGED <<stack, ec, open, pending, ready>>
  /\ UNCHANGED <<op, own, allCancelVars>>

(* The user leaves the scope of the buffer.                                *)
Leave ==
  /\ pc = "idle"
  /\ pc' = "dtor"
  /\ UNCHANGED <<op, stack, own, socketVars, allCancelVars, outcome>>

(* Fault: unregister does not take the lock of the registry.               *)
UnregisterUnlocked(r) ==
  /\ pc = "dtor" /\ r \in registered
  /\ registered' = registered \ {r}
  /\ UNCHANGED <<threadVars, socketVars, cancelIssued, cancelStarted, canceller, cancels,
                 posted, outcome>>

(* The destructor: unregister_from_all ...                                 *)
Unregister(r) ==
  /\ pc = "dtor" /\ r \in registered
  /\ canceller[r] = "out"
  /\ registered' = registered \ {r}
  /\ UNCHANGED <<threadVars, socketVars, cancelIssued, cancelStarted, canceller, cancels,
                 posted, outcome>>

(* ... and a last flush.                                                   *)
Flush ==
  /\ pc = "dtor" /\ registered = {}
  /\ IF put THEN pc' = "reset" /\ Begin("flush", open)
            ELSE pc' = "gone" /\ UNCHANGED <<op, own, ec, pending, ready>>
  /\ UNCHANGED <<stack, put, open, allCancelVars, outcome>>

Thread ==
  \/ ConnectCheck \/ Connect \/ ReadOrWrite \/ Leave
  \/ ProtectedReset \/ RunOne \/ LoopEnds
  \/ (\E r \in Registries : Unregister(r)) \/ Flush

-----------------------------------------------------------------------------
(* cancel_all_registered, under the registry's lock, calls cancel().       *)
CancelBegin(r) ==
  /\ canceller[r] = "out" /\ r \in registered
  /\ cancels < MaxCancels
  /\ cancels' = cancels + 1
  /\ canceller' = [canceller EXCEPT ![r] = "flag"]
  /\ UNCHANGED <<threadVars, socketVars, cancelIssued, cancelStarted, registered, posted, outcome>>

CancelFlag(r) ==
  /\ canceller[r] = "flag"
  /\ cancelIssued' = TRUE
  /\ canceller' = [canceller EXCEPT ![r] = "post"]
  /\ UNCHANGED <<threadVars, socketVars, cancelStarted, registered, cancels, posted, outcome>>

(* Fault: the flag alone.                                                  *)
CancelNoPost(r) ==
  /\ canceller[r] = "post" /\ ~Locked
  /\ cancelStarted' = FALSE
  /\ posted' = TRUE
  /\ canceller' = [canceller EXCEPT ![r] = "out"]
  /\ UNCHANGED <<threadVars, socketVars, cancelIssued, registered, cancels, outcome>>

CancelPost(r) ==
  /\ canceller[r] = "post" /\ ~Locked
  /\ cancelStarted' = FALSE
  /\ ready' = Append(ready, PostedClose)
  /\ posted' = TRUE
  /\ canceller' = [canceller EXCEPT ![r] = "out"]
  /\ UNCHANGED <<threadVars, ec, put, open, pending, cancelIssued, registered, cancels, outcome>>

Cancel(r) == CancelFlag(r) \/ CancelPost(r)

(* The kernel or the peer completes an operation.                          *)
Complete(n) ==
  /\ n \in pending
  /\ pending' = pending \ {n}
  /\ \E res \in {"ok", "error"} : ready' = Append(ready, Handler(n, res))
  /\ UNCHANGED <<threadVars, ec, put, open, allCancelVars, outcome>>

CompleteSend == \E n \in pending : (n \in 1 .. Old - 1 \/ op \in {"send", "flush"}) /\ Complete(n)

Next ==
  \/ Thread
  \/ \E r \in Registries : CancelBegin(r) \/ Cancel(r)
  \/ \E n \in pending : Complete(n)

(* Threads go on; sends complete; nothing is asked of the peer.            *)
Spec ==
  /\ Init /\ [][Next]_vars
  /\ WF_vars(Thread)
  /\ \A r \in Registries : WF_vars(Cancel(r))
  /\ WF_vars(CompleteSend)

-----------------------------------------------------------------------------
TypeOK ==
  /\ pc \in {"new", "locked", "idle", "reset", "run", "end", "dtor", "gone"}
  /\ op \in {"connect", "recv", "send", "flush"}
  /\ stack \in Seq({"reset", "run"})
  /\ ec \in {"ok", "would_block", "error"}
  /\ own \in BOOLEAN /\ put \in BOOLEAN /\ open \in BOOLEAN
  /\ pending \subseteq Nat
  /\ ready \in Seq([of : Nat, res : {"ok", "error", "close"}])
  /\ cancelIssued \in BOOLEAN /\ cancelStarted \in BOOLEAN
  /\ registered \subseteq Registries
  /\ canceller \in [Registries -> {"out", "flag", "post"}]
  /\ cancels \in 0 .. MaxCancels
  /\ posted \in BOOLEAN
  /\ outcome \in {"none", "done", "failed", "stale"}

(* close() waits in a run_one() of its own, which may execute the close    *)
(* that the next cancel has posted, inside the first: but the calls nest   *)
(* no deeper than there were cancels, and a cancel that finds the flag in  *)
(* protected_reset before it is posted does not count twice                *)
(* (cancellable_streambuf.h:67-72, 123-128).                               *)
NestsWithinCancels == Len(stack) <= cancels

(* A thread that goes on until its first failure leaves the buffer after a *)
(* cancel, whatever the peer does and wherever the cancel finds the thread *)
(* (cancellable_streambuf.h:131-138); and the cancel itself returns: it    *)
(* waits for cancel_mut_ (69), which a close with something to flush holds *)
(* through a run_one() of its own.                                         *)
CancelEnds ==
  /\ cancelIssued ~> pc \in {"dtor", "gone"}
  /\ \A r \in Registries : canceller[r] # "out" ~> canceller[r] = "out"

(* A close that run_one() executes leaves ec_ a success (lines 109,        *)
(* 152-158): a read hands out bytes it has not received.  But the stream   *)
(* ends there: it never goes on with new bytes after the old ones.         *)
StaleIsLast == [][outcome = "stale" => outcome' \in {"stale", "failed"}]_vars

(* Once a cancel has posted its close the socket is not opened again       *)
(* (lines 66, 85): one that was connecting is closed for good.             *)
NotReused == [][posted /\ ~open => ~open']_vars

(* No cancel touches a buffer whose destructor has unregistered it (line   *)
(* 56, cancellation.h:85-91).                                              *)
CancelsOnlyLive == \A r \in Registries : canceller[r] # "out" => r \in registered
=============================================================================
