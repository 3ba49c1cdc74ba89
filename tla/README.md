# TLA+ models of PhotoProject

PhotoProject is an Android application (Kotlin and Java) that filters a photo in
several ways, shows the versions to a user, records the user's EEG and ratings, and
carries a copy of liblsl (C++), the lab streaming layer through which such signals
are streamed. This directory holds TLA+ models of its concurrent core, TLC
configurations for small instances, and proofs checked by TLAPS.

Paths are relative to `src/`. `K/` stands for `app/src/main/java/com/example/photoproject/`,
`J/` for `app/src/main/java/android/`, `L/` for `app/src/main/jni/liblsl/src/`.
`PROJECT.json` maps every definition that models code to its lines.

## 1. Inventory

### The application

| part | state | operations | hard about it | what makes it correct |
|---|---|---|---|---|
| `K/Select.kt` | captured `count`, one picture file per filter, the "next" button | pick a photo; one coordinator and six workers per photo | `count++` by six unsynchronised threads; the file *name* is taken from the counter, not from the loop; only a 200 ms sleep orders the workers | the index is in range; the button means all workers are done; each filter ends in its own file |
| `K/Train.kt`, photo loop | `nameCount`, `currentInt`, `rateChange`, rating bar, runnables posted to the UI | a worker thread per photo, runnables, touches, `onDestroy` | the worker polls what the UI thread sets and reads widgets directly; nothing stops it | one rating per picture, given for that picture; recordings filed under their picture; a session ends |
| `K/Train.kt`, recording | `playQueue`, `storageMap`, `needToAnalyze`, `isStartSampling` | `addToQueue`, `beginQueue`, `endQueue`, `saveAndEndQueue`, analysis threads | four kinds of threads and no lock on plain collections | recordings start clean, are kept, and the process survives |
| `J/device/eeg/` (Q30 headset) | driver buffer, `incompletePacket`, sampling flag | read a block, parse it, switch sampling | packets cut at any byte, bytes lost, pauses | the samples are the packets that arrived |
| `K/Experiment.kt` | pictures read, view index, count-down | open, tick, finish, leave | the count-down goes on when the activity is left, and the files are rewritten by the next photo | it shows the photo it was opened for |
| `K/Start.kt` | photo number | count-downs, threads that sleep and recurse | — | not modelled, see section 7 |
| `K/MainActivity.kt` and the rest | — | menus, Bluetooth accept loop, FTP client, dialogs, FFT, CSV | little | not modelled, see section 7 |

The parts interact through the files of `Select` (read by `Experiment` and others),
through the static fields of `Train` that the serial thread of the headset fills, and
through runnables on the UI thread.

### liblsl

| part | state | operations | hard about it | what makes it correct |
|---|---|---|---|---|
| `L/sample.h` `factory` | freelist: `head_`, `tail_`, `next_` | take a sample on one thread, give back on any | a lock-free list that is cut in two during a release | no sample is lost or handed out twice |
| `L/consumer_queue.cpp` | ring of samples, two indices | `push_sample`, `pop_sample` | the producer pops too when the ring is full | oldest lost first, nothing else lost |
| `L/send_buffer.cpp` | set of consumers, mutex, condition | register, unregister, push, wait | consumers come and go during pushes; notify outside the lock | every consumer gets the latest samples in order |
| `L/tcp_server.cpp`, `L/stream_outlet_impl.cpp` | sessions, sockets in flight, `shutdown_`, IO threads | accept, feed, chunk, end_serving, destructor | transfer threads and IO threads against a shutdown that posts, pings and joins | destructor returns, nothing is left, chunks as asked |
| `L/cancellable_streambuf.h`, `L/cancellation.h` | socket, cancel flags | connect, read, `cancel` from another thread | cancel between two waits | a cancelled read ends |
| `L/inlet_connection.cpp` with `data_receiver`, `info_receiver`, `time_receiver` | connection, recovery lock, callbacks, sample queue, caches | recover, watchdog, open, pull, info, time correction | several threads discover one loss; lost wake-ups | recovery goes to the right host once; waiters wake |
| `L/resolver_impl.cpp`, `L/resolve_attempt_udp.cpp`, `L/udp_server.cpp` | results, timers, sockets | resolve waves, replies, cancel | timers against cancellation | a cancelled resolve ends; replies match queries |
| the C interface, XML info, sample formats | data | conversions | — | not modelled |

An outlet's push goes through `sample::factory` and `send_buffer` into one
`consumer_queue` per session, from which a transfer thread of `tcp_server` feeds the
client. The application does not call liblsl itself (its native build is disabled in
`app/build.gradle`); it is in the repository and modelled as a library used as its
headers say.

`PROJECT.json` lists all components with their status and, under `hazards`, the lines
where these things can go wrong.

## 2. The modules

| module | models | depends on |
|---|---|---|
| `Select` | `K/Select.kt` 92-187 | — |
| `Experiment` | `K/Experiment.kt` with the files that `Select` writes | EXTENDS `Select` |
| `EegQueue` | the recording in the companion object of `Train`, and its threads | — |
| `Train` | a training session | EXTENDS `EegQueue` |
| `Q30Reader` | reader loop and packet parser of the headset | — |
| `LossyQueue` | abstract: what a `consumer_queue` promises | — |
| `ConsumerQueue` | `consumer_queue.cpp` on the ring of `boost::lockfree::spsc_queue` | refines `LossyQueue` |
| `SampleFactory` | the freelist of `sample.h` | — |
| `SendBuffer` | `send_buffer.cpp` | — |
| `TcpServer` | sessions, IO threads, `end_serving`, the outlet's destructor | `SendBuffer` (INSTANCE) |
| `CancellableStreambuf` | `cancellable_streambuf.h` with `cancellation.h` | — |
| `InletConnection` | engage, watchdog, recovery, loss, the registry of streams | — |
| `DataReceiver`, `InfoReceiver`, `TimeReceiver` | the receivers and their threads | EXTENDS `InletConnection` |
| `Inlet` | the composition: one connection, three receivers, the calls of the application | the five above |
| `UdpServer` | the responder of a stream, and the network | — |
| `Resolver` | `resolver_impl.cpp` and `resolve_attempt_udp.cpp` against that responder | EXTENDS `UdpServer` |
| `MCTrain`, `MCTcpServer`, `MCInlet`, `MCResolver` | instances for TLC | |
| `SelectProof` | theorems and proofs about `Select` and `Experiment` | `Experiment` |
| `TrainProof`, `Q30ReaderProof`, `SendBufferProof`, `InletProof` | theorems and proofs | the module each is named after |
| `LockFreeProof` | the same about the two lock-free structures | `ConsumerQueue`, `SampleFactory` |
| `TcpServerProof` | the same | `TcpServer`, `SendBufferProof` (INSTANCE) |
| `NetworkProof` | the same about connections and queries | `CancellableStreambuf`, `Resolver` |

Definitions marked "Fault:" are not part of any specification. Each is a mutated form
of the definition that follows it, with a mistake one could make in that code;
`PROJECT.json` (`mutants`) says which property must catch which.

### How state and actions correspond to the code

*Select.* `coord` and `spawned` are the coordinator thread and its loop index, `wpc` and
`wname`, `wtmp` the workers and their locals, `count` the captured variable, `files` the
directory. `count++` is `ReadCount` and `WriteCount`. A file opened by two threads at
once is `Torn`. The sleep of 200 ms is the rigid variable `prompt`: an execution either
has workers that always end within the pause, or workers of any speed. What holds for
the second kind holds for all.

*Experiment.* `stage` follows the activity from its creation, in which it decodes one file
per view, through the count-down, whose `onTick` moves `viewIndex`, to `onFinish`, which
decodes a file again. `away` is the way back to `Select`, where the next photo may be
picked while the count-down goes on. Decoding a torn file gives no bitmap. `opened` is
history: the finished photo the activity was opened for.

*Train.* `ui` is the message queue of the main looper, in the order of posting. A
runnable that calls into the recording and then goes on is two steps ("display", "ask"
are the second halves). The worker's position is `wpc`; its sleeps are `Awake`, which,
if the UI keeps up, waits until it has run what was posted (the sleeps last seconds,
the runnables milliseconds). `bar.about` is history: the picture on the screen when the
user touched the bar. Of the recording, one LinkedList call is one step. Two operations
iterate over the list: the copy loop of a save, and the `toString()` with which
`addToQueue` logs it on the serial thread (`serial` is "prints" meanwhile). Under an
append by another thread the iteration throws, under a clear it ends or, between `hasNext`
and `next`, throws; nothing catches it and the process dies. After a clear and an append
the list may be too short to notice. Of a recording in `storageMap` the model keeps only
what it was made of (`of`, history: the photo and the picture on the screen when the save
began): the worker saves the baseline under key 0, the UI thread the versions. The rigid variable
`setup`
says whether the headset runs, whether the UI keeps up, and what the user does.

*Q30Reader.* A byte is the pair of its packet and position, so that the properties can
see which packet a sample was cut from; only position 0 is a header. The line may
lose or garble a byte (`faults`). `ScanAt` is one iteration of the loop of `parse`, from the
place it begins at; `Scan` is the loop, the recursive function of that place. Packets have 3 bytes
and blocks 6 in the run: blocks are a multiple of
packets as in the code, and the junk read at the start makes every alignment occur.

*ConsumerQueue.* One step is one load or store of `write_index_`, `read_index_` or a
slot. `destroyed` counts how often a slot's reference was dropped. The refinement maps
the ring's contents to the abstract queue. `overlapped` records that pops of both threads
were in progress at once, from when on `LossyQueue` promises nothing (`void`).

*SampleFactory.* `reclaim_sample` is `Release` (which clears `next_`), `Exchange` and
`SetNext`; `pop_freelist` is one step per look at a field another thread may write. `Reach` is
what can be reached along `next_`, as the smallest set that is closed under it.

*SendBuffer.* `pushing` is the holding of `consumers_mut_` by a push; `todo` the consumers
it has still to serve. `members` changes under the lock only; a consumer takes from its
queue without it. A push onto a ring and a pop off it are one step each (`ConsumerQueue` is about
what is inside them); `consumer_queue::push_sample` is several of them: a push that succeeds
(`Deliver`), or one that fails (`FindFull`), a pop to make room (`Drop`) and another push. The
consumer may take in between, so that a sample is dropped from a queue that is no longer full:
`KeepsWhatFits` says exactly when. A registration is two steps because `notify_all` is called
after the lock is released.

*TcpServer.* `main` is the user's thread in the destructor. Per server: `shutdown_`, the
acceptor, the posted closes, its IO thread `io`. Per session: the pending asynchronous
operation `op`, the transfer thread `tpc`, the chunk in `feedbuf_`. Handlers of one IO
thread run one at a time; `AcceptCheck` and `AcceptBegin` are separate steps because
`end_serving` on the user's thread may come between them, and until `AcceptBegin` the IO
thread does nothing else. Clients are unconstrained: `ClientStep` has no fairness. The
rigid variable `setup` says how the outlet is used.

*CancellableStreambuf.* `pc`, `op` and `stack` are the thread that uses the buffer: a loop
over `run_one()` per operation, with `close()` nested in it where the code calls it.
`pending` are the operations the socket waits for, `ready` the handlers that can run:
`run_one()` runs any one of them. `canceller[r]` is a cancel from registry `r`: it raises
the flag, waits for the lock, and posts the close. `outcome` is "stale" if an operation
ended with the success of something else.

*Inlet.* `uses` is the set of calls the application makes, constant in an execution, and
`recoverable` its recovery flag. Hosts are numbered by their starts: `born` is the latest,
`up` those that run, `host` the one the inlet knows. A stopped host may close its
connections or leave them silent. `rec[t]` is where thread `t` (watchdog, data or info
thread) is in `try_recover`: it waits for the recovery lock, queries, updates. The
resolver is what it returns: the running hosts of the stream, or nothing once it has been
cancelled; its `cancel()` may throw while a query runs (`CancelResolver`, see `Resolver`), and
then the rest of `disengage` is skipped. The info thread looks at no error of its stream: what
has arrived when it ends, all of an answer, a part or nothing, is taken for the description if
it can be parsed, and asked for again at once if not (`InfoRead`). Only a registration or a
connect after a cancel throws, and leads to a recovery (`InfoError`).
The push of a sample into the inlet's own queue, with the drop it may need, is one step: no
property of the inlet looks at which samples are kept (`SendBuffer` has it in several).
`stream[r]` is the streambuf of a receiver and the host it was connected to; the registry
cancels those that are registered. The threads are `dpc`, `ipc`, `tpc`; a call that waits
looks at its condition and goes to sleep in two steps. In `TimeReceiver` `network` holds
replies on their way, which may be lost, late or twice, and each carries the host that
sent it: that is what an estimate and the published `offset` are about.

*UdpServer* and *Resolver.* Packets stay on the network for good, which covers loss,
delay and repetition; a query and its answer carry the query's id and the port to answer
to. An attempt that finds no port free in the range (`free` of a call is what the other
sockets of the machine leave of it) goes on unbound: the port in its query is 0, and no answer
can be sent there. A host's `sop` is its pending operation, whose completion and handler are separate
steps because the posted close may come between them. Of the resolver, `rpc` is the
thread in `resolve_oneshot` or the background thread; handlers of the `io_service` (timers,
posted cancels, receptions) run when it is in `run`. A timer that expires is "due", one
that is cancelled "aborted", until its handler has run. `att` is an attempt from its
construction, when it is registered though not yet owned by a `shared_ptr` ("bare"), to
its destructor ("dying"), which are the places where a cancel from outside may meet it.

## 3. The runs

| run | instance | shows |
|---|---|---|
| `select` | 4 filters; 1 selection with late workers or 2 with prompt ones; the experiment opened at any time | `NameInRange`, `NextMeansAllEnded` whatever increments are lost; `EachFilterInItsFile`, `NextEventually` for prompt workers; `ShowsItsSelection` |
| `train` | 2 photos, 2 versions, may be left; headset on, 2 analyses at a time and a UI that lags, or headset off, 3 touches per prompt and a UI that keeps up | `SavedUnderItsImage`, `AtMostOneStaleBatch`, `DiesOnlyOfSharedQueue`, `RatingOfItsImage`, `OneRatingPerImage`, `SessionEnds` |
| `q30_faults` | 7 packets, 2 line faults, pauses | `ExactlyWhatArrived` on a clean line, `NoArrivedPacketLost` on any |
| `queue_ring` | capacity 3, 8 samples | `LossySpec` (refinement), `DroppedOnce`, `PushReturns` |
| `queue_race` | capacity 2, 4 samples | violation: `ThreadSafe` |
| `factory_free` | 2 reserved samples, 4 in all, 2 releasing threads | `NoneLost`, `HandedOutOnce`, `GrowsOnlyIfNeeded` |
| `buffer` | 2 consumers, limit 2, requests 0, 1, 5, 4 samples | `LatestInOrder`, `NoDeadQueueServed`, `KeepsWhatFits`, `WaiterWoken` |
| `server` | 2 servers, 1 session each; three uses of the outlet | `ThreadHoldsItsSession`, `NothingLeft`, `ChunksAsAsked`, `DestructorReturns`, `TransfersEnd` |
| `streambuf` | 2 registries, 3 cancels | `CancelsOnlyLive`, `StaleIsLast`, `NotReused`, `CancelEnds` |
| `inlet` | six sets of calls with 1 to 3 starts of the source | `NoStreamOfOldHost`, `OffsetOfItsWave`, `DestructorReturns`, `RecoversFromSilence`, `PullEndsWhenLost` |
| `inlet_destroy` | an inlet that is destroyed after a pull | violation: `StopsReading` |
| `discovery` | 1 host, 2 queries, 1 attempt at a time; two calls, a call without a port, or a continuous one | `ResultsOfQuery`, `ResolveEnds`, `HostFound` |

Each module has a type invariant (`TypeOK`, or a name with that ending) for whoever changes
it. The runs do not spend time on them: all are part of what is proved.

### Bounds

- `NumFilters` = 4: three workers can lose increments to each other while a fourth is
  still to start, and `Experiment` has four views. Two selections overlap and share the files;
  late selections do not share anything the properties for late workers look at, so
  one is enough.
- `NumPhotos` = 2, `NumImages` = 2: a second photo reuses everything the first left behind,
  a third adds no new kind of transition. Three touches per prompt: one that is
  polled, one between poll and reset, one between reset and reading.
- `MaxQueue` and `MaxAnalyses` bound batches waiting and analysis threads alive; with two
  of each a copy, an append and a clear can meet in every order.
- `Capacity` = 3, `NumSamples` = 8: the ring has four slots and the indices go round twice.
- `MaxSamples` = 4 of the factory with three threads: the list can be empty, can hold the
  sentinel only, and can be cut in two places at once.
- `samples` of a setup and `NumSamples` bound the histories; after the last one the actions
  that are left still run, including the whole shutdown.
- The three setups of `MCTcpServer`: chunking needs a single client (section 4); the second
  server's client is the one that depends on the order of shutdown; two clients and pings
  alone is the shutdown with everything in it.
- `MaxCancels` = 3 with two registries: both may cancel at once, and one of them again.
- `Starts` of `MCInlet` pairs the calls an application makes with the starts of the source:
  the more threads run, the fewer starts. Two starts are one recovery, three a recovery
  that is overtaken by the next start. One sample waiting is enough for a pull to find it
  or not; `NumProbes` = `MinProbes` = 2 is a wave that is complete or one short, and one reply
  in flight at a time can already be from a former wave or host. `MCInlet_destroy.cfg` needs
  one host and two calls only, for a counterexample that can be read.
- `Attempts` = {a1}, one port: every attempt reuses the port, so that answers to earlier
  queries reach later ones; in one of the plans the range is exhausted and none is left.
- Every configuration has `CHECK_DEADLOCK FALSE`: these systems stop when the bound on
  pushes or photos is reached, when the user does nothing more, or when the object is gone.

### Fairness

- `Select`, `Experiment`: each thread is scheduled (weak fairness for each coordinator and
  worker, the UI thread's part and the count-down); the user need not pick or open anything.
- `Train`: weak fairness for the worker, the UI thread and the analysis threads, and for a
  positive rating while the bar is up, that is, a user who answers in the end. None for
  leaving.
- `ConsumerQueue`: weak fairness of the pushing thread alone, none of the puller: the
  claim is that pushing does not depend on it.
- `SendBuffer`: a push and a notify go on, and strong fairness for the waiter's test, since
  it competes for a mutex that pushes hold again and again. Nothing relies on the timeout.
- `TcpServer`: each of the outlet's own threads and the work posted to it. Clients owe
  nothing. `ForceStop`, the stop of an IO service when the join has timed out, is part of
  the destructor's thread and enabled only when all that is left to wait for are clients:
  before that it would be a matter of a busy machine.
- `CancellableStreambuf`: the thread and each cancel that has begun go on; a send into the
  socket's buffer completes. The peer need not answer.
- `Inlet`: all threads of the inlet run; a call that has begun goes on; a query is answered
  or cancelled. Strong fairness where a thread competes or retries: the recovery lock, and
  connecting to a host that stays up, of which one attempt succeeds in the end. No fairness
  for samples, for the hosts' starts and stops, or for the user.
- `Resolver`: threads run and timers expire. `NoneStaysReady` says that an `io_service` that
  runs does not leave a handler ready for ever, which follows from its queue being served in
  order. Strong fairness for the arrival, at a host that goes on serving, of a query that names
  a port, and for the arrival of an answer with something new: a network that loses everything
  finds nothing.

## 4. What the checks say about the code

Properties that hold are those in the table; these points deserve a remark.

- *Select* is safe although `count++` is unsynchronised: lost increments only hold the
  counter back, so a name is always in range and the button never early. What depends on
  the 200 ms is which file a picture lands in, and whether the button comes at all.
- *Experiment* shows one photo if it was opened for a finished one and the user stays.
  The count-down is not stopped when he leaves.
- *Train*: with one touch per prompt the polling protocol is exact. With more, a touch
  between poll and reset is swallowed and one after the reset lets the next version pass,
  but a rating is never entered for a version it was not given for, provided the UI keeps
  up. The batch the serial thread holds at `beginQueue` may end up in the new recording,
  at most one. Under a key is a recording of the version of that number, and of this photo
  once it has been asked about. The process dies of the shared list only, which is bad
  enough: a save while a batch is added or logged can end it.
- *ConsumerQueue* implements `LossyQueue` until the two pops overlap.
- *CancellableStreambuf*: a cancelled read may once return the bytes of an earlier one, but
  it is the last that does, and every operation ends.
- *Inlet*: an offset may be published for a host that has been replaced, but the estimates
  it is made of are of hosts asked in the present wave.

### Disagreements that a run demonstrates

- `queue_race`: the queue calls itself thread-safe (`L/consumer_queue.h` 15-16), but the
  producer pops from a ring made for one consumer.
- `inlet_destroy`: the stream is to stop reading if the inlet is destroyed
  (`L/stream_inlet_impl.h` 49). If the watchdog or a receiver is looking for the source just
  then, `resolver_.cancel()` (`L/inlet_connection.cpp` 96) may throw (`CancelAll` of `Resolver`),
  `disengage` breaks off, no stream is cancelled and the watchdog is not joined: a data thread
  in a silent stream goes on reading, and the destructor waits for it for ever. If no receiver
  reads, the destructor returns and the watchdog outlives the inlet. `DestructorReturns` says
  that it hangs in no other case.

### Disagreements seen in the models, without a run of their own

Training and headset:

- `K/Train.kt` 163-164: `saveAndEndQueue` stores a list and clears the same list, so every
  recording is empty (the comment at 58 speaks of a baseline measured).
- `K/Train.kt` 391 and 423: the baseline is filed under key 0 and version 0 too, so the
  recording of the version replaces the baseline, which nobody has read by then.
- `K/Train.kt` 226-229: `onDestroy` stops the recording, and a runnable the worker has
  posted starts it again (`OnDestroy`, then `UiBegin`).
- `K/Experiment.kt` 51: after the user has gone back and picked another photo, the end of the
  count-down may decode a file that is half written; there is no bitmap then and the
  process ends (`OnFinish`). Opened with the button left from an earlier photo, the activity shows
  pictures
  of two photos or fails in the same way: `ShowsItsSelection` says that nothing else
  leads there.
- `J/device/eeg/CognionicsQ30DataParser.java` 85: an incomplete packet survives a pause or
  a fault and is put in front of bytes that do not continue it, so that a sample can be
  made of two packets; the comment at 211-212 says "ignore and skip to next packet".

Outlet:

- `L/sample.h` 82: the destructor walks from the newest node, which has no successor, and
  deletes no sample it constructed; the comment at 80 says all (`Destructor`, and the
  theorem `NothingDeleted`: in no execution does it delete one).
- `L/tcp_server.cpp` 76: the wake-up sample of one server goes to the clients of the other,
  though "ignore blank samples" (384) promises otherwise (`Ping`, then `SaveSample`).
- `L/tcp_server.cpp` 97-100: a connection accepted while `end_serving` runs can be
  registered after the sockets in flight were closed; a silent client then holds its IO
  thread until it is stopped by force, which `L/stream_outlet_impl.cpp` 104 expects only
  when the CPU is maxed out (`ForceStop`).
- `L/tcp_server.cpp` 388-392: the chunk size of one client is written into the
  pushthrough flag of a sample that other clients share, so it changes their chunks;
  `L/../include/lsl_c.h` 492 describes the flag as the sender's. `ChunksAsAsked` is
  therefore stated for executions with a single client.
- `L/udp_server.cpp` 92: if the close of the socket runs after the completion of an operation
  and before its handler, the next operation is started on a closed socket, fails with an
  error that is not taken for the end, and is started again, for ever (`HostAborted`,
  `BeginOp`). Only the forced stop of the IO service ends it.

Streams and inlet:

- `L/cancellable_streambuf.h` 63-66 says that all blocking operations fail after a cancel. A
  close that runs inside the `run_one()` of a read leaves `ec_` a success (108-109, 152-158),
  and the read returns bytes that were read before; a connect may report success on a
  closed socket. `StaleIsLast` is what remains true.
- `L/inlet_connection.cpp` 241: `lost_` is set and the waiters are notified without their
  mutex, so that an `open_stream`, `info` or `time_correction` without a timeout that is
  between its look and its sleep is not woken (`Wait`).
- `L/inlet_connection.cpp`: `close_stream` of an inlet that does not recover makes the stream
  lost. `L/data_receiver.cpp` 57, 67: a data thread that has ended stays joinable, so that
  opening the stream again, or pulling, starts none.
- `L/data_receiver.cpp` 65: `close_stream` between the data thread's test of the flag and its
  registration of the stream cancels nothing, and the connection to a silent host stays.
- `L/time_receiver.cpp` 221: a recovery resets the offset, and a wave that has begun before
  may publish one of the old host afterwards. The thread does not end when the stream is
  lost (`L/time_receiver.h` 28), and each wave leaves one more pending receive (121).
- `L/resolver_impl.cpp` 220-230: a `cancel()` from another thread may meet an attempt that is
  registered in its constructor but not yet owned, or whose destructor has begun;
  `shared_from_this()` throws and the remaining attempts are not cancelled (`CancelAll`).
  `~resolver_impl` catches the exception but leaves the thread unjoined. A unicast burst whose
  timer is already due creates
  attempts after the cancel, which end by their own timeout.
- `L/resolve_attempt_udp.cpp` 43: the message says that a randomly assigned port is used when none
  is free in the range; the socket is not bound at all, its query names port 0, and the attempt
  never gets an answer (`FreePort`). With random ports allowed, the default, this does not happen.
- `L/info_receiver.cpp` 61-71: a connect, send or read that fails does not throw, so the info
  thread neither recovers nor finds the loss; it asks again at once, in a loop without a pause as
  long as the host is gone, and an answer that is cut off where it can still be parsed is stored as
  the full description (`InfoRead`). Only a recovery by another thread gets it to a new host.

## 5. What is proved

Assumptions are only the named ASSUMEs of the modules: sizes are natural numbers, some of
them positive, and sets of inputs have their type. TLC evaluates them in the runs. All
theorems are for every value of the constants and for specifications without fairness.

`SelectProof`, for any number of filters and selections:

- `NameAlwaysInRange`, `NextOnlyAfterAllEnded`, for workers of any speed. Neither is
  inductive: the counter has to be related to the workers. The strengthening
  `IndInv` adds `Behind` (the counter, and each value a worker has read and will write
  plus one, is at most the number of ended workers) and `NotYetSpawned` (a worker beyond
  the loop index has not begun). A worker yet to take its name has not ended, so fewer than
  all have, and the index is below `NumFilters`. The counter reaching `NumFilters` means all
  have ended. The lemmas about `Ended` rest on the library's facts on finite cardinalities.
- `EachInItsFile`, for prompt workers. `FileInv` says that the workers of a selection take
  turns (`InTurn`: when one runs, the counter is its number), that the selections follow
  each other (`OneByOne`), and what is in the files of a selection that is alone
  (`OwnFiles`).

- `ImplementsSelect`: under the experiment `Select` runs unchanged, each step of the
  composition is one of `Select` or a stutter. So the theorems above hold
  there.
- `AlwaysShowsItsSelection`: as long as the user has not left, no photo is picked, the one
  the experiment was opened for stays alone (`StaysAlone`), and what is decoded is its own.
- `ExperimentTypeCorrect`: types under the experiment, the index of the view in front included.

`TrainProof`, for any numbers of photos, versions, batches and analysis threads, and any
user:

- `Typing`, `OnlySharedQueueKills`, `OneStaleBatch`, `FiledUnderItsImage`, `RatedAsItsImage`,
  `OneRatingEach`. The invariant has five parts. `RecordingInv`: what is listed or being
  analysed is in the map, a stale batch is the only one, and without the headset the list
  stays empty. `SessionInv`: the worker's
  posts follow a script, so the number of runnables it has posted for the present photo and
  the number the UI has done fix which ones are waiting, in which order and about which
  picture; with it the counter on the UI thread is in step with the picture.
  `FiledInv`: before the counter goes on, the recording is in the map under it, and the
  worker's save is over before the first version is posted. `BarInv` and `PromptInv` relate the
  rating bar, the flag and the ratings entered to the place of the worker in its script, for a UI
  that keeps up.

`Q30ReaderProof`, for any packet size, block size and number of packets:

- `TypeCorrect`: in particular, what is kept for the next block is at most one packet.
- `NoneMissed` (`NoArrivedPacketLost`), on any line. The lemma about the loop is `ScanKeeps`: a
  packet that is whole in the data is among the samples returned, and one that is cut at the end is
  what is kept, at whatever place of the data it begins. The invariant `KeepInv`
  adds to the property `PendingKept`: if what has been received ends with the beginning of a
  packet, the reader has kept those bytes.
- `NothingElse` (`ExactlyWhatArrived`), on a clean line without a pause. `CleanInv` says that the
  bytes are in step with the stream, and where the reader stands (`At`): after s bytes, which end
  at the border of a packet, it has returned the packets among them and kept the rest. `ScanInStep`
  is what one block does to that.

The loop is recursive and a proof by induction is not to be had (below), so the lemmas
argue with an extreme counterexample: the function is defined by recursion towards larger places,
so if it had not the property somewhere, it would lack it at a largest place, and there
`ScanAt` gives it from the next one. `DownInduction` states this for subsets of an interval,
from `LeastNat`: a non-empty set of numbers has a least member.

`LockFreeProof`, for any capacity and number of samples of the ring:

- `NeverDroppedTwice` (`DroppedOnce`) and `ImplementsLossyQueue` (`Spec => LossySpec`). The
  invariant `RingInv`, which holds as long as pops have not overlapped: the slots between the two
  indices hold consecutive samples that end with the last one pushed, an index that a thread
  has loaded is the current one, and at most one thread pops. The refinement maps the
  contents of the ring, as a sequence, to the abstract queue; a store of `read_index_` is
  its drop or take, a store of `write_index_` its push, every other access a stutter.

and for any reserve, number of samples and releasing threads of the freelist:

- `NoneEverLost` (`NoneLost`), `AlwaysHandedOutOnce` (`HandedOutOnce`), `AlwaysGrowsOnlyIfNeeded`
  (`GrowsOnlyIfNeeded`), `NothingDeleted`. The invariant `FInv` says that the nodes from `tail_` to
  `head_` form a list without repetition (`Chained`), in which the next node is either the value
  of `next_` or the one a release is about to write there, between its exchange and its
  write (`Gap`). Every sample constructed is in the list, in use, or held by a release that has
  not yet exchanged (`Placed`). `PopInv` says what the locals of `new_sample` are worth, and
  `Alone` that without a release in progress the list has no gap but the one of the call itself.
  An exchange appends a node to the list, handing out takes off its first, and `NoneLost`
  follows because a list without gaps is what `Reach` collects from `tail_`: here too the
  node of the list that is not reached would be a first one (`LeastNat`).

`SendBufferProof`, for any set of consumers, limit and requests:

- `Typing`, `AlwaysLatestInOrder`, `AlwaysWithinCapacity`, `DeadQueueNeverServed`.
  The inductive invariant `IInv` says of each registered consumer that its queue is a
  *window*: consecutive samples that end with the last one this consumer was served
  (the one being pushed, if it has had its turn), no more than the samples since its
  registration and no more than its capacity. Three lemmas say what taking the head and
  appending do to a window; then there is one lemma per action.
- `EverythingThatFits` (`KeepsWhatFits`). What a consumer took last is older than everything
  that waits for it (`TakenInv`): so taking a sample always changes `taken`, and the only
  other step that moves the lower end of a window is a push's pop (`TakenStep`). From the push
  that found the queue full on, either the queue is still full or the consumer has taken
  whatever left it (`FullInv`): then the sample it took last is one of the `cap` that waited.
- `TakenAlways`, `TakeGrows`: the same facts, stated for those who use a send buffer.

`TcpServerProof`, for any number of servers and sessions and any use of the outlet:

- `ThreadAlwaysHoldsItsSession`, `NothingIsLeft`. The invariant relates the pending operation
  of each session to its transfer thread and to the sockets in flight (`SessionsInv`), and
  each IO thread to its sessions: one accept at a time (`AcceptsOne`), none alive where the
  thread has ended (`EndedIsEmpty`), and the destructor only past threads that have stopped
  (`JoinedStopped`).
- `BufferPromises`: the theorems of `SendBufferProof` hold of the buffer the servers use, of which
  every step is one of `SendBuffer` or leaves it alone. They are obtained by instantiating that
  module, not proved again.
- `ChunksAlwaysAsAsked` (`ChunksAsAsked`). The numbers of the samples a thread takes grow
  (`TakenAlways`, `TakeGrows`), so each is new in `feedbuf_` (`FeedInv`), and the counter of the
  session is the number of samples there (`ChunkInv`); with a single client nobody else writes
  the flag that ends the chunk.
- `TypeCorrect`.

`NetworkProof`, for any registries and number of cancels of a streambuf:

- `CancelsOnlyRegistered`, `NeverReused`. A cancel raises the flag before it waits for the
  lock, and connect looks at the flag under the lock: so no close is posted between that look
  and the opening of the socket (`NotPostedWhileLocked`).
- `StaleEndsTheStream` (`StaleIsLast`). The invariant says what can run while the socket is
  open and no `close` is under way: the operation of the user, alone (`OneAtATime`). So an
  operation that ends with a success other than its own has seen a `close`, and the socket
  stays closed. An operation that `connect` gave up is the exception; it is only left behind
  once `cancel_issued_` is set, and then the next `protected_reset` closes.
- `AlwaysNestsWithinCancels` (`NestsWithinCancels`, which no run checks). `Nesting` accounts for
  the cancels: each has yet to be posted, has cleared `cancel_started_`, or has been used up by
  a `close` on the stack. Before the first is posted there is no `close` on the stack but one of
  `protected_reset`, which holds the lock that the posting waits for.
- `StreambufTypeCorrect`.

and for any hosts, queries and plans of the resolver:

- `ResultsAlwaysOfQuery`. Every answer that is ever on the network comes from a host that
  matches its id (`AnswersMatch`), and an attempt takes only answers with its own id.
- `WaveFindsOwned`, from `AttInv`: one attempt at a time is being constructed or destroyed, by
  the resolving thread, so the cancels of that thread meet only attempts that can be cancelled.
- `ResolverTypeCorrect`.

`InletProof`, for any use of the inlet, any hosts that come and go, any sizes of queue and wave:

- `OldHostGone` (`NoStreamOfOldHost`). A stream takes the address of the present host or has none
  yet, and the step that replaces the host cancels those registered. The invariant `Inv` relates
  each stream to `host` (`StreamInv`), and what a query has returned to the hosts started (`RecOK`).
- `OffsetOfWave` (`OffsetOfItsWave`). A reply that belongs to the present wave comes from a host
  that wave has asked (`RepliesOfAsked`), however late it is.
- `TypeCorrect`, which includes that the number the watchdog looks at is the number of
  receivers at work (`ActiveOK`).

Only model-checked: the liveness properties (`NextEventually`, `SessionEnds`, `PushReturns`,
`WaiterWoken`, `DestructorReturns`, `TransfersEnd`, `CancelEnds`, `RecoversFromSilence`,
`PullEndsWhenLost`, `ResolveEnds`, `HostFound`), because proofs under fairness need ENABLED, which
the prover does not
support. Every safety invariant and action property of a passing run is stated by a
theorem. The library's induction theorems take the property as a parameter, which the installed
provers cannot instantiate; where the model is recursive, the proofs use a least or
a greatest counterexample in its place.

## 6. Plan

1. `SendBuffer` on `ConsumerQueue` in the small: two consumers whose queue operations are
   taken apart, with `LossyQueue` as the interface.
2. Proofs: what the liveness properties rest on as safety properties, such as that
   a thread that sleeps has a signal to come, or is one of those section 4 names.

The whole project is kept to a dozen runs and about forty properties. A new component
gets one run; where one has to give way it is a run that demonstrates a disagreement
already described in section 4, or a property that a theorem or a stronger property
implies. Variants of one system are one run through a rigid variable (`prompt` of
`Select`, `setup` of `Train` and `TcpServer`, `uses` of `Inlet`, `plan` of `Resolver`) or a
history variable (`paused`, `retouched`, `overlapped`).

## 7. Not modelled, and why

- `K/Start.kt`, the slide show: one chain of a thread, a count-down and the next photo, each
  started by the one before it, on local variables only. Nothing runs beside it that it
  shares state with.
- Pixels, signal filters, FFT, clock smoothing: arithmetic on floating-point numbers.
- Layout, preferences, dialogs, camera and gallery: platform code around single calls.
- FTP client, CSV writer thread, Bluetooth accept loop: not reached or not started by the
  application, or a few lines around the platform.
- The C interface, XML meta-data with its cache of query results, sample conversion and
  serialization: data without control that other parts depend on.
- boost, pugixml, SWIG wrappers and `R.java`: vendored or generated, and most of the lines
  under `src/`. Of boost, the ring of `spsc_queue` is modelled because `consumer_queue`
  depends on its interleavings.
- Memory orders weaker than sequential consistency: steps interleave in one order. The
  ring and the freelist use acquire and release as their designs require; what a
  weaker order could add is outside these models.
