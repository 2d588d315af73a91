# TLA+ specifications of the Dahua DirectShow source filter

The repository is a DirectShow capture filter for Dahua DVRs: an application
(any DirectShow program) sees a video capture device; the filter logs in to the
DVR through Dahua's network SDK and shows the live picture. `src/Filter` is the
product, `src/directshow/baseclasses` the Microsoft base classes it is built on
(and compiled with), `src/DahuaSDK` headers and binaries of the SDK. There are
no tests and no documents; the only statements about behaviour are comments and
assertions.

## 1. Inventory

Threads: any number of application threads (the filter registers itself with
threading model "Both"), one worker thread of the pin (`CSourceStream` is a
`CAMThread`), one or more threads of the SDK, and the threads of the downstream
filters, which give samples back.

| Component | State | Operations | Interaction |
|---|---|---|---|
| Allocator: `CBaseAllocator`, `CMemAllocator`, `CMediaSample` (amfilter.cpp) | free list, committed and pending-decommit flags, properties, waiting count and semaphore, reference counts of samples and of the allocator | SetProperties, Commit, Decommit, GetBuffer, ReleaseBuffer, AddRef/Release of a sample | the worker takes buffers, renderers give them back, the application's state change commits and decommits |
| Worker calls: `CAMThread` (wxutil) | thread handle, access lock, parameter, return value, two events | Create, CallWorker, GetRequest, CheckRequest, Reply, Close | application threads call, the worker answers |
| Streaming: `CBaseFilter`, `CSource`, `CSourceStream` (amfilter.cpp, source.cpp) | filter state, state lock, worker's place in its loops | Stop, Pause, Run; Active, Inactive; ThreadProc, DoBufferProcessingLoop | uses the two above, calls FillBuffer and the downstream Receive |
| Device: `CDahuaDevice`, and `CDahuaSourceStream`'s ConnectDevice, GetMediaType, FillBuffer | login, channel vector, channel node, frame buffer and its lock | connect, play, read channel, copy frame, SDK callback | called by application threads and by the worker without a common lock; the SDK calls back |
| Media types and connection: `CBasePin`, `CBaseOutputPin`, SetFormat, GetStreamCaps | m_mt, the connected pin, the allocator | connect, disconnect, enumerate, set and get format | application, downstream pin |
| Output queue: `COutputQueue` (outputq.cpp) | list of samples and notices, batch, last result, flushing flags, waiting count, semaphore, flush event | Receive, ReceiveMultiple, NewSegment, EOS, SendAnyway, Reset, BeginFlush, EndFlush, the queue's thread | streaming thread puts in, the queue's thread or the caller delivers downstream, a control thread flushes |
| Clock: `CBaseReferenceClock`, `CAMSchedule` (refclock.cpp, schedule.cpp) | sorted list of advises, cache of packets, clock, event | AdviseTime, AdvisePeriodic, Unadvise, SetTimeDelta, the advise thread, the destructor | applications and renderers set advises, the thread notifies |
| Renderer: `CBaseRenderer`, `CRendererInputPin` (renbase.cpp) | filter state, held sample, four events, advise, end of stream timer | Stop, Pause, Run, BeginFlush, EndFlush, Receive, EndOfStream, timer callback | waits in the streaming thread for the clock; upstream flushes |
| Pull pin: `CPullPin` (pullpin.cpp) | range, thread state, outstanding requests | Connect, Active, Seek, Inactive, Disconnect, both loops of Process | an IAsyncReader, a pin downstream, a worker thread |
| Arithmetic: `llMulDiv`, `Int64x32Div32`; the sizes in SetProperties and Alloc; GetFrameSize, YV12_to_RGB24, the offset in UpdateVideoFrame | none (pure) | | called by the above |
| Registry parameters | READ_COMPLETE | read, write flag | external configuration program |
| Filter object, factory, registration | reference counts | | COM |
| Stream control, message thread, enumerators, dynamic and input pins, video renderer, transforms, user interface helpers | | | base classes the product does not use |

What is hard here, and what must hold in spite of it (`hazards` in
PROJECT.json has the lines):

* **Allocator.** A thread decides under the lock that it has to wait and waits
  after it; meanwhile buffers come back, the allocator is decommitted or
  committed again, and a NOWAIT call leaves a count behind. No wake-up may be
  lost; a decommit that finds buffers out ends with the last of them; nobody's
  memory is taken away; the reference taken by the first commit is released
  exactly once.
* **Worker calls.** Two events, one parameter and one result serve all calls;
  everything depends on the order of four assignments. A caller gets the answer
  to its own question, and every call returns.
* **Streaming.** Stop holds the state lock, waits for a worker that may wait for
  a buffer that a renderer may keep for ever. State and thread must agree,
  whatever fails on the way; after Stop nothing is delivered.
* **Connection.** `m_mt` is at the same time the type of the connection, the
  choice of the application and the variable GetStreamCaps works in; Connect
  holds the filter's lock and the other two hold none. An attempt that fails at
  any step leaves neither pin connected, and the buffers fit what the receiver
  was told.
* **Output queue.** The thread counts itself as waiting before it waits, a client
  signals only when it counts, and only when there is enough for a batch. A flush
  passes through the list, the thread and the pin downstream, each with a flag of its own.
  No signal is lost, a flush meets no sample, and nothing from before it comes after it.
* **Clock.** The thread sleeps for a time computed from the first advise while
  others are made and withdrawn and the clock is moved. No advise is slept through,
  notified twice or out of order; list and cache never share a packet.
* **Renderer.** The streaming thread waits inside Receive without a lock, for
  the clock or for Stop, and a timer's callback waits for the lock that the
  thread killing the timer may hold. No sample is kept after Stop or flush,
  completion is told once and last, and every call returns.
* **Pull pin.** Stopping means flushing the reader, answering the command, taking
  back what is outstanding and restoring the reader, in an order two threads share.
* **Arithmetic.** Carries, signs and sums that wrap at the end of a word.
* **Device.** Connection is a sequence of fallible calls without a lock, made
  by whoever comes first; only the frame has a lock. One session, whole frames,
  and a retry that works as far as the code retries. What the DVR reports (a
  frame rate that may be 0, as many channels as it likes) is used unchecked.

## 2. Modules

| Module | Models | Kind |
|---|---|---|
| `BufferPool` | what an allocator promises: open, closed, buffers lent and returned, disposed of when closed and complete | abstract specification |
| `MemAllocator`, `MCMemAllocator` | the allocator, one action per critical section or unlocked access | detailed; implements `BufferPool` |
| `WorkerCall` | a call: asked, answered, returned | abstract specification |
| `CAMThread` | the call protocol, one action per event operation or assignment | detailed; implements `WorkerCall` |
| `SourceStream` | filter state changes, Active, Inactive, ThreadProc, processing loop; `INSTANCE`s `CAMThread` for every step of a call | composition |
| `DahuaDevice` | connection, play, frame; the SDK from how it is used | detailed |
| `PinConnect`, `MCPinConnect` | Connect with every attempt step by step, SetFormat, GetStreamCaps, reconnection | detailed |
| `OrderedPipe` | what goes in comes out in order, and not after a flush | abstract specification |
| `OutputQueue`, `MCOutputQueue` | the output queue with and without a thread | detailed; implements `OrderedPipe` |
| `AlarmClock` | alarms ring when due, the earliest first, once or with a period | abstract specification |
| `ReferenceClock`, `MCReferenceClock` | clock and scheduler down to the links of the list | detailed; implements `AlarmClock` |
| `Renderer` | state changes, flush, Receive, end of stream, advise and timer | detailed |
| `PullPin`, `MCPullPin` | the pulling thread and its commands | detailed |
| `MulDiv`, `AllocatorSizes`, `FrameConvert`, `MCArithmetic` | the pure computations in words that wrap | operators, checked against reference definitions |
| `MemAllocatorProofs`, `DahuaDeviceProofs`, `OutputQueueProofs`, `RendererProofs`, `PullPinProofs` | | theorems about the module of the name (section 4) |
| `SourceStreamProofs`, `ThreadProofs`, `ArithmeticProofs` | | theorems about `SourceStream` and `PinConnect`; `CAMThread` and `ReferenceClock`; the operators and invariants of `MCArithmetic` |

Variables carry the names of the members they stand for (`m_bCommitted`,
`m_EventSend`, `m_State`, `iHandle`); the others say in a comment what they are:
program counters (`pc`, `cpc`, `wpc`, `apc`), local variables, and what the
environment has. Code under a lock is one action where nothing else can see
what is between; every access that another thread can come between is an action
of its own. Operators marked *Mutant* are not part of the specification: each is
a wrong form of the operator after it, with which some property fails.

**MemAllocator.** Threads call SetProperties, Commit, Decommit, GetBuffer with
and without AM_GBF_NOWAIT and hold, share and release samples. A sample is a
model value; its memory is abstracted to the size it was allocated with. The
semaphore is a counter; `WaitForSingleObject` is the guard `Signalled`.
`Release` of a sample is split where the code tests `m_cRef == 1` without a
lock before it stores 0 or decrements, and `ReleaseBuffer` where it reads `m_pNotify` after the lock. `SetNotify`
is never called in the repository, so `m_pNotify` is NULL throughout.

**CAMThread.** `CallWorker` is lock, parameter, set, wait, result; `Reply` is
result, reset, set. `TakeRequest` is GetRequest as well as a CheckRequest that
finds a request. In `CAMThread` alone the worker is any ThreadProc that takes a
request, looks at it as often as it likes and answers it; `SourceStream` has the
real one.

**SourceStream.** Stop, Pause and Run take the state lock, which is
recursive, and keep it through Active or Inactive. The allocator is one buffer,
as DecideBufferSize asks, that is free, with the worker or with the receiver;
`GetBuffer` waits for it while committed and fails while not, as `MemAllocator`
shows. A sample the receiver keeps may be kept for ever. `FillBuffer` and
`Receive` return any of the results the loop distinguishes.

**DahuaDevice.** One label per fallible SDK call and one per access to a shared
member. Frame rate and frame size are 0 or 1 (zero or valid); the content of
the frame is none, black, partial or a whole frame. The frame rate is whatever
the DVR says (DahuaDevice.cpp:158), 0 too; indexing a channel vector that is
empty or has no such channel (nobody compares the number with its size) is
undefined and may give any rate. GetMediaType's division by 0 is an exception
nobody handles: the call stays where it is for ever (`DivideByZero`). `local` holds the variables of a call, and
after FillBuffer what it copied. `StopPlay` is never called and `OnDisconnect`
changes nothing, so neither is an action. A behaviour chooses at the start
whether calls may overlap (`serial`): what the code promises only to a caller
who does not, a property says with `serial` in its premise.

**PinConnect.** A media type is one of the two the pin offers, one of another
size, or an unsupported one; only equality is used. `Connect` walks through the
types it is given, the receiver's, or the pin's own, one label per call that can
refuse: CheckMediaType, ReceiveConnection, CompleteConnect. `accepts` and
`offers` say what the receiver takes and enumerates, chosen at the start.
`m_pAllocator` is abstracted to the type its buffers are sized for, `rType` is
what the receiver believes. Where calls may overlap (`serial` false), SetFormat
and GetStreamCaps write m_mt member by member while Connect reads it; the result
of the comparison and the size of the buffers are then left open, so the model
does not rely on the assignment being atomic. The graph's reconnection, which
SetFormat asks for, happens at some later time, with the filter stopped.
SetFormat(NULL), which a comment says resets to the default type
(SourceStream.cpp:280), changes nothing but asks for the reconnection;
`TypeSticks` says nothing of it, and `PinConnectReset.cfg` shows that the comment
(`NullResets`) is not what happens.

**OutputQueue.** Three actors: the streaming thread (label `spc`), the queue's
thread (`qpc`) and the control thread that flushes and destroys (`apc`). What is
under the critical section is one action unless it calls downstream; `lock` says
who keeps the section across such a call, as the code without a thread does. The
constructor's arguments for thread and batches, and the flushing optimisation,
are the record `mode`. The downstream pin may keep a sample until
it flushes. As the comments of BeginFlush and EndFlush ask, no streaming call is
in progress during EndFlush. `OrderedPipe` sees the batch, the samples being
sent and the list as one pipe.

**ReferenceClock.** `m_next` is the linked list, from the head through the
packets to `z`, and the cache; a time is half a millisecond, because SetTimeDelta
ignores less than one. The advise thread reads the time, works off one packet per
step under `m_Serialize`, and waits with the timeout it has computed; `Tick` is
time. A wait of `UintMax` or more is one without end, because UINT_MAX milliseconds,
49.7 days, is the value of INFINITE (refclock.cpp:360-362). The lower bound GetTime keeps, which is about reading the clock and not
about advises, is left out.

**Renderer.** The events are Booleans, manual or automatic as in the code; the
clock is the set of the advises it has, the multimedia timer the set of timers
that run and the callbacks that have begun. `killSync` says whether
timeKillEvent waits for a callback that has begun (since Windows XP it does;
wxutil.cpp:715): both kinds are in
every run. The streaming thread waits in Receive under no lock. Stop and Pause write
the state under the interface lock alone, stop the streaming under the renderer's
lock, and reset the end of stream after that: between these steps every other
thread may run, the timer's callback too.

**PullPin.** The worker's two loops, asynchronous with one request ahead and
synchronous, are the labels of `wpc`; a request is the piece of the file it
asks for. A command and its reply are `request`, as `CAMThread` shows they may be.
The reader answers in order, or not before it is flushed. The pin downstream may
keep the samples it is given (`kept`), and the worker waits in GetBuffer when all of
them are; a flush of the reader does not end that wait.

**Arithmetic.** `MulDiv` keeps every intermediate value at its width, with
DWORDs of `WordBits` bits; `AllocatorSizes` wraps every sum above `MAXLONG` and rounds
with C's remainder, for alignments of either sign;
`FrameConvert` has the table of modes as it is and the indices, not the
colours. `MCArithmetic` makes a step of every call with every input.

## 3. Runs

| Run | Bounds | Shows |
|---|---|---|
| `allocator_safety` | 3 threads, 2 samples, two shares, one surplus wait, symmetric threads and samples | `BuffersAccounted`: every buffer is in one place and of the agreed size; `DecommitOnce`: a decommit completes when the last buffer is back and releases its reference once; `WaitersAreWoken`; `ImplementsPool` |
| `allocator_liveness` | 3 threads, 1 sample | `DecommitEnds`: waiters are let go, pending decommits end |
| `worker_call` | 3 clients, 2 parameters | `OwnReply`, `CallReturns`, `ImplementsCall` |
| `stream_states` | 2 application threads, failing commit and thread creation, every result of FillBuffer and Receive | `ThreadMatchesState`, `QuietWhenStopped`, `CommandsExpected`; `StateChangeEnds`; `StreamMoves`: a started worker delivers |
| `device` | one application thread and the worker, one call at a time with up to 2 failures or overlapping with 1, the SDK at any time | serially `ConnectedOnce`; always `FrameIsWhole`; `RetrySucceeds`: the channel plays for good if the application keeps asking, unless a call of StartPlay failed (the login is then kept and nobody tries again) |
| `pin_connect` | 4 types, every set of accepted types, 4 enumerators, failing allocator, serial or overlapping calls | `NoHalfConnection`, `BuffersFit`, `TypeSticks`: no Connect, reconnection or SetFormat of a type replaces a type that is set |
| `pin_types` | violation of `ConnectFindsType` | the first type a receiver refuses stays in m_mt, and the pin then refuses all others: a receiver that takes only RGB32 cannot be connected |
| `output_queue` | 5 modes (with and without a thread, batches of 1 and 2, exact or not), 3 items, list of 2, 2 flushes | `TypeOK`, `NoLostSignal`, `FlushIsSeen`; `ImplementsPipe`: order, nothing dropped while the stream is sound, nothing from before a flush after it; `FlushEnds` |
| `reference_clock` | 3 advises, 2 times, single and periodic, the clock back, a small and a large step forward, a cache of 1, timeouts of less than 2 (`UintMax`), so that an advise can be too far away | `ListAndCache`, `WakesInTime`; `ImplementsClock`: nothing early, twice or out of order; `AdvisesFire`: every advise that is due rings, unless it was too far away for a timeout and no later call wakes the thread |
| `renderer` | 2 advises, 2 timers, both kinds of timeKillEvent | `HoldsNothing`; `CompleteIsLast`: no sample after completion, and no completion after the call that stops the streaming; `ChangesEnd`, `EosCompletes` |
| `pull_pin` | a file of 9 in buffers of 4 aligned to 2, one and two buffers, 3 ranges | `NothingOutstanding`, `RangeIsCurrent`, `PassedOnInOrder`; `CallsReturn`, if what downstream keeps comes back when it is flushed or stopped |
| `arithmetic` | DWORDs of 2 bits, LONGs of 5, all inputs, alignments of either sign; all modes of the table | `MulDivExact`, `AllocHoldsBuffers`, `FrameIsPlaced` |

*Counterexamples to run by hand.* These configurations end in a violation. Each
says of the code what a comment or a name claims and what holds only in part;
the run above has the part that holds.

| Configuration, module | Property | What happens |
|---|---|---|
| `MemAllocatorLifetime.cfg`, `MCMemAllocator` | `AliveDuringReleaseBuffer` | "For each buffer there is one AddRef" is not so: the allocator can be deleted under a thread that has left the lock of ReleaseBuffer |
| `SourceStreamLock.cfg`, `SourceStream` | `StateChangeEnds` | a FillBuffer that enters the state lock, as source.cpp's comment allows, deadlocks with Stop |
| `DahuaDeviceConcurrent.cfg`, `DahuaDevice` | `OneSession` | two threads connect at once and log in twice |
| `DahuaDevicePartial.cfg`, `DahuaDevice` | `StartedWhenConnected` | a failed CLIENT_StartListenEx leaves a device that counts as connected and never plays |
| `DahuaDeviceRate.cfg`, `DahuaDevice` | `RateIsNotZero` | the DVR reports a frame rate of 0, and GetMediaType divides by it |
| `PinConnectReset.cfg`, `MCPinConnect` | `NullResets` | SetFormat(NULL) leaves the type as it is, where "NULL means reset to default type" (SourceStream.cpp:280) |
| `ReferenceClockFar.cfg`, `MCReferenceClock` | `AllAdvisesFire` | the thread sleeps without end before an advise that is 49.7 days away or more, and on when that time has passed |
| `RendererStopping.cfg`, `Renderer` | `CompleteOnlyRunning` | the timer's callback gives EC_COMPLETE between Stop's change of state and its StopStreaming, although "Has the filter changed state" (renbase.cpp:1305) is asked before |
| `PullPinKept.cfg`, `MCPullPin` | `FlushUnblocks` | all samples are kept downstream: the worker stays in GetBuffer, and Inactive waits for it although the reader was flushed "to ensure the thread is not blocked" (pullpin.cpp:278) |
| `PinConnectCaps.cfg`, `MCPinConnect` | `MediaTypeOfConnection` | GetStreamCaps makes m_mt differ from the type of the connection |
| `OutputQueueBatch.cfg`, `MCOutputQueue` | `BatchEmptyUnlessExact` | without a thread samples may stay in a batch that need not be exact |
| `OutputQueueIdle.cfg`, `MCOutputQueue` | `IdleMeansEmpty` | a thread that waits for a full batch counts as idle with samples on the list |
| `RendererFlushed.cfg`, `Renderer` | `FlushedIsIntermediate` | a paused renderer that is flushed while its first sample is being received is left complete |
| `ArithmeticOverflow.cfg`, `MCArithmetic` | `OverflowIsCaught` | a quotient between 2^63 and 2^64 comes out with the wrong sign instead of saturated |
| `ArithmeticAlign.cfg`, `MCArithmetic` | `AnyPositiveHolds` | an alignment above a quarter of a LONG that is not a power of two, which SetProperties only logs (amfilter.cpp:5065), lets a sum wrap twice: the buffers are smaller than asked for |
| `ArithmeticNegative.cfg`, `MCArithmetic` | `NegativeHolds` | a negative alignment (-65536 in the code) passes SetProperties' test (amfilter.cpp:5072), which then rounds the size down: the buffers are smaller than asked for |

*Why the bounds are enough.* Three allocator threads give one that holds, one
that waits and one that decommits or returns; two samples give "the last one"
and "not the last one". Three clients give a call in progress and two that race
for the next. Two application threads give a state change and one queued behind
it. Two failures give a failed first attempt and a failed retry. The pin's four
types are one of each kind CheckMediaType and the enumerators tell apart, and
the receiver's enumerators are empty, useless, in the other order, or mixed.
Three items and a batch of two give a full batch and a rest; the second flush
finds the event of the first still set. Three advises give insertion before,
between and behind, and a cache of one overflows; times 3 and 4 at a `UintMax` of
2 are too far at the start and near enough after a tick. The file of 9 in buffers of 4
gives two full requests and a rest that is not aligned; with one buffer the
worker waits for the sample that is kept. Two bits to a DWORD are
the least in which each partial product can carry; five to a LONG (`MAXLONG`
is 15) leave one above the largest alignment accepted. The theorems of section 4
do not depend on any of these.

The bounds by name are `MaxTimeouts` and `MaxShares` (surplus NOWAIT waits and
shared references of the allocator), `MaxFaults` and `MaxFaultsOverlapping`
(failures of the SDK, with and without overlapping calls), `MaxItems`, `MaxList`,
`MaxFlushes` and `MaxAtOnce` (output queue), `MaxAdvises`, `MaxDeltas` and
`Horizon` (clock), `MaxAdvises` and `MaxTimers` (renderer); nothing else is cut
off. `device` leaves the failures of the configuration and listen
calls out: `StartedWhenConnected` and `RetrySucceeds` do not survive them, which
`DahuaDevicePartial.cfg` shows for one. `stream_states` has
OnThreadCreate succeed, as the product's always does (SourceStream.cpp:145); a
pin whose OnThreadCreate fails finds the old thread at the next Active, and
`ThreadMatchesState` does not hold. `output_queue` calls Reset only before the
first flush (`ResetAndFlush` is FALSE): Reset sets m_hr to S_OK, so after a
BeginFlush it opens the queue again and `FlushIsSeen` does not hold.

*Deadlock* is checked in every run but those of the allocator and of
`arithmetic`: an allocator whose last reference has gone stops, and a
computation is one step. (`SourceStreamLock.cfg` leaves it out since its
deadlock is to appear as a state change that never ends.)

*Fairness.* Each thread inside a call, and each worker, is scheduled in the end.
Nothing makes an application call, nothing makes the SDK start to deliver, and
nothing makes a renderer or a downstream pin give back a sample or a reader
answer, except where a property says so in its premise (`StreamMoves`: the
buffer is not kept for ever; `RetrySucceeds`: the application keeps asking, and
no call of StartPlay has failed; `CallsReturn` of `PullPin`: samples kept
downstream come back) or
the interface does (`OutputQueue`: a pin that is flushed returns; `PullPin`: a
flushed reader answers, as Seek and Inactive count on when they "flush to ensure
the thread is not blocked" (pullpin.cpp:255, 278), and a pin downstream that is
flushed or, because a graph stops its filters from the renderer up, has been
stopped, returns). Strong fairness stands where a
thread waits for a critical section that others take and leave again and again: the queue's and the control thread of
`OutputQueue`, the threads and the timer's callback of `Renderer`.
In `MemAllocator` whoever holds a sample gives it back (strong fairness of
`ReleaseHeld`, since other calls of the same thread may come in between); its
liveness property is about threads that do, and `SourceStream` shows what
remains true when the renderer does not. In `ReferenceClock` time passes. The
system's critical sections do not promise fairness between waiters, so `Enter`
of a state change has none.

## 4. Theorems

All are checked by TLAPS for every value of the constants that satisfies the
modules' assumptions, and under the assumption named with the theorem.

* **MemAllocator.** `TypeCorrect`. `SignalsCoverWaiters`,
  `FreeSampleMeansNobodyWaits`, `NoWakeupIsLost`, and the three together,
  `WaitersAreSignalled`: `[]WaitersAreWoken`. The strengthening says where the
  counts come from: the threads between `SetWaiting` and the semaphore, the
  surplus left by NOWAIT calls, and what the waiting count and the semaphore owe
  them. Its conjuncts disturb each other only in `GetBuffer`, `Wake` and
  `NotifySample`; facts about the cardinality of the set of waiters are lemmas.
  (amfilter.h:1416 claims the same without the surplus; that claim (2) does not
  survive a NOWAIT call.)
  `BuffersAreAccounted`: `[]BuffersAccounted`, and `DecommitCompletesOnce`:
  `[]DecommitOnce`, rest on `PoolInv`. It counts references: m_cRef of a sample is
  the number of threads that hold it, are about to drop it, or carry it from
  GetBuffer or to ReleaseBuffer, and a sample is either on the free list with none
  or in somebody's hands; the allocator's own count has one more exactly while
  it is committed or a decommit is pending. That the sizes match is inductive only
  from Commit to SetProperties (`m_bChanged`), through any Decommit between.
  `AllocatorImplementsPool` takes every step to one of `BufferPool` or to none:
  taking a sample off the list lends, the release of the last reference returns,
  and the allocator goes only when nothing is lent.
* **CAMThread** (in `ThreadProofs`). `CallersGetTheirOwnReply`: `[]OwnReply`. `Handover` says, for
  the client that owns the access lock, which of the two events is signalled and
  whose value is in the parameter and in the result, for each pair of labels of
  client and worker; outside a call both events are off. `OwnReply` alone is not
  inductive: it speaks of the end of a call and the order of the four
  assignments before it is what it follows from. `CAMThreadTypeCorrect` and
  `NoRequestAfterReply` have the same invariant. `ProtocolImplementsCall`: only
  three steps are seen in the abstract call; taking the access lock asks, the
  assignment to m_dwReturnVal answers, leaving the lock returns.
* **SourceStream**, if OnThreadCreate does not fail (`NothingFailsInThread`):
  `ThreadGoesWithState`, `QuietAfterStop`, `EveryCommandIsExpected`. `Exchange`
  follows a command from parameter to result: at each label of the caller, the
  labels the worker may be at and what the events hold. `Protocol` has one
  exchange for each of the calls of Active and Inactive, so that when the state
  lock is free the worker is where `m_State` says.
* **DahuaDevice.** `WholeFrames`: `[]FrameIsWhole`, however many threads there
  are, overlapping or not, whatever fails. Its invariant is that the lock's owner
  is the thread at one of the locked labels, and that the buffer is there from
  the first callback on. `OneSessionAlways`, with every failure: nobody logs in
  while there is a login, and a handle exists only with one. `ConnectedAsAWhole`
  if reading the configuration and listening do not fail: without that the code
  does not keep it. `Serial` is the invariant of the last two: there is one thread all
  others wait for, and login and channel are what its label says.
* **PinConnect** (in `SourceStreamProofs`; its formulas are `PinInit`, `PinNext`,
  `PinSpec`, so that both modules can be extended). `ConnectionIsWhole`, `BuffersFitTheReceiver`,
  `ConnectKeepsTheType`, `PinTypeCorrect`, for every set of types,
  every receiver and every enumerator. The invariants speak of a pin on which no
  Connect is in progress; `Attempt` says what holds between the steps of one:
  the receiver has the type exactly between ReceiveConnection and the end of
  CompleteConnect, and serially m_mt is the type of the attempt from
  SetMediaType on.
* **OutputQueue**, if Reset is not called once a flush has begun:
  `FlushesAreSeen`, `NoSignalIsLost`, for every mode, batch, number of items and
  flushes. That no sample meets a flush is not inductive without where the
  samples are: `Drain` says that list, batch and thread have none when the flush
  event is set, which needs `Resets` (the event is not that of a Reset) and
  `Waits` (the flags a sleeping thread has seen); `Short` says that what is on
  the list of a sleeping thread is less than the batch it waits for.
  `QueueTypes`: `[]TypeOK`, and `QueueImplementsPipe`: `Spec => ImplementsPipe`,
  rest on `Flow`: everything in list, batch, thread and call has been handed
  in and has not gone out, in order (`Stocked`); what the thread and the streaming
  thread have at each label (`ThreadPlaces`, `StreamPlaces`); what is closed during
  a flush (`Closing`). The pipe is what all of them have, without the commands to
  the thread: `Sift`, a recursive function, of which `SiftOfConcat` is proved by
  induction over the length (from the well-foundedness of < on Nat). A step of the
  queue moves a piece of the pipe from one place to the next, which leaves it
  as it is, or is a step of OrderedPipe. A queue without a thread is assumed to
  have exact batches or batches of one: any other may keep samples in the batch
  (`OutputQueueBatch.cfg`), and a segment notice overtakes them.
* **ReferenceClock** (in `ThreadProofs`; its specification is `ClockSpec`).
  `ListAndCacheHolds`: `[]ListAndCache`, `WakesInTimeHolds`: `[]WakesInTime`, and
  `ClockIsAlarmClock`: `ClockSpec => ImplementsClock`, for every number of
  packets, every size of the cache, all times, periods and time deltas. The
  links are the difficulty. `Shape` says that they
  are those of two sequences, the list L from the head to z and the cache C, which
  share no packet; `Ordered` that the list's times do not decrease. What the
  code's loops reach by walking is read off L (`Walking`: the walk ends at the
  first node for which its condition holds; the modules write a walk as the least
  such position). Then each of AddAdvisePacket, Delete with the cache full or not, and ShuntHead is
  a lemma that gives the new L and C (`Longer`, `Shorter`, `Pushed`, `Popped`).
  `WakesInTime` needs besides that the thread, while it works off the list, has
  not read a later time than there is but for what SetTimeDelta has since taken
  back (`KnowsTime`); a thread that sleeps without end has an empty list or a first
  advise that was too far away (`TooFar`). Each step is then one of AlarmClock's or none: only a
  notification rings, and the packet notified is the first of L.
* **Renderer.** `HoldsNothingWhenStopped`, `CompleteComesLast`, `TypeCorrect`, for
  both kinds of timers. `Labels` ties the labels of the threads to state and
  flags, with the steps between a change of state and StopStreaming
  (`LeavesRunning`), where streaming goes on in a filter that is Stopped or Paused; `Timer` says that a timer is kept only with an end of stream and no
  sample, and is being killed only by a call that kills it.
* **PullPin.** `NothingLeftOutstanding`, `RangeStaysCurrent`, `DataInOrder`, for
  every length, alignment, size and number of buffers. `Handshake` says which
  command may be in the mailbox at which label of the caller, and that a paused
  worker rests; `Requests` counts what the reader has; `Chain` says that what
  has been passed on, the requests and the next position follow without a gap.

* **Arithmetic** (in `ArithmeticProofs`). `MulDivIsRight`, `Div32IsRight`: for a
  DWORD of any width and all arguments, the result is the quotient rounded
  towards zero if that is a LONGLONG, and saturated if c is 0 or the quotient
  exceeds a DWORDLONG; `MulDivExactHolds` is the invariant. `Is` relates two
  DWORDLONGs to the number they stand for. The product is exact
  (`Product`); the addition with its carries and sign extension gives the sum or
  its complement (`Sum`), which the sign bit tells apart (`SignIs`) and Negate turns round
  (`Negated`); and each of the three divisions divides (`DivideIs`). The long one is an
  induction over its bits: after i of them, quotient and rest are those of the
  numerator's upper bits (`Divided`), and doubling the rest does not overflow
  because the divisor is the magnitude of a LONGLONG (`BitDivides`). That the function of its
  recursion exists is proved first (`DividesExists`). What a power of two is, the provers
  do not know: 2^(n+1) = 2 * 2^n is obtained from the number of subsets of a
  set of n + 1 elements (`TwoExp`).
  `BuffersLieApart`: for a LONG of any width and any request, with an alignment of
  either sign, the buffers that Alloc makes lie in the block and do not overlap,
  because its checks leave only sums that have not wrapped (`Checked`).
  `BuffersAreHeld`: with a positive alignment of at most a quarter of what a LONG
  counts they also have the size asked for and are aligned; whatever has
  wrapped in SetProperties is found by Alloc or harmless. A size that is stored is
  at least the one asked for or negative (`SizeIsEnough`), and multiples of the
  stride stay aligned. The bounds on the alignment are needed
  (`ArithmeticAlign.cfg`, `ArithmeticNegative.cfg`): positive powers of two, which
  the code asks for but does not insist on, keep them, since none that is accepted
  exceeds the granularity of 64 K; the negative alignments that are accepted do not.
  `AllocHoldsBuffersHolds` is the invariant.
  `FramesAreConverted`, for every even
  width and height, and `FramesAreInTheMiddle` follow from numbering the cells
  of rows of one width: every number below w * h is one cell's and only that
  one's. `FrameIsPlacedHolds` is the invariant, with the table of modes.

*Induction.* The library's induction theorems take an operator, which the provers
here cannot instantiate. Where an induction is needed (`Sift`, the steps of a
division, powers of two) it is a proof by the least counterexample: the set of
numbers for which a fact fails, if not empty, has a least member, since < is well-founded
on Nat (`WFMin`, whose parameters are sets), as in `FromZero`.

*Only model-checked:* liveness, which needs ENABLED: `DecommitEnds`,
`CallReturns`, `StateChangeEnds`, `StreamMoves`, `RetrySucceeds`, `FlushEnds`,
`AdvisesFire`, `ChangesEnd`, `EosCompletes`, `CallsReturn`. Every
invariant, action property and refinement of the passing runs has a theorem.

## 5. Not modelled

* *Of modelled parts:* partially specified types, QueryAccept and segment times
  of the pin; the colour formula; CRefTime and the lower bound of
  GetTime; painting, media positions and the allocator of a renderer; failures
  of memory allocation outside the allocator.
* *Registry parameters.* Reading is a call of `DahuaDevice` that may fail; the
  contents are text with separators.
* *Filter object, factory, registration:* COM reference counts and a table.
* *Stream control, message thread, enumerators, dynamic output pin, input pin:*
  the product has none of the first two, and one static output pin; they have
  protocols of their own and could follow (section 6).
* *Video renderer, transform filters, lists, windows, property pages, video
  control, debugging helpers:* measured times, containers and user interface.
* *SDK:* more than half of the repository's lines are its headers, declarations
  of a library whose code is not here.

PROJECT.json lists each with its reason.

## 6. Plan

1. *Done:* allocator, worker calls, streaming, device, connection; output queue,
   clock, renderer, pull pin, arithmetic; theorems about all of them.
2. *Model next:* `CMsgThread` with `CQueue`, `CBaseStreamControl`,
   `CDynamicOutputPin` (its block and unblock events), `CTransInPlaceFilter`'s
   allocator negotiation; the lower bound that `GetTime` keeps.
3. *Prove next:* a refinement that joins `SourceStream`'s buffer to `BufferPool`;
   the liveness properties, once a prover for ENABLED is at hand.
