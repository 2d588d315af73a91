------------------------------ MODULE PullPin -------------------------------
(***************************************************************************)
(* CPullPin (baseclasses/pullpin.cpp, pullpin.h): an input pin with a      *)
(* thread that pulls a file from an IAsyncReader, aligned, by requests of  *)
(* which two overlap or by synchronous reads, and passes it on.            *)
(*                                                                         *)
(* The calls Connect, Active, Seek, Inactive and Disconnect exclude each   *)
(* other by m_AccessLock.  A call of the worker is the request and its     *)
(* reply; module CAMThread models it in full.  The reader and the pin      *)
(* downstream are external: a request may remain unanswered until the      *)
(* reader is flushed, samples come back in the order of the requests, and  *)
(* the pin downstream may stay in Receive until it is flushed or stopped.  *)
(* It may also keep a sample when Receive has returned: the worker waits   *)
(* in GetBuffer while no buffer is free, and the allocator stays committed *)
(* until it has ended (pullpin.cpp:286, 295).  Flushing the reader does    *)
(* not fail.                                                               *)
(***************************************************************************)
EXTENDS Integers, Sequences, FiniteSetsExt

CONSTANTS
    Duration,      \* Length of the reader
    Ranges,        \* [start, stop]: what Seek is called with
    BufferSize,    \* GetSize of a sample
    Align,         \* cbAlign, a power of two
    BufferCounts   \* cBuffers that the allocator may have

ASSUME PullPinAssumption ==
    /\ Duration \in Nat /\ BufferSize \in Nat \ {0} /\ Align \in Nat \ {0}
    /\ BufferSize % Align = 0
    /\ Ranges \subseteq [start : Nat, stop : Nat] /\ BufferCounts \subseteq Nat \ {0}

VARIABLES
    m_pReader,             \* connected
    m_bSync, cBuffers,     \* what Connect has agreed
    m_tStart, m_tStop,
    m_State,               \* TM_Exit, TM_Pause or TM_Start
    request,               \* the command of CallWorker until it is replied to
    apc, arg,              \* control thread: label, argument of its call
    wpc,                   \* worker: label
    tStart, tCurrent, tStop, tAlignStop,   \* locals of Process
    sample,                \* the sample the worker has
    outstanding,           \* requests the reader has
    readerFlushing, downFlushing,
    kept,                  \* samples the pins downstream keep although Receive has returned
    gen,                   \* changes with every Seek that flushes
    got, eos               \* up to where data has been passed on; end of stream

pinVars    == <<m_pReader, m_bSync, cBuffers>>
rangeVars  == <<m_tStart, m_tStop>>
ctrlVars   == <<m_State, apc, arg>>
localVars  == <<tStart, tCurrent, tStop, tAlignStop>>
readerVars == <<outstanding, readerFlushing>>
downVars   == <<downFlushing, kept>>
outVars    == <<got, eos>>
vars == <<pinVars, rangeVars, ctrlVars, request, wpc, localVars, sample, readerVars,
          downVars, gen, outVars>>

NoSample == [from |-> 0, to |-> 0, gen |-> 0]
NoArg    == [start |-> 0, stop |-> 0]

Init ==
    /\ m_pReader = FALSE /\ m_bSync = FALSE /\ cBuffers = 1
    /\ m_tStart = 0 /\ m_tStop = 0 /\ m_State = "TM_Exit"
    /\ request = "none" /\ apc = "idle" /\ arg = NoArg /\ wpc = "none"
    /\ tStart = 0 /\ tCurrent = 0 /\ tStop = 0 /\ tAlignStop = 0 /\ sample = NoSample
    /\ outstanding = <<>> /\ readerFlushing = FALSE /\ downFlushing = FALSE /\ kept = 0
    /\ gen = 0 /\ got = 0 /\ eos = FALSE
-----------------------------------------------------------------------------
(* The control thread. *)

ThreadExists == wpc # "none"

\* CallWorker posts the command; the call returns when the worker has replied.
Call(cmd, label) == m_State' = cmd /\ request' = cmd /\ apc' = label
Replied == request = "none"

\* The allocator is a new one: none of its buffers is in use.
Connect ==
    /\ apc = "idle" /\ ~m_pReader /\ m_pReader' = TRUE
    /\ m_bSync' \in BOOLEAN /\ cBuffers' \in BufferCounts /\ kept' = 0
    /\ m_tStart' = 0 /\ m_tStop' = Duration
    /\ UNCHANGED <<ctrlVars, request, wpc, localVars, sample, readerVars, downFlushing, gen, outVars>>

\* Active creates the thread and starts it.
Active ==
    /\ apc = "idle" /\ m_pReader /\ ~ThreadExists
    /\ wpc' = "get" /\ Call("TM_Start", "start") /\ UNCHANGED arg
    /\ UNCHANGED <<pinVars, rangeVars, localVars, sample, readerVars, downVars, gen, outVars>>

Started ==
    /\ apc = "start" /\ Replied /\ apc' = "idle"
    /\ UNCHANGED <<pinVars, rangeVars, m_State, arg, request, wpc, localVars, sample, readerVars,
                   downVars, gen, outVars>>

\* Seek of a pin that is not started only remembers the range.
SeekStopped(range) ==
    /\ apc = "idle" /\ m_pReader /\ m_State # "TM_Start"
    /\ m_tStart' = range.start /\ m_tStop' = range.stop
    /\ UNCHANGED <<pinVars, ctrlVars, request, wpc, localVars, sample, readerVars, downVars,
                   gen, outVars>>

\* Seek of a started pin flushes downstream first ...
FlushDownstream == downFlushing' = TRUE

Seek(range) ==
    /\ apc = "idle" /\ m_State = "TM_Start" /\ arg' = range /\ apc' = "flushed"
    /\ FlushDownstream /\ UNCHANGED kept
    /\ UNCHANGED <<pinVars, rangeVars, m_State, request, wpc, localVars, sample, readerVars, gen,
                   outVars>>

\* Mutant: the reader is not flushed.
KeepReader == readerFlushing

\* PauseThread and StopThread flush the reader before they call the worker.
ReaderBeginFlush == TRUE

\* ... then PauseThread ...
PauseThread ==
    /\ apc = "flushed" /\ readerFlushing' = ReaderBeginFlush /\ Call("TM_Pause", "pause")
    /\ UNCHANGED <<pinVars, rangeVars, arg, wpc, localVars, sample, outstanding, downVars, gen,
                   outVars>>

Paused ==
    /\ apc = "pause" /\ Replied /\ readerFlushing' = FALSE /\ apc' = "paused"
    /\ UNCHANGED <<pinVars, rangeVars, m_State, arg, request, wpc, localVars, sample, outstanding,
                   downVars, gen, outVars>>

\* ... and starts the thread again with the new range.
SeekRestart ==
    /\ apc = "paused" /\ downFlushing' = FALSE /\ gen' = 1 - gen
    /\ m_tStart' = arg.start /\ m_tStop' = arg.stop /\ arg' = NoArg
    /\ Call("TM_Start", "start")
    /\ UNCHANGED <<pinVars, wpc, localVars, sample, readerVars, kept, outVars>>

\* StopThread, for Inactive or for Disconnect.
StopThread(label) ==
    /\ apc = "idle" /\ ThreadExists /\ readerFlushing' = ReaderBeginFlush
    /\ Call("TM_Exit", label)
    /\ UNCHANGED <<pinVars, rangeVars, arg, wpc, localVars, sample, outstanding, downVars, gen,
                   outVars>>

\* The worker has replied; Close waits for the end of the thread.  Disconnect
\* then releases the reader.
Stopped ==
    /\ apc \in {"stop", "disconnect"} /\ Replied /\ ~ThreadExists
    /\ readerFlushing' = FALSE /\ apc' = "idle"
    /\ m_pReader' = (apc = "stop") /\ UNCHANGED <<m_bSync, cBuffers>>
    /\ UNCHANGED <<rangeVars, m_State, arg, request, wpc, localVars, sample, outstanding,
                   downVars, gen, outVars>>

DisconnectIdle ==
    /\ apc = "idle" /\ m_pReader /\ ~ThreadExists
    /\ m_pReader' = FALSE /\ UNCHANGED <<m_bSync, cBuffers>>
    /\ UNCHANGED <<rangeVars, ctrlVars, request, wpc, localVars, sample, readerVars, downVars,
                   gen, outVars>>
-----------------------------------------------------------------------------
(* The worker: ThreadProc. *)

GetRequest ==
    /\ wpc = "get" /\ request # "none" /\ request' = "none"
    /\ wpc' = CASE request = "TM_Exit"  -> "none"
                [] request = "TM_Pause" -> "tail"
                [] request = "TM_Start" -> "process"
    /\ UNCHANGED <<pinVars, rangeVars, ctrlVars, localVars, sample, readerVars, downVars, gen,
                   outVars>>

\* After a command the reader is flushed, so that nothing remains outstanding.
TailBeginFlush ==
    /\ wpc = "tail" /\ readerFlushing' = TRUE /\ wpc' = "cleanup"
    /\ UNCHANGED <<pinVars, rangeVars, ctrlVars, request, localVars, sample, outstanding,
                   downVars, gen, outVars>>

\* Mutant: cleaning up does not wait for what the flush has cancelled.
LeftUnwaited == {SubSeq(outstanding, k, Len(outstanding)) : k \in 1 .. Len(outstanding) + 1}

\* CleanupCancelled collects what is complete: all that a flush has cancelled, or
\* the first requests.  What it may leave:
LeftByCleanup ==
    IF readerFlushing THEN {<<>>}
    ELSE {SubSeq(outstanding, k, Len(outstanding)) : k \in 1 .. Len(outstanding) + 1}

TailCleanup ==
    /\ wpc = "cleanup" /\ wpc' = "unflush" /\ outstanding' \in LeftByCleanup
    /\ UNCHANGED <<pinVars, rangeVars, ctrlVars, request, localVars, sample, readerFlushing,
                   downVars, gen, outVars>>

TailEndFlush ==
    /\ wpc = "unflush" /\ readerFlushing' = FALSE /\ wpc' = "get"
    /\ UNCHANGED <<pinVars, rangeVars, ctrlVars, request, localVars, sample, outstanding,
                   downVars, gen, outVars>>
-----------------------------------------------------------------------------
(* The worker: Process. *)

\* Align is a power of two, so these are the masks of the code.
AlignDown(n) == (n \div Align) * Align
AlignUp(n)   == ((n + Align - 1) \div Align) * Align

\* Mutant: the end of the aligned data is taken for the end of the file.
AlignStopDown(n) == (n \div Align) * Align

StopOf(n) == AlignUp(n)

\* An empty range is at its end; else the range is aligned outwards.
ProcessBegins ==
    /\ wpc = "process"
    /\ LET stop == Min({m_tStop, Duration})
       IN IF m_tStop <= m_tStart
            THEN wpc' = "eos" /\ UNCHANGED localVars
            ELSE /\ wpc' = "loop" /\ tStart' = AlignDown(m_tStart) /\ tCurrent' = tStart'
                 /\ tStop' = stop /\ tAlignStop' = StopOf(stop)
    /\ eos' = FALSE /\ got' = IF wpc' = "loop" THEN tStart' ELSE m_tStart
    /\ UNCHANGED <<pinVars, rangeVars, ctrlVars, request, sample, readerVars, downVars, gen>>

\* The outer loop: the end, a request of the control thread, or more data.
ProcessLoop ==
    /\ wpc = "loop"
    /\ wpc' = CASE tCurrent >= tAlignStop -> "eos"
                [] tCurrent < tAlignStop /\ request # "none" -> "tail"
                [] OTHER -> IF m_bSync THEN "read" ELSE IF cBuffers > 1 THEN "first" ELSE "queue"
    /\ UNCHANGED <<pinVars, rangeVars, ctrlVars, request, localVars, sample, readerVars, downVars,
                   gen, outVars>>

\* Mutant: the last request is not cut off at the aligned stop.
FullPiece == [from |-> tCurrent, to |-> tCurrent + BufferSize, gen |-> gen]

Piece == [from |-> tCurrent, to |-> Min({tCurrent + BufferSize, tAlignStop}), gen |-> gen]

\* GetBuffer returns: the allocator has a buffer that is neither with the reader nor
\* kept downstream.  Flushing the reader does not end the wait.
GetBuffer == Len(outstanding) + kept < cBuffers

\* QueueSample: the first request of two, or the one before a sample is collected.
QueueSample ==
    /\ wpc \in {"first", "queue"} /\ GetBuffer /\ ~readerFlushing
    /\ outstanding' = Append(outstanding, Piece) /\ tCurrent' = Piece.to
    /\ wpc' = IF wpc = "queue" THEN "collect"
              ELSE IF tCurrent' < tAlignStop THEN "queue" ELSE "last"
    /\ UNCHANGED <<pinVars, rangeVars, ctrlVars, request, tStart, tStop, tAlignStop, sample,
                   readerFlushing, downVars, gen, outVars>>

\* Request fails: cancelled requests are collected and Process returns.
QueueSampleFails ==
    /\ wpc \in {"first", "queue"} /\ GetBuffer /\ wpc' = "tail"
    /\ outstanding' \in LeftByCleanup /\ tCurrent' = Piece.to
    /\ UNCHANGED <<pinVars, rangeVars, ctrlVars, request, tStart, tStop, tAlignStop, sample,
                   readerFlushing, downVars, gen, outVars>>

\* The worker passes a sample on: Receive begins.
Receives(piece, label) == sample' = piece /\ got' = piece.to /\ wpc' = label

\* CollectAndDeliver: the first request has been answered.
Collect ==
    /\ wpc \in {"collect", "last"} /\ ~readerFlushing /\ outstanding # <<>>
    /\ Receives(Head(outstanding), IF wpc = "last" THEN "inLast" ELSE "inReceive")
    /\ outstanding' = Tail(outstanding)
    /\ UNCHANGED <<pinVars, rangeVars, ctrlVars, request, localVars, readerFlushing, downVars,
                   gen, eos>>

\* WaitForNext fails, for an error or a flush.
CollectFails ==
    /\ wpc \in {"collect", "last"} /\ wpc' = "tail"
    /\ outstanding' \in LeftByCleanup
    /\ UNCHANGED <<pinVars, rangeVars, ctrlVars, request, localVars, sample, readerFlushing,
                   downVars, gen, outVars>>

\* GetBuffer; the reader answers SyncReadAligned, and the sample is passed on ...
ReadSync ==
    /\ wpc = "read" /\ GetBuffer /\ tCurrent' = Piece.to /\ Receives(Piece, "inSync")
    /\ UNCHANGED <<pinVars, rangeVars, ctrlVars, request, tStart, tStop, tAlignStop, readerVars,
                   downVars, gen, eos>>

\* ... unless it fails.
ReadSyncFails ==
    /\ wpc = "read" /\ GetBuffer /\ wpc' = "tail" /\ tCurrent' = Piece.to
    /\ UNCHANGED <<pinVars, rangeVars, ctrlVars, request, tStart, tStop, tAlignStop, sample,
                   readerVars, downVars, gen, outVars>>

\* Receive returns S_OK; or S_FALSE, which ends Process unless it is the last of
\* the asynchronous samples; or an error.  The worker releases the sample, of which a
\* pin that is not flushed may keep a reference.
ReceiveReturns(res) ==
    /\ wpc \in {"inReceive", "inLast", "inSync"} /\ (downFlushing => res # "S_OK")
    /\ wpc' = CASE wpc = "inReceive" /\ res = "S_OK" ->
                      IF tCurrent < tAlignStop THEN "queue"
                      ELSE IF cBuffers > 1 THEN "last" ELSE "loop"
                [] wpc = "inLast" /\ res # "error"   -> "loop"
                [] wpc = "inSync" /\ res = "S_OK"    -> "loop"
                [] OTHER -> "tail"
    /\ outstanding' \in (IF res = "error" /\ ~m_bSync THEN LeftByCleanup ELSE {outstanding})
    /\ sample' = NoSample /\ kept' \in {kept} \cup {k \in {kept + 1} : ~downFlushing}
    /\ UNCHANGED <<pinVars, rangeVars, ctrlVars, request, localVars, readerFlushing, downFlushing,
                   gen, outVars>>

\* A sample that was kept downstream comes back to the allocator.
GiveBack ==
    /\ kept > 0 /\ kept' = kept - 1
    /\ UNCHANGED <<pinVars, rangeVars, ctrlVars, request, wpc, localVars, sample, readerVars,
                   downFlushing, gen, outVars>>

EndOfStream ==
    /\ wpc = "eos" /\ eos' = TRUE /\ wpc' = "tail"
    /\ UNCHANGED <<pinVars, rangeVars, ctrlVars, request, localVars, sample, readerVars, downVars,
                   gen, got>>
-----------------------------------------------------------------------------
Results == {"S_OK", "S_FALSE", "error"}

ControlCall == \/ Connect \/ Active \/ StopThread("stop") \/ StopThread("disconnect")
               \/ DisconnectIdle \/ \E r \in Ranges : SeekStopped(r) \/ Seek(r)

ControlStep == Started \/ PauseThread \/ Paused \/ SeekRestart \/ Stopped

\* What the worker does by itself.
WorkerStep == \/ GetRequest \/ TailBeginFlush \/ TailCleanup \/ TailEndFlush
              \/ ProcessBegins \/ ProcessLoop \/ QueueSample \/ QueueSampleFails
              \/ EndOfStream

Answer == Collect \/ CollectFails \/ ReadSync \/ ReadSyncFails

Returns == \E res \in Results : ReceiveReturns(res)

Next == ControlCall \/ ControlStep \/ WorkerStep \/ Answer \/ Returns \/ GiveBack

\* The pin downstream is flushed, or, since a graph stops its filters from the
\* renderer up, has been stopped.
DownstreamEnds == downFlushing \/ apc \in {"stop", "disconnect"}

\* Both threads run.  The reader answers when it is flushed, and Receive returns when
\* the pin downstream is flushed or has been stopped.
Fairness == /\ WF_vars(ControlStep) /\ WF_vars(WorkerStep)
            /\ WF_vars(readerFlushing /\ Answer) /\ WF_vars(DownstreamEnds /\ Returns)

Spec == Init /\ [][Next]_vars /\ Fairness
-----------------------------------------------------------------------------
\* The comments of ThreadProc and Disconnect: a worker that waits for a command
\* has no requests outstanding, there are two at most, one of them waiting while
\* the worker has a sample, and the reader is only used while connected.
NothingOutstanding ==
    /\ wpc \in {"get", "process", "none"} => outstanding = <<>>
    /\ Len(outstanding) <= cBuffers
    /\ ThreadExists => m_pReader
    /\ apc = "idle" /\ ~ThreadExists => ~readerFlushing

\* Data is passed on without a gap, in order, from the aligned start to the
\* aligned stop, and none of a range from before a Seek after it; the end of
\* the stream comes after all of the range.
PassedOnInOrder ==
    [][/\ sample' # sample /\ sample' # NoSample =>
             sample'.from = got /\ sample'.gen = gen /\ sample'.to > sample'.from
       /\ eos' /\ ~eos => got >= Min({m_tStop, Duration}) \/ m_tStop <= m_tStart]_vars

\* What is passed on is the range that was asked for last.
RangeIsCurrent ==
    wpc \in {"inReceive", "inLast", "inSync"} /\ apc # "paused" =>
        /\ tStart <= m_tStart /\ m_tStart < tStart + Align
        /\ tStop = Min({m_tStop, Duration}) /\ sample.to < tStop + Align

\* Whoever keeps samples downstream gives them back when flushed or stopped.
GivesBack == WF_vars(DownstreamEnds /\ GiveBack)

\* Every call returns: Seek and Inactive stop a worker that waits for the reader, and
\* one that is kept downstream in Receive, or in GetBuffer if the samples come back.
CallsReturn == GivesBack => (apc # "idle" ~> apc = "idle")

\* "need to flush to ensure the thread is not blocked" (pullpin.cpp:278): a flush of the
\* reader does not let a worker go that waits in GetBuffer, and the allocator is
\* decommitted only when the worker has ended.
FlushUnblocks == apc # "idle" ~> apc = "idle"
=============================================================================
