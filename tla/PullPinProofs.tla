---------------------------- MODULE PullPinProofs ----------------------------
(***************************************************************************)
(* Theorems about PullPin, for every length of the file, every alignment   *)
(* and every size and number of buffers.                                   *)
(***************************************************************************)
EXTENDS PullPin, SequenceTheorems, TLAPS

LEMMA MinOfTwo ==
    ASSUME NEW a \in Int, NEW b \in Int
    PROVE  Min({a, b}) = IF a <= b THEN a ELSE b
  BY DEF Min

\* A position is aligned down, or up, by less than the alignment.
LEMMA AlignedDown ==
    ASSUME NEW n \in Nat
    PROVE  AlignDown(n) \in Nat /\ AlignDown(n) <= n /\ n < AlignDown(n) + Align
  BY PullPinAssumption DEF AlignDown

LEMMA AlignedUp ==
    ASSUME NEW n \in Nat
    PROVE  StopOf(n) \in Nat /\ n <= StopOf(n) /\ StopOf(n) < n + Align
<1>1. n + Align - 1 \in Nat
  BY PullPinAssumption
<1>2. StopOf(n) = AlignDown(n + Align - 1)
  BY DEF StopOf, AlignUp, AlignDown
<1> QED
  BY <1>1, <1>2, AlignedDown, PullPinAssumption

Pieces == [from : Nat, to : Nat, gen : {0, 1}]

\* CleanupCancelled leaves nothing if the reader is flushed, else the last requests.
LEMMA Left ==
    ASSUME outstanding \in Seq(Pieces), NEW left \in LeftByCleanup
    PROVE  /\ left \in Seq(Pieces) /\ Len(left) <= Len(outstanding)
           /\ readerFlushing => left = <<>>
<1>1. CASE readerFlushing
  BY <1>1 DEF LeftByCleanup
<1>2. CASE ~readerFlushing
  <2>1. PICK k \in 1 .. Len(outstanding) + 1 : left = SubSeq(outstanding, k, Len(outstanding))
    BY <1>2 DEF LeftByCleanup
  <2>2. \A i \in k .. Len(outstanding) : outstanding[i] \in Pieces
    OBVIOUS
  <2> QED
    BY <1>2, <2>1, <2>2, SubSeqProperties
<1> QED
  BY <1>1, <1>2

\* The next request is not empty, and ends at the aligned stop at the latest.
LEMMA NextPiece ==
    ASSUME tCurrent \in Nat, tAlignStop \in Nat, gen \in {0, 1}
    PROVE  /\ Piece \in Pieces /\ Piece.from = tCurrent /\ Piece.gen = gen
           /\ tCurrent < tAlignStop => tCurrent < Piece.to /\ Piece.to <= tAlignStop
<1>1. Min({tCurrent + BufferSize, tAlignStop})
          = IF tCurrent + BufferSize <= tAlignStop THEN tCurrent + BufferSize ELSE tAlignStop
  BY MinOfTwo, PullPinAssumption
<1> QED
  BY <1>1, PullPinAssumption DEF Piece, Pieces
-----------------------------------------------------------------------------
(* The types. *)

Types ==
    /\ cBuffers \in Nat \ {0} /\ m_tStart \in Nat /\ m_tStop \in Nat
    /\ arg \in [start : Nat, stop : Nat]
    /\ tStart \in Nat /\ tCurrent \in Nat /\ tStop \in Nat /\ tAlignStop \in Nat
    /\ gen \in {0, 1} /\ got \in Nat /\ sample \in Pieces /\ outstanding \in Seq(Pieces)

\* The local variables when Process begins.
LEMMA Begins ==
    ASSUME Types, ProcessBegins
    PROVE  /\ tStart' \in Nat /\ tCurrent' \in Nat /\ tStop' \in Nat /\ tAlignStop' \in Nat
           /\ got' \in Nat
           /\ wpc' = "eos" => m_tStop <= m_tStart
           /\ wpc' = "loop" => /\ tStart' <= m_tStart /\ m_tStart < tStart' + Align
                               /\ tStop' = Min({m_tStop, Duration})
                               /\ tStop' <= tAlignStop' /\ tAlignStop' < tStop' + Align
                               /\ tCurrent' = got'
           /\ wpc' \in {"eos", "loop"}
<1>1. Min({m_tStop, Duration}) \in Nat
  BY MinOfTwo, PullPinAssumption DEF Types
<1> DEFINE stop == Min({m_tStop, Duration})
<1>2. CASE m_tStop <= m_tStart
  BY <1>2 DEF ProcessBegins, Types, localVars
<1>3. CASE ~(m_tStop <= m_tStart)
  <2>1. /\ wpc' = "loop" /\ tStart' = AlignDown(m_tStart) /\ tCurrent' = tStart'
        /\ tStop' = stop /\ tAlignStop' = StopOf(stop) /\ got' = tStart'
    BY <1>3 DEF ProcessBegins
  <2>2. AlignDown(m_tStart) \in Nat /\ AlignDown(m_tStart) <= m_tStart
        /\ m_tStart < AlignDown(m_tStart) + Align
    BY AlignedDown DEF Types
  <2>3. StopOf(stop) \in Nat /\ stop <= StopOf(stop) /\ StopOf(stop) < stop + Align
    BY <1>1, AlignedUp
  <2> QED
    BY <1>1, <2>1, <2>2, <2>3
<1> QED
  BY <1>2, <1>3

LEMMA StepTypes == Types /\ [Next]_vars => Types'
<1> SUFFICES ASSUME Types, [Next]_vars PROVE Types'
  OBVIOUS
<1> USE PullPinAssumption DEF Types, pinVars, rangeVars, ctrlVars, localVars, readerVars, outVars
<1>1. CASE Connect
  BY <1>1 DEF Connect
<1>2. CASE Active
  BY <1>2 DEF Active, Call
<1>3. CASE StopThread("stop")
  BY <1>3 DEF StopThread, Call
<1>4. CASE StopThread("disconnect")
  BY <1>4 DEF StopThread, Call
<1>5. CASE DisconnectIdle
  BY <1>5 DEF DisconnectIdle
<1>6. CASE \E r \in Ranges : SeekStopped(r) \/ Seek(r)
  BY <1>6 DEF SeekStopped, Seek
<1>7. CASE Started
  BY <1>7 DEF Started
<1>8. CASE PauseThread
  BY <1>8 DEF PauseThread, Call
<1>9. CASE Paused
  BY <1>9 DEF Paused
<1>10. CASE SeekRestart
  <2>1. arg.start \in Nat /\ arg.stop \in Nat /\ arg' = NoArg
    BY <1>10 DEF SeekRestart
  <2> QED
    BY <1>10, <2>1 DEF SeekRestart, NoArg, Call
<1>11. CASE Stopped
  BY <1>11 DEF Stopped
<1>12. CASE GetRequest
  BY <1>12 DEF GetRequest
<1>13. CASE TailBeginFlush
  BY <1>13 DEF TailBeginFlush
<1>14. CASE TailCleanup
  <2>1. PICK left \in LeftByCleanup : outstanding' = left
    BY <1>14 DEF TailCleanup
  <2>2. left \in Seq(Pieces)
    BY <2>1, Left
  <2> QED
    BY <1>14, <2>1, <2>2, NextPiece DEF TailCleanup
<1>15. CASE TailEndFlush
  BY <1>15 DEF TailEndFlush
<1>16. CASE ProcessBegins
  BY <1>16, Begins DEF ProcessBegins
<1>17. CASE ProcessLoop
  BY <1>17 DEF ProcessLoop
<1>18. CASE QueueSample
  <2>1. Append(outstanding, Piece) \in Seq(Pieces) /\ Piece.to \in Nat
    BY NextPiece DEF Pieces
  <2> QED
    BY <1>18, <2>1 DEF QueueSample
<1>19. CASE QueueSampleFails
  <2>1. PICK left \in LeftByCleanup : outstanding' = left
    BY <1>19 DEF QueueSampleFails
  <2>2. left \in Seq(Pieces) /\ Piece.to \in Nat
    BY <2>1, Left, NextPiece DEF Pieces
  <2> QED
    BY <1>19, <2>1, <2>2 DEF QueueSampleFails
<1>20. CASE ReadSync
  <2>1. Piece \in Pieces /\ Piece.to \in Nat
    BY NextPiece DEF Pieces
  <2> QED
    BY <1>20, <2>1 DEF ReadSync, Receives
<1>21. CASE ReadSyncFails
  <2>1. Piece.to \in Nat
    BY NextPiece DEF Pieces
  <2> QED
    BY <1>21, <2>1 DEF ReadSyncFails
<1>22. CASE EndOfStream
  BY <1>22 DEF EndOfStream
<1>23. CASE Collect
  <2>1. Head(outstanding) \in Pieces /\ Tail(outstanding) \in Seq(Pieces)
    BY <1>23 DEF Collect
  <2>2. Head(outstanding).to \in Nat
    BY <2>1 DEF Pieces
  <2> QED
    BY <1>23, <2>1, <2>2 DEF Collect, Receives
<1>24. CASE CollectFails
  <2>1. PICK left \in LeftByCleanup : outstanding' = left
    BY <1>24 DEF CollectFails
  <2>2. left \in Seq(Pieces)
    BY <2>1, Left
  <2> QED
    BY <1>24, <2>1, <2>2, NextPiece DEF CollectFails
<1>25. CASE \E res \in Results : ReceiveReturns(res)
  <2>1. outstanding' \in LeftByCleanup \cup {outstanding} /\ sample' = NoSample
        /\ UNCHANGED <<cBuffers, m_tStart, m_tStop, arg, localVars, gen, got>>
    BY <1>25 DEF ReceiveReturns
  <2>2. outstanding' \in Seq(Pieces)
    BY <2>1, Left
  <2> QED
    BY <2>1, <2>2 DEF NoSample, Pieces
<1>26. CASE UNCHANGED vars
  BY <1>26 DEF vars
<1>27. CASE GiveBack
  BY <1>27 DEF GiveBack, pinVars, rangeVars, ctrlVars, localVars, readerVars, outVars
<1> QED
  BY <1>27, <1>1, <1>2, <1>3, <1>4, <1>5, <1>6, <1>7, <1>8, <1>9, <1>10, <1>11, <1>12, <1>13, <1>14, <1>15, <1>16, <1>17, <1>18, <1>19, <1>20, <1>21, <1>22, <1>23, <1>24, <1>25, <1>26
  DEF Next, ControlCall, ControlStep, WorkerStep, Answer, Returns
-----------------------------------------------------------------------------
(* The control thread and the worker. *)

\* The worker is done with what it had when it took the command.
Resting == wpc \in {"get", "tail", "cleanup", "unflush"}

\* What a command in the mailbox says of the call, and the call of the worker:
\* with no call in progress the thread exists exactly in the state TM_Start, and
\* when it has been paused it rests until it is started.
Handshake ==
    /\ m_State \in {"TM_Exit", "TM_Pause", "TM_Start"}
    /\ apc \in {"idle", "flushed", "start", "pause", "paused", "stop", "disconnect"}
    /\ request = "none" \/ (request = "TM_Exit" /\ apc \in {"stop", "disconnect"})
           \/ (request = "TM_Pause" /\ apc = "pause") \/ (request = "TM_Start" /\ apc = "start")
    /\ ThreadExists => m_pReader
    /\ ~ThreadExists => apc \in {"idle", "stop", "disconnect"} /\ request = "none"
    /\ ThreadExists /\ apc \in {"idle", "flushed", "start"} => m_State = "TM_Start"
    /\ ~ThreadExists /\ apc = "idle" => m_State # "TM_Start" /\ ~readerFlushing
    /\ apc \in {"stop", "disconnect"} => m_State = "TM_Exit"
    /\ apc = "paused" \/ (apc = "pause" /\ request = "none") => Resting
    /\ request = "TM_Start" => Resting

LEMMA StepHandshake == Handshake /\ [Next]_vars => Handshake'
<1> SUFFICES ASSUME Handshake, [Next]_vars PROVE Handshake'
  OBVIOUS
<1> USE DEF Handshake, Resting, ThreadExists, pinVars, ctrlVars, readerVars, Replied
<1>1. CASE Connect
  BY <1>1 DEF Connect
<1>2. CASE Active
  BY <1>2 DEF Active, Call
<1>3. CASE StopThread("stop")
  BY <1>3 DEF StopThread, Call, ReaderBeginFlush
<1>4. CASE StopThread("disconnect")
  BY <1>4 DEF StopThread, Call, ReaderBeginFlush
<1>5. CASE DisconnectIdle
  BY <1>5 DEF DisconnectIdle
<1>6. CASE \E r \in Ranges : SeekStopped(r) \/ Seek(r)
  BY <1>6 DEF SeekStopped, Seek
<1>7. CASE Started
  BY <1>7 DEF Started
<1>8. CASE PauseThread
  BY <1>8 DEF PauseThread, Call, ReaderBeginFlush
<1>9. CASE Paused
  BY <1>9 DEF Paused
<1>10. CASE SeekRestart
  BY <1>10 DEF SeekRestart, Call
<1>11. CASE Stopped
  BY <1>11 DEF Stopped
<1>12. CASE GetRequest
  BY <1>12 DEF GetRequest
<1>13. CASE TailBeginFlush
  BY <1>13 DEF TailBeginFlush
<1>14. CASE TailCleanup
  BY <1>14 DEF TailCleanup
<1>15. CASE TailEndFlush
  BY <1>15 DEF TailEndFlush
<1>16. CASE ProcessBegins
  BY <1>16 DEF ProcessBegins
<1>17. CASE ProcessLoop
  BY <1>17 DEF ProcessLoop
<1>18. CASE QueueSample
  BY <1>18 DEF QueueSample
<1>19. CASE QueueSampleFails
  BY <1>19 DEF QueueSampleFails
<1>20. CASE ReadSync
  BY <1>20 DEF ReadSync, Receives
<1>21. CASE ReadSyncFails
  BY <1>21 DEF ReadSyncFails
<1>22. CASE EndOfStream
  BY <1>22 DEF EndOfStream
<1>23. CASE Collect
  BY <1>23 DEF Collect, Receives
<1>24. CASE CollectFails
  BY <1>24 DEF CollectFails
<1>25. CASE \E res \in Results : ReceiveReturns(res)
  BY <1>25 DEF ReceiveReturns, Results
<1>26. CASE UNCHANGED vars
  BY <1>26 DEF vars
<1>27. CASE GiveBack
  BY <1>27 DEF GiveBack, pinVars, rangeVars, ctrlVars, localVars, readerVars, outVars
<1> QED
  BY <1>27, <1>1, <1>2, <1>3, <1>4, <1>5, <1>6, <1>7, <1>8, <1>9, <1>10, <1>11, <1>12, <1>13, <1>14, <1>15, <1>16, <1>17, <1>18, <1>19, <1>20, <1>21, <1>22, <1>23, <1>24, <1>25, <1>26
  DEF Next, ControlCall, ControlStep, WorkerStep, Answer, Returns

\* How many requests the reader has at each step of the worker; and when the
\* thread has been paused it has none, so nothing is lost if the reader is no
\* longer flushed.
Ahead == IF cBuffers > 1 THEN 1 ELSE 0

Requests ==
    /\ wpc \in {"none", "get", "process", "unflush", "loop", "first", "read", "inSync", "inLast",
               "eos"} => outstanding = <<>>
    /\ wpc \in {"queue", "inReceive"} => Len(outstanding) = Ahead
    /\ wpc = "collect" => Len(outstanding) = Ahead + 1
    /\ wpc = "first" => cBuffers > 1
    /\ wpc = "last" => cBuffers > 1 /\ Len(outstanding) = 1
    /\ wpc = "cleanup" => readerFlushing \/ outstanding = <<>>
    /\ Len(outstanding) <= cBuffers
    /\ apc = "paused" \/ (apc = "pause" /\ request = "none") \/ request = "TM_Start"
          => outstanding = <<>>

LEMMA StepRequests == Types /\ Handshake /\ Requests /\ [Next]_vars => Requests'
<1> SUFFICES ASSUME Types, Handshake, Requests, [Next]_vars PROVE Requests'
  OBVIOUS
<1>0. /\ cBuffers \in Nat \ {0} /\ outstanding \in Seq(Pieces) /\ Len(outstanding) \in Nat
      /\ outstanding = <<>> <=> Len(outstanding) = 0
  BY DEF Types
<1> USE <1>0 DEF Handshake, Requests, Ahead, Resting, ThreadExists, pinVars, ctrlVars, localVars,
             readerVars, outVars, Replied
<1>1. CASE Connect
  <2>1. wpc = "none" /\ outstanding = <<>> /\ cBuffers' \in Nat \ {0}
    BY <1>1, PullPinAssumption DEF Connect
  <2> QED
    BY <1>1, <2>1 DEF Connect
<1>2. CASE Active
  BY <1>2 DEF Active, Call
<1>3. CASE StopThread("stop")
  BY <1>3 DEF StopThread, Call, ReaderBeginFlush
<1>4. CASE StopThread("disconnect")
  BY <1>4 DEF StopThread, Call, ReaderBeginFlush
<1>5. CASE DisconnectIdle
  BY <1>5 DEF DisconnectIdle
<1>6. CASE \E r \in Ranges : SeekStopped(r) \/ Seek(r)
  BY <1>6 DEF SeekStopped, Seek
<1>7. CASE Started
  BY <1>7 DEF Started
<1>8. CASE PauseThread
  BY <1>8 DEF PauseThread, Call, ReaderBeginFlush
<1>9. CASE Paused
  BY <1>9 DEF Paused
<1>10. CASE SeekRestart
  BY <1>10 DEF SeekRestart, Call
<1>11. CASE Stopped
  BY <1>11 DEF Stopped
<1>12. CASE GetRequest
  BY <1>12 DEF GetRequest
<1>13. CASE TailBeginFlush
  BY <1>13 DEF TailBeginFlush
<1>14. CASE TailCleanup
  <2>1. PICK left \in LeftByCleanup : outstanding' = left
    BY <1>14 DEF TailCleanup
  <2>2. /\ left \in Seq(Pieces) /\ Len(left) <= Len(outstanding) /\ Len(left) \in Nat
        /\ left = <<>> <=> Len(left) = 0
    BY <2>1, Left DEF Types
  <2>3. readerFlushing => left = <<>>
    BY <2>1, Left DEF Types
  <2> QED
    BY <1>14, <2>1, <2>2, <2>3 DEF TailCleanup
<1>15. CASE TailEndFlush
  BY <1>15 DEF TailEndFlush
<1>16. CASE ProcessBegins
  BY <1>16 DEF ProcessBegins
<1>17. CASE ProcessLoop
  BY <1>17 DEF ProcessLoop
<1>18. CASE QueueSample
  <2>1. Append(outstanding, Piece) \in Seq(Pieces)
        /\ Len(Append(outstanding, Piece)) = Len(outstanding) + 1
    BY NextPiece DEF Types
  <2> QED
    BY <1>18, <2>1 DEF QueueSample
<1>19. CASE QueueSampleFails
  <2>1. PICK left \in LeftByCleanup : outstanding' = left
    BY <1>19 DEF QueueSampleFails
  <2>2. /\ left \in Seq(Pieces) /\ Len(left) <= Len(outstanding) /\ Len(left) \in Nat
        /\ left = <<>> <=> Len(left) = 0
    BY <2>1, Left DEF Types
  <2>3. readerFlushing => left = <<>>
    BY <2>1, Left DEF Types
  <2> QED
    BY <1>19, <2>1, <2>2, <2>3 DEF QueueSampleFails
<1>20. CASE ReadSync
  BY <1>20 DEF ReadSync, Receives
<1>21. CASE ReadSyncFails
  BY <1>21 DEF ReadSyncFails
<1>22. CASE EndOfStream
  BY <1>22 DEF EndOfStream
<1>23. CASE Collect
  <2>1. Tail(outstanding) \in Seq(Pieces) /\ Len(Tail(outstanding)) = Len(outstanding) - 1
    BY <1>23 DEF Collect
  <2> QED
    BY <1>23, <2>1 DEF Collect, Receives
<1>24. CASE CollectFails
  <2>1. PICK left \in LeftByCleanup : outstanding' = left
    BY <1>24 DEF CollectFails
  <2>2. /\ left \in Seq(Pieces) /\ Len(left) <= Len(outstanding) /\ Len(left) \in Nat
        /\ left = <<>> <=> Len(left) = 0
    BY <2>1, Left DEF Types
  <2>3. readerFlushing => left = <<>>
    BY <2>1, Left DEF Types
  <2> QED
    BY <1>24, <2>1, <2>2, <2>3 DEF CollectFails
<1>25. CASE \E res \in Results : ReceiveReturns(res)
  <2>1. outstanding' \in LeftByCleanup \cup {outstanding}
    BY <1>25 DEF ReceiveReturns
  <2>2. Len(outstanding') <= Len(outstanding) /\ outstanding' \in Seq(Pieces)
    BY <2>1, Left DEF Types
  <2>3. wpc' = "tail" \/ outstanding' = outstanding
    BY <1>25 DEF ReceiveReturns, Results
  <2> QED
    BY <1>25, <2>2, <2>3 DEF ReceiveReturns, Results
<1>26. CASE UNCHANGED vars
  BY <1>26 DEF vars
<1>27. CASE GiveBack
  BY <1>27 DEF GiveBack, pinVars, rangeVars, ctrlVars, localVars, readerVars, outVars
<1> QED
  BY <1>27, <1>1, <1>2, <1>3, <1>4, <1>5, <1>6, <1>7, <1>8, <1>9, <1>10, <1>11, <1>12, <1>13, <1>14, <1>15, <1>16, <1>17, <1>18, <1>19, <1>20, <1>21, <1>22, <1>23, <1>24, <1>25, <1>26
  DEF Next, ControlCall, ControlStep, WorkerStep, Answer, Returns
-----------------------------------------------------------------------------
(* What is passed on. *)

InReceive == wpc \in {"inReceive", "inLast", "inSync"}
Working == InReceive \/ wpc \in {"loop", "first", "queue", "collect", "last", "read"}

\* The local variables go with the range that was asked for last.
AskedRange ==
    /\ Working => /\ tStart <= m_tStart /\ m_tStart < tStart + Align
                  /\ tStop = Min({m_tStop, Duration})
                  /\ tStop <= tAlignStop /\ tAlignStop < tStop + Align
    /\ wpc = "eos" => got >= Min({m_tStop, Duration}) \/ m_tStop <= m_tStart

\* What has been passed on, the requests of the reader and tCurrent follow each
\* other without a gap.
Chain ==
    /\ wpc \in {"first", "queue", "read"} => tCurrent < tAlignStop
    /\ Working /\ outstanding = <<>> => tCurrent = got
    /\ Working /\ outstanding # <<>> => /\ outstanding[1].from = got
                                        /\ outstanding[Len(outstanding)].to = tCurrent
    /\ Working /\ Len(outstanding) = 2 => outstanding[1].to = outstanding[2].from
    /\ Working => \A i \in 1 .. Len(outstanding) :
                     /\ outstanding[i].from < outstanding[i].to /\ outstanding[i].gen = gen
                     /\ outstanding[i].to <= tAlignStop
    /\ InReceive => sample.to = got /\ sample.to <= tAlignStop

\* While the worker has work, the range and the generation do not change.
LEMMA RangeStays ==
    ASSUME Handshake, [Next]_vars, Working' \/ wpc' = "eos"
    PROVE  UNCHANGED <<m_tStart, m_tStop, gen>>
<1> USE DEF Handshake, Resting, ThreadExists, Working, InReceive, pinVars, rangeVars, ctrlVars,
            readerVars, outVars, Replied
<1>1. CASE Connect
  BY <1>1 DEF Connect
<1>2. CASE Active
  BY <1>2 DEF Active, Call
<1>3. CASE StopThread("stop")
  BY <1>3 DEF StopThread, Call, ReaderBeginFlush
<1>4. CASE StopThread("disconnect")
  BY <1>4 DEF StopThread, Call, ReaderBeginFlush
<1>5. CASE DisconnectIdle
  BY <1>5 DEF DisconnectIdle
<1>6. CASE \E r \in Ranges : SeekStopped(r) \/ Seek(r)
  BY <1>6 DEF SeekStopped, Seek
<1>7. CASE Started
  BY <1>7 DEF Started
<1>8. CASE PauseThread
  BY <1>8 DEF PauseThread, Call, ReaderBeginFlush
<1>9. CASE Paused
  BY <1>9 DEF Paused
<1>10. CASE SeekRestart
  BY <1>10 DEF SeekRestart, Call
<1>11. CASE Stopped
  BY <1>11 DEF Stopped
<1>12. CASE GetRequest
  BY <1>12 DEF GetRequest
<1>13. CASE TailBeginFlush
  BY <1>13 DEF TailBeginFlush
<1>14. CASE TailCleanup
  BY <1>14 DEF TailCleanup
<1>15. CASE TailEndFlush
  BY <1>15 DEF TailEndFlush
<1>16. CASE ProcessBegins
  BY <1>16 DEF ProcessBegins
<1>17. CASE ProcessLoop
  BY <1>17 DEF ProcessLoop
<1>18. CASE QueueSample
  BY <1>18 DEF QueueSample
<1>19. CASE QueueSampleFails
  BY <1>19 DEF QueueSampleFails
<1>20. CASE ReadSync
  BY <1>20 DEF ReadSync, Receives
<1>21. CASE ReadSyncFails
  BY <1>21 DEF ReadSyncFails
<1>22. CASE EndOfStream
  BY <1>22 DEF EndOfStream
<1>23. CASE Collect
  BY <1>23 DEF Collect, Receives
<1>24. CASE CollectFails
  BY <1>24 DEF CollectFails
<1>25. CASE \E res \in Results : ReceiveReturns(res)
  BY <1>25 DEF ReceiveReturns, Results
<1>26. CASE UNCHANGED vars
  BY <1>26 DEF vars
<1>27. CASE GiveBack
  BY <1>27 DEF GiveBack, pinVars, rangeVars, ctrlVars, localVars, readerVars, outVars
<1> QED
  BY <1>27, <1>1, <1>2, <1>3, <1>4, <1>5, <1>6, <1>7, <1>8, <1>9, <1>10, <1>11, <1>12, <1>13, <1>14, <1>15, <1>16, <1>17, <1>18, <1>19, <1>20, <1>21, <1>22, <1>23, <1>24, <1>25, <1>26
  DEF Next, ControlCall, ControlStep, WorkerStep, Answer, Returns

\* Only ProcessBegins sets the limits and begins work.
LEMMA LimitsStay ==
    ASSUME Handshake, [Next]_vars, ~ProcessBegins
    PROVE  /\ UNCHANGED <<tStart, tStop, tAlignStop>>
           /\ Working' => Working
           /\ wpc' = "eos" => (wpc = "eos" /\ got' = got) \/ ProcessLoop
<1> USE DEF Working, InReceive, pinVars, ctrlVars, localVars, outVars
<1>1. CASE Connect
  BY <1>1 DEF Connect
<1>2. CASE Active
  BY <1>2 DEF Active, Call
<1>3. CASE StopThread("stop")
  BY <1>3 DEF StopThread, Call, ReaderBeginFlush
<1>4. CASE StopThread("disconnect")
  BY <1>4 DEF StopThread, Call, ReaderBeginFlush
<1>5. CASE DisconnectIdle
  BY <1>5 DEF DisconnectIdle
<1>6. CASE \E r \in Ranges : SeekStopped(r) \/ Seek(r)
  BY <1>6 DEF SeekStopped, Seek
<1>7. CASE Started
  BY <1>7 DEF Started
<1>8. CASE PauseThread
  BY <1>8 DEF PauseThread, Call, ReaderBeginFlush
<1>9. CASE Paused
  BY <1>9 DEF Paused
<1>10. CASE SeekRestart
  BY <1>10 DEF SeekRestart, Call
<1>11. CASE Stopped
  BY <1>11 DEF Stopped
<1>12. CASE GetRequest
  <2>1. request \in {"TM_Exit", "TM_Pause", "TM_Start"}
    BY <1>12 DEF GetRequest, Handshake
  <2> QED
    BY <1>12, <2>1 DEF GetRequest
<1>13. CASE TailBeginFlush
  BY <1>13 DEF TailBeginFlush
<1>14. CASE TailCleanup
  BY <1>14 DEF TailCleanup
<1>15. CASE TailEndFlush
  BY <1>15 DEF TailEndFlush
<1>16. CASE ProcessBegins
  BY <1>16 DEF ProcessBegins
<1>17. CASE ProcessLoop
  BY <1>17 DEF ProcessLoop
<1>18. CASE QueueSample
  BY <1>18 DEF QueueSample
<1>19. CASE QueueSampleFails
  BY <1>19 DEF QueueSampleFails
<1>20. CASE ReadSync
  BY <1>20 DEF ReadSync, Receives
<1>21. CASE ReadSyncFails
  BY <1>21 DEF ReadSyncFails
<1>22. CASE EndOfStream
  BY <1>22 DEF EndOfStream
<1>23. CASE Collect
  BY <1>23 DEF Collect, Receives
<1>24. CASE CollectFails
  BY <1>24 DEF CollectFails
<1>25. CASE \E res \in Results : ReceiveReturns(res)
  BY <1>25 DEF ReceiveReturns, Results
<1>26. CASE UNCHANGED vars
  BY <1>26 DEF vars
<1>27. CASE GiveBack
  BY <1>27 DEF GiveBack, pinVars, rangeVars, ctrlVars, localVars, readerVars, outVars
<1> QED
  BY <1>27, <1>1, <1>2, <1>3, <1>4, <1>5, <1>6, <1>7, <1>8, <1>9, <1>10, <1>11, <1>12, <1>13, <1>14, <1>15, <1>16, <1>17, <1>18, <1>19, <1>20, <1>21, <1>22, <1>23, <1>24, <1>25, <1>26
  DEF Next, ControlCall, ControlStep, WorkerStep, Answer, Returns

LEMMA StepRange ==
    Types /\ Handshake /\ Requests /\ AskedRange /\ Chain /\ [Next]_vars => AskedRange'
<1> SUFFICES ASSUME Types, Handshake, Requests, AskedRange, Chain, [Next]_vars PROVE AskedRange'
  OBVIOUS
<1>1. Working' \/ wpc' = "eos" => UNCHANGED <<m_tStart, m_tStop>>
  BY RangeStays
<1>2. CASE ProcessBegins
  <2>1. UNCHANGED <<m_tStart, m_tStop>>
    BY <1>2 DEF ProcessBegins, rangeVars
  <2> QED
    BY <1>2, <2>1, Begins DEF AskedRange, Working, InReceive
<1>3. CASE ~ProcessBegins
  <2>1. /\ UNCHANGED <<tStart, tStop, tAlignStop>>
        /\ Working' => Working
        /\ wpc' = "eos" => (wpc = "eos" /\ got' = got) \/ ProcessLoop
    BY <1>3, LimitsStay
  <2>2. CASE ProcessLoop /\ wpc' = "eos"
    <3>1. wpc = "loop" /\ tCurrent >= tAlignStop /\ got' = got
      BY <2>2 DEF ProcessLoop, outVars
    <3>2. tCurrent = got
      BY <3>1 DEF Requests, Chain, Working
    <3>3. tStop = Min({m_tStop, Duration}) /\ tStop <= tAlignStop
      BY <3>1 DEF AskedRange, Working
    <3>4. got' >= Min({m_tStop, Duration})
      BY <3>1, <3>2, <3>3 DEF Types
    <3> QED
      BY <1>1, <2>2, <3>4 DEF AskedRange, Working, InReceive
  <2>3. CASE ~(ProcessLoop /\ wpc' = "eos")
    BY <1>1, <2>1, <2>3 DEF AskedRange
  <2> QED
    BY <2>2, <2>3
<1> QED
  BY <1>2, <1>3

\* A sample is collected: the request behind it, if there is one, is next.
LEMMA CollectChain ==
    ASSUME Types, Requests, Chain, Collect
    PROVE  Chain'
<1>1. /\ outstanding \in Seq(Pieces) /\ outstanding # <<>> /\ outstanding' = Tail(outstanding)
      /\ sample' = outstanding[1] /\ got' = outstanding[1].to
      /\ wpc \in {"collect", "last"} /\ wpc' \in {"inReceive", "inLast"}
      /\ UNCHANGED <<tCurrent, tAlignStop, gen>>
  BY DEF Types, Collect, Receives, localVars
<1>2. Working /\ wpc' \notin {"first", "queue", "read"}
  BY <1>1 DEF Working
<1>3. Len(outstanding) \in {1, 2}
  BY <1>1 DEF Requests, Ahead
<1>4. /\ outstanding' \in Seq(Pieces) /\ Len(outstanding') = Len(outstanding) - 1
      /\ \A i \in 1 .. Len(outstanding') : outstanding'[i] = outstanding[i + 1]
  BY <1>1, HeadTailProperties
<1>5. sample'.to = got' /\ sample'.to <= tAlignStop
  BY <1>1, <1>2, <1>3 DEF Chain
<1>6. CASE Len(outstanding) = 1
  <2>1. outstanding' = <<>> /\ Len(outstanding') = 0
    BY <1>4, <1>6
  <2>2. tCurrent = got'
    BY <1>1, <1>2, <1>6 DEF Chain
  <2> QED
    BY <1>1, <1>2, <1>5, <2>1, <2>2 DEF Chain
<1>7. CASE Len(outstanding) = 2
  <2>1. Len(outstanding') = 1 /\ outstanding'[1] = outstanding[2]
    BY <1>4, <1>7
  <2>2. outstanding' # <<>>
    BY <2>1
  <2>3. outstanding'[1].from = got' /\ outstanding'[1].to = tCurrent
    BY <1>1, <1>2, <1>7, <2>1 DEF Chain
  <2>4. /\ outstanding'[1].from < outstanding'[1].to /\ outstanding'[1].gen = gen
        /\ outstanding'[1].to <= tAlignStop
    BY <1>2, <1>7, <2>1 DEF Chain
  <2> QED
    BY <1>1, <1>2, <1>5, <2>1, <2>2, <2>3, <2>4 DEF Chain
<1> QED
  BY <1>3, <1>6, <1>7

LEMMA StepChain ==
    Types /\ Handshake /\ Requests /\ AskedRange /\ Chain /\ [Next]_vars => Chain'
<1> SUFFICES ASSUME Types, Handshake, Requests, AskedRange, Chain, [Next]_vars PROVE Chain'
  OBVIOUS
<1>0. /\ outstanding \in Seq(Pieces) /\ Len(outstanding) \in Nat
      /\ outstanding = <<>> <=> Len(outstanding) = 0
      /\ tCurrent \in Nat /\ tAlignStop \in Nat /\ got \in Nat /\ gen \in {0, 1}
  BY DEF Types
<1>a. Working' => gen' = gen
  BY RangeStays
<1> USE <1>0, <1>a DEF Chain, Working, InReceive, pinVars, ctrlVars, localVars, readerVars, outVars
<1>1. CASE Connect
  BY <1>1 DEF Connect
<1>2. CASE Active
  BY <1>2 DEF Active, Call
<1>3. CASE StopThread("stop")
  BY <1>3 DEF StopThread, Call, ReaderBeginFlush
<1>4. CASE StopThread("disconnect")
  BY <1>4 DEF StopThread, Call, ReaderBeginFlush
<1>5. CASE DisconnectIdle
  BY <1>5 DEF DisconnectIdle
<1>6. CASE \E r \in Ranges : SeekStopped(r) \/ Seek(r)
  BY <1>6 DEF SeekStopped, Seek
<1>7. CASE Started
  BY <1>7 DEF Started
<1>8. CASE PauseThread
  BY <1>8 DEF PauseThread, Call, ReaderBeginFlush
<1>9. CASE Paused
  BY <1>9 DEF Paused
<1>10. CASE SeekRestart
  <2>1. ~Working'
    BY <1>10 DEF SeekRestart, Handshake, Resting, Call
  <2> QED
    BY <2>1
<1>11. CASE Stopped
  BY <1>11 DEF Stopped
<1>12. CASE GetRequest
  <2>1. request \in {"TM_Exit", "TM_Pause", "TM_Start"}
    BY <1>12 DEF GetRequest, Handshake
  <2> QED
    BY <1>12, <2>1 DEF GetRequest
<1>13. CASE TailBeginFlush
  BY <1>13 DEF TailBeginFlush
<1>14. CASE TailCleanup
  <2>1. ~Working'
    BY <1>14 DEF TailCleanup
  <2>2. wpc' \notin {"first", "queue", "read"}
    BY <1>14 DEF TailCleanup
  <2> QED
    BY <2>1, <2>2
<1>15. CASE TailEndFlush
  BY <1>15 DEF TailEndFlush
<1>16. CASE ProcessBegins
  <2>1. outstanding = <<>> /\ outstanding' = outstanding
    BY <1>16 DEF ProcessBegins, Requests
  <2>2. wpc' = "loop" => tCurrent' = got'
    BY <1>16, Begins
  <2>3. wpc' \in {"eos", "loop"}
    BY <1>16, Begins
  <2> QED
    BY <2>1, <2>2, <2>3
<1>17. CASE ProcessLoop
  <2>1. wpc = "loop" /\ outstanding = <<>> /\ tCurrent = got
    BY <1>17 DEF ProcessLoop, Requests
  <2> QED
    BY <1>17, <2>1 DEF ProcessLoop
<1>18. CASE QueueSample
  <2>1. /\ Piece \in Pieces /\ Piece.from = tCurrent /\ Piece.gen = gen
        /\ tCurrent < Piece.to /\ Piece.to <= tAlignStop
    BY <1>18, NextPiece DEF QueueSample
  <2>2. /\ outstanding' = Append(outstanding, Piece) /\ Len(outstanding') = Len(outstanding) + 1
        /\ outstanding'[Len(outstanding) + 1] = Piece
        /\ \A i \in 1 .. Len(outstanding) : outstanding'[i] = outstanding[i]
        /\ tCurrent' = Piece.to /\ UNCHANGED <<tAlignStop, gen, got>>
    BY <1>18, <2>1 DEF QueueSample
  <2>3. Working
    BY <1>18 DEF QueueSample
  <2>4. Len(outstanding) \in {0, 1}
    BY <1>18 DEF QueueSample, Requests, Ahead
  <2>5. outstanding' # <<>> /\ outstanding'[1].from = got
    BY <2>1, <2>2, <2>3, <2>4
  <2>6. Len(outstanding') = 2 => outstanding'[1].to = outstanding'[2].from
    BY <2>1, <2>2, <2>3, <2>4
  <2>7. \A i \in 1 .. Len(outstanding') :
           /\ outstanding'[i].from < outstanding'[i].to /\ outstanding'[i].gen = gen
           /\ outstanding'[i].to <= tAlignStop
    BY <2>1, <2>2, <2>3, <2>4
  <2>8. wpc' = "queue" => tCurrent' < tAlignStop
    BY <1>18 DEF QueueSample
  <2>9. wpc' \in {"collect", "queue", "last"}
    BY <1>18 DEF QueueSample
  <2> QED
    BY <2>2, <2>5, <2>6, <2>7, <2>8, <2>9
<1>19. CASE QueueSampleFails
  <2>1. ~Working'
    BY <1>19 DEF QueueSampleFails
  <2>2. wpc' \notin {"first", "queue", "read"}
    BY <1>19 DEF QueueSampleFails
  <2> QED
    BY <2>1, <2>2
<1>20. CASE ReadSync
  <2>1. wpc = "read" /\ outstanding = <<>> /\ outstanding' = <<>> /\ wpc' = "inSync"
    BY <1>20 DEF ReadSync, Requests, Receives
  <2>2. /\ tCurrent' = Piece.to /\ got' = Piece.to /\ sample' = Piece
        /\ UNCHANGED <<tAlignStop, gen>>
    BY <1>20 DEF ReadSync, Receives
  <2>3. Piece.to <= tAlignStop
    BY <2>1, NextPiece
  <2> QED
    BY <2>1, <2>2, <2>3
<1>21. CASE ReadSyncFails
  <2>1. ~Working'
    BY <1>21 DEF ReadSyncFails
  <2>2. wpc' \notin {"first", "queue", "read"}
    BY <1>21 DEF ReadSyncFails
  <2> QED
    BY <2>1, <2>2
<1>22. CASE EndOfStream
  BY <1>22 DEF EndOfStream
<1>23. CASE Collect
  BY <1>23, CollectChain
<1>24. CASE CollectFails
  <2>1. ~Working'
    BY <1>24 DEF CollectFails
  <2>2. wpc' \notin {"first", "queue", "read"}
    BY <1>24 DEF CollectFails
  <2> QED
    BY <2>1, <2>2
<1>25. CASE \E res \in Results : ReceiveReturns(res)
  <2>1. /\ InReceive /\ wpc' \in {"tail", "queue", "last", "loop"}
        /\ wpc' = "queue" => tCurrent < tAlignStop
        /\ wpc' # "tail" => outstanding' = outstanding
        /\ UNCHANGED <<tCurrent, tAlignStop, gen, got>>
    BY <1>25 DEF ReceiveReturns, Results
  <2> QED
    BY <2>1
<1>26. CASE UNCHANGED vars
  BY <1>26 DEF vars
<1>27. CASE GiveBack
  BY <1>27 DEF GiveBack, pinVars, rangeVars, ctrlVars, localVars, readerVars, outVars
<1> QED
  BY <1>27, <1>1, <1>2, <1>3, <1>4, <1>5, <1>6, <1>7, <1>8, <1>9, <1>10, <1>11, <1>12, <1>13, <1>14, <1>15, <1>16, <1>17, <1>18, <1>19, <1>20, <1>21, <1>22, <1>23, <1>24, <1>25, <1>26
  DEF Next, ControlCall, ControlStep, WorkerStep, Answer, Returns
-----------------------------------------------------------------------------
Inv == Types /\ Handshake /\ Requests /\ AskedRange /\ Chain

LEMMA InitInv == Init => Inv
<1> SUFFICES ASSUME Init PROVE Inv
  OBVIOUS
<1>1. <<>> \in Seq(Pieces) /\ NoSample \in Pieces /\ NoArg \in [start : Nat, stop : Nat]
  BY DEF NoSample, NoArg, Pieces
<1>2. Types
  BY <1>1 DEF Init, Types
<1>3. Handshake
  BY DEF Init, Handshake, ThreadExists, Resting
<1>4. Requests
  BY DEF Init, Requests
<1>5. AskedRange /\ Chain
  BY DEF Init, AskedRange, Chain, Working, InReceive
<1> QED
  BY <1>2, <1>3, <1>4, <1>5 DEF Inv

LEMMA StepInv == Inv /\ [Next]_vars => Inv'
  BY StepTypes, StepHandshake, StepRequests, StepRange, StepChain DEF Inv

\* Commands, requests, range and the chain of samples are as Inv says in every
\* state: what the three theorems below rest on.
THEOREM Invariance == Spec => []Inv
  BY InitInv, StepInv, PTL DEF Spec

\* A worker that waits for a command has no request outstanding, the reader never
\* has more than there are buffers, and is used only while the pin is connected.
THEOREM NothingLeftOutstanding == Spec => []NothingOutstanding
<1>1. Inv => NothingOutstanding
  BY DEF Inv, Handshake, Requests, NothingOutstanding
<1> QED
  BY Invariance, <1>1, PTL

\* What is passed on belongs to the range that was asked for last.
THEOREM RangeStaysCurrent == Spec => []RangeIsCurrent
<1>1. Inv => RangeIsCurrent
  <2> SUFFICES ASSUME Inv, InReceive PROVE RangeIsCurrent
    BY DEF RangeIsCurrent, InReceive
  <2>1. /\ tStart <= m_tStart /\ m_tStart < tStart + Align
        /\ tStop = Min({m_tStop, Duration}) /\ tAlignStop < tStop + Align
        /\ sample.to <= tAlignStop
    BY DEF Inv, AskedRange, Chain, Working
  <2>2. sample.to < tStop + Align
    BY <2>1, PullPinAssumption DEF Inv, Types, Pieces
  <2> QED
    BY <2>1, <2>2 DEF RangeIsCurrent
<1> QED
  BY Invariance, <1>1, PTL

\* One step passes data on in order, and the end of the stream after all of it.
InOrder ==
    /\ sample' # sample /\ sample' # NoSample =>
          sample'.from = got /\ sample'.gen = gen /\ sample'.to > sample'.from
    /\ eos' /\ ~eos => got >= Min({m_tStop, Duration}) \/ m_tStop <= m_tStart

LEMMA StepInOrder == Inv /\ [Next]_vars => InOrder
<1> SUFFICES ASSUME Inv, [Next]_vars PROVE InOrder
  OBVIOUS
<1> USE DEF InOrder, outVars
<1>1. CASE Connect
  BY <1>1 DEF Connect
<1>2. CASE Active
  BY <1>2 DEF Active
<1>3. CASE StopThread("stop")
  BY <1>3 DEF StopThread
<1>4. CASE StopThread("disconnect")
  BY <1>4 DEF StopThread
<1>5. CASE DisconnectIdle
  BY <1>5 DEF DisconnectIdle
<1>6. CASE \E r \in Ranges : SeekStopped(r) \/ Seek(r)
  BY <1>6 DEF SeekStopped, Seek
<1>7. CASE Started
  BY <1>7 DEF Started
<1>8. CASE PauseThread
  BY <1>8 DEF PauseThread
<1>9. CASE Paused
  BY <1>9 DEF Paused
<1>10. CASE SeekRestart
  BY <1>10 DEF SeekRestart
<1>11. CASE Stopped
  BY <1>11 DEF Stopped
<1>12. CASE GetRequest
  BY <1>12 DEF GetRequest
<1>13. CASE TailBeginFlush
  BY <1>13 DEF TailBeginFlush
<1>14. CASE TailCleanup
  BY <1>14 DEF TailCleanup
<1>15. CASE TailEndFlush
  BY <1>15 DEF TailEndFlush
<1>16. CASE ProcessBegins
  BY <1>16 DEF ProcessBegins
<1>17. CASE ProcessLoop
  BY <1>17 DEF ProcessLoop
<1>18. CASE QueueSample
  BY <1>18 DEF QueueSample
<1>19. CASE QueueSampleFails
  BY <1>19 DEF QueueSampleFails
<1>20. CASE ReadSync
  <2>1. wpc = "read" /\ sample' = Piece /\ eos' = eos
    BY <1>20 DEF ReadSync, Receives
  <2>2. tCurrent = got /\ tCurrent < tAlignStop
    BY <2>1 DEF Inv, Requests, Chain, Working
  <2>3. Piece.from = got /\ Piece.gen = gen /\ Piece.from < Piece.to /\ Piece \in Pieces
    BY <2>2, NextPiece DEF Inv, Types
  <2> QED
    BY <2>1, <2>3 DEF Pieces
<1>21. CASE ReadSyncFails
  BY <1>21 DEF ReadSyncFails
<1>22. CASE EndOfStream
  BY <1>22 DEF EndOfStream, Inv, AskedRange
<1>23. CASE Collect
  <2>1. outstanding # <<>> /\ sample' = outstanding[1] /\ eos' = eos /\ Working
    BY <1>23 DEF Collect, Receives, Working
  <2>2. 1 \in 1 .. Len(outstanding)
    BY <2>1 DEF Inv, Types
  <2>3. outstanding[1].from = got /\ outstanding[1].gen = gen
        /\ outstanding[1].from < outstanding[1].to
    BY <2>1, <2>2 DEF Inv, Chain
  <2>4. outstanding[1] \in Pieces
    BY <2>2 DEF Inv, Types
  <2> QED
    BY <2>1, <2>3, <2>4 DEF Pieces
<1>24. CASE CollectFails
  BY <1>24 DEF CollectFails
<1>25. CASE \E res \in Results : ReceiveReturns(res)
  BY <1>25 DEF ReceiveReturns, Results
<1>26. CASE UNCHANGED vars
  BY <1>26 DEF vars
<1>27. CASE GiveBack
  BY <1>27 DEF GiveBack, pinVars, rangeVars, ctrlVars, localVars, readerVars, outVars
<1> QED
  BY <1>27, <1>1, <1>2, <1>3, <1>4, <1>5, <1>6, <1>7, <1>8, <1>9, <1>10, <1>11, <1>12, <1>13, <1>14, <1>15, <1>16, <1>17, <1>18, <1>19, <1>20, <1>21, <1>22, <1>23, <1>24, <1>25, <1>26
  DEF Next, ControlCall, ControlStep, WorkerStep, Answer, Returns

\* Data is passed on without a gap, in order, none from before a Seek after it,
\* and the end of the stream after all of the range.
THEOREM DataInOrder == Spec => PassedOnInOrder
<1>1. Inv /\ [Next]_vars => [InOrder]_vars
  BY StepInOrder
<1> QED
  BY Invariance, <1>1, PTL DEF Spec, PassedOnInOrder, InOrder
=============================================================================
