---------------------------- MODULE RendererProofs ---------------------------
(***************************************************************************)
(* Theorems about Renderer, for every number of advises and timers and for *)
(* both kinds of multimedia timers.                                        *)
(***************************************************************************)
EXTENDS Renderer, TLAPS

\* The control thread is in a call that kills the end of stream timer.
KillsTimer == apc \in {"stopKill", "pauseKill", "flushKill"}

\* What the labels of the threads say of the state.
Labels ==
    /\ m_State \in {"Stopped", "Paused", "Running"}
    /\ m_bInReceive <=> rpc \in {"prepared", "ready", "wait", "fired", "woken"}
    /\ m_bStreaming => m_State = "Running" \/ LeavesRunning
    /\ apc \in {"pauseStream", "pauseReset", "pauseKill"} => m_State = "Paused"
    /\ LeavesRunning => m_State # "Running"
    /\ apc \in {"flushWait", "flushKill", "flushing"} => m_State # "Stopped"

Flags == Labels /\ HoldsNothing

LEMMA StepFlags == Flags /\ [Next]_vars => Flags'
<1> SUFFICES ASSUME Flags, [Next]_vars PROVE Flags'
  OBVIOUS
<1> USE DEF Flags, Labels, LeavesRunning, HoldsNothing, eosVars, pinVars, recvVars, ctrlVars
<1>1. CASE ReceiveError
  BY <1>1 DEF ReceiveError
<1>2. CASE ReceiveChecksState
  BY <1>2 DEF ReceiveChecksState
<1>3. CASE OnReceiveFirstSample
  BY <1>3 DEF OnReceiveFirstSample
<1>4. CASE ReceiveReady
  BY <1>4 DEF ReceiveReady
<1>5. CASE WaitEndsForStateChange
  BY <1>5 DEF WaitEndsForStateChange
<1>6. CASE WaitEndsForRender
  BY <1>6 DEF WaitEndsForRender
<1>7. CASE SignalTimerFired
  BY <1>7 DEF SignalTimerFired
<1>8. CASE LeaveReceive
  BY <1>8 DEF LeaveReceive
<1>9. CASE ReceiveRenders
  BY <1>9 DEF ReceiveRenders
<1>10. CASE PrepareReceive
  BY <1>10 DEF PrepareReceive, Deliver, MayReceive, CheckStreaming
<1>11. CASE PrepareReceiveFails
  BY <1>11 DEF PrepareReceiveFails, Deliver
<1>12. CASE EndOfStream
  BY <1>12 DEF EndOfStream
<1>13. CASE StopKilled
  BY <1>13 DEF StopKilled
<1>14. CASE StopWaits
  BY <1>14 DEF StopWaits
<1>15. CASE PauseKilled
  BY <1>15 DEF PauseKilled
<1>16. CASE FlushWaits
  BY <1>16 DEF FlushWaits, FlushKillsIn
<1>17. CASE FlushKilled
  BY <1>17 DEF FlushKilled
<1>18. CASE EndFlush
  BY <1>18 DEF EndFlush
<1>19. CASE Stop
  BY <1>19 DEF Stop, MayChange
<1>20. CASE PauseAgain
  BY <1>20 DEF PauseAgain, MayChange
<1>21. CASE PauseFromStopped
  BY <1>21 DEF PauseFromStopped, MayChange, PauseStopped, StopStreaming
<1>22. CASE PauseRunning
  BY <1>22 DEF PauseRunning, MayChange
<1>23. CASE RunPaused
  BY <1>23 DEF RunPaused, MayChange, StartStreaming
<1>24. CASE RunStopped
  BY <1>24 DEF RunStopped, MayChange, PauseStopped
<1>25. CASE BeginFlush
  BY <1>25 DEF BeginFlush, MayChange
<1>26. CASE ClockFires
  BY <1>26 DEF ClockFires
<1>27. CASE TimerFires
  BY <1>27 DEF TimerFires
<1>28. CASE TimerCallback
  BY <1>28 DEF TimerCallback
<1>29. CASE UNCHANGED vars
  BY <1>29 DEF vars
<1>30. CASE StopStreams
  BY <1>30 DEF StopStreams, StopStreaming
<1>31. CASE StopResets
  BY <1>31 DEF StopResets
<1>32. CASE PauseStreams
  BY <1>32 DEF PauseStreams, StopStreaming
<1>33. CASE PauseResets
  BY <1>33 DEF PauseResets
<1> QED
  BY <1>30, <1>31, <1>32, <1>33, <1>1, <1>2, <1>3, <1>4, <1>5, <1>6, <1>7, <1>8, <1>9, <1>10, <1>11, <1>12, <1>13, <1>14, <1>15, <1>16, <1>17, <1>18, <1>19, <1>20, <1>21, <1>22, <1>23, <1>24, <1>25, <1>26, <1>27, <1>28, <1>29
  DEF Next, StreamStep, StreamCall, ControlStep, ControlCall

\* The numbers: cookies and timers.
Numbers ==
    /\ m_dwAdvise \in {0} \cup Cookies /\ advises \subseteq Cookies
    /\ timers \subseteq 1 .. timersSet /\ calling \subseteq 1 .. timersSet
    /\ m_EndOfStreamTimer \in 0 .. timersSet /\ timersSet \in 0 .. MaxTimers

\* What SendEndOfStream does to the timers: none is kept or the one there was, or a
\* new one is set.
SentOrSet(timer) ==
    \/ m_EndOfStreamTimer' \in {0, timer} /\ UNCHANGED <<timers, timersSet>>
    \/ /\ timersSet < MaxTimers /\ timersSet' = timersSet + 1
       /\ m_EndOfStreamTimer' = timersSet' /\ timers' = timers \cup {timersSet'}

LEMMA NotifyNumbers ==
    ASSUME NEW streaming, NEW timer, NotifyEndOfStream(streaming, timer)
    PROVE  SentOrSet(timer)
  BY Zenon DEF NotifyEndOfStream, SentOrSet

LEMMA SendNumbers ==
    ASSUME NEW eos, NEW streaming, NEW timer, SendEndOfStream(eos, streaming, timer)
    PROVE  SentOrSet(timer)
  BY NotifyNumbers, Zenon DEF SendEndOfStream, SentOrSet

LEMMA TimerNumbers ==
    ASSUME Numbers, NEW timer \in 0 .. timersSet, SentOrSet(timer)
    PROVE  /\ timers' \subseteq 1 .. timersSet' /\ calling \subseteq 1 .. timersSet'
           /\ m_EndOfStreamTimer' \in 0 .. timersSet' /\ timersSet' \in 0 .. MaxTimers
<1> USE RendererAssumption DEF Numbers
<1>1. CASE m_EndOfStreamTimer' \in {0, timer} /\ UNCHANGED <<timers, timersSet>>
  BY <1>1
<1>2. CASE /\ timersSet < MaxTimers /\ timersSet' = timersSet + 1
           /\ m_EndOfStreamTimer' = timersSet' /\ timers' = timers \cup {timersSet'}
  <2>1. timersSet \in Nat /\ timersSet' \in 0 .. MaxTimers /\ timersSet' \in 1 .. timersSet'
    BY <1>2
  <2>2. 1 .. timersSet \subseteq 1 .. timersSet'
    BY <1>2, <2>1
  <2> QED
    BY <1>2, <2>1, <2>2
<1> QED
  BY <1>1, <1>2 DEF SentOrSet

LEMMA StepNumbers == Numbers /\ [Next]_vars => Numbers'
<1> SUFFICES ASSUME Numbers, [Next]_vars PROVE Numbers'
  OBVIOUS
<1> USE RendererAssumption DEF Numbers, Cookies, adviseVars, timerVars
<1>1. CASE ReceiveError
  <2>1. SentOrSet(m_EndOfStreamTimer) /\ calling' = calling
    BY <1>1, NotifyNumbers DEF ReceiveError, SentOrSet, timerVars
  <2>2. m_dwAdvise' \in {0} \cup Cookies /\ advises' \subseteq Cookies
    BY <1>1 DEF ReceiveError
  <2> QED
    BY <2>1, <2>2, TimerNumbers
<1>2. CASE ReceiveChecksState
  BY <1>2 DEF ReceiveChecksState
<1>3. CASE OnReceiveFirstSample
  BY <1>3 DEF OnReceiveFirstSample
<1>4. CASE ReceiveReady
  BY <1>4 DEF ReceiveReady
<1>5. CASE WaitEndsForStateChange
  BY <1>5 DEF WaitEndsForStateChange
<1>6. CASE WaitEndsForRender
  BY <1>6 DEF WaitEndsForRender
<1>7. CASE SignalTimerFired
  BY <1>7 DEF SignalTimerFired
<1>8. CASE LeaveReceive
  BY <1>8 DEF LeaveReceive
<1>9. CASE ReceiveRenders
  <2>1. SentOrSet(m_EndOfStreamTimer) /\ calling' = calling
    BY <1>9, SendNumbers DEF ReceiveRenders, EosAfterSample, SentOrSet, timerVars
  <2>2. m_dwAdvise' \in {0} \cup Cookies /\ advises' \subseteq Cookies
    BY <1>9 DEF ReceiveRenders, CancelNotification
  <2> QED
    BY <2>1, <2>2, TimerNumbers
<1>10. CASE PrepareReceive
  BY <1>10 DEF PrepareReceive, ScheduleSample, ScheduledNow, Advised
<1>11. CASE PrepareReceiveFails
  BY <1>11 DEF PrepareReceiveFails
<1>12. CASE EndOfStream
  <2>1. SentOrSet(m_EndOfStreamTimer) /\ calling' = calling
    BY <1>12, SendNumbers DEF EndOfStream, SentOrSet, timerVars
  <2>2. m_dwAdvise' \in {0} \cup Cookies /\ advises' \subseteq Cookies
    BY <1>12 DEF EndOfStream
  <2> QED
    BY <2>1, <2>2, TimerNumbers
<1>13. CASE StopKilled
  BY <1>13 DEF StopKilled, TimerKilled, CancelNotification
<1>14. CASE StopWaits
  BY <1>14 DEF StopWaits
<1>15. CASE PauseKilled
  BY <1>15 DEF PauseKilled, TimerKilled
<1>16. CASE FlushWaits
  BY <1>16 DEF FlushWaits, KillTimer
<1>17. CASE FlushKilled
  BY <1>17 DEF FlushKilled, TimerKilled
<1>18. CASE EndFlush
  BY <1>18 DEF EndFlush
<1>19. CASE Stop
  BY <1>19 DEF Stop
<1>20. CASE PauseAgain
  BY <1>20 DEF PauseAgain
<1>21. CASE PauseFromStopped
  BY <1>21 DEF PauseFromStopped, PauseStopped, CancelNotification
<1>22. CASE PauseRunning
  BY <1>22 DEF PauseRunning
<1>23. CASE RunPaused
  <2>1. SentOrSet(m_EndOfStreamTimer) /\ calling' = calling
    BY <1>23, SendNumbers DEF RunPaused, StartStreaming, SentOrSet, timerVars
  <2>2. m_dwAdvise' \in {0} \cup Cookies /\ advises' \subseteq Cookies
    BY <1>23 DEF RunPaused, StartStreaming, ScheduleSample, ScheduledNow, Advised
  <2> QED
    BY <2>1, <2>2, TimerNumbers
<1>24. CASE RunStopped
  BY <1>24 DEF RunStopped, PauseStopped, CancelNotification
<1>25. CASE BeginFlush
  BY <1>25 DEF BeginFlush, CancelNotification
<1>26. CASE ClockFires
  BY <1>26 DEF ClockFires
<1>27. CASE TimerFires
  BY <1>27 DEF TimerFires
<1>28. CASE TimerCallback
  <2>1. PICK timer \in {0, m_EndOfStreamTimer} : SentOrSet(timer)
    BY <1>28, SendNumbers DEF TimerCallback, SentOrSet
  <2>2. calling' \subseteq calling /\ UNCHANGED <<m_dwAdvise, advises>>
    BY <1>28 DEF TimerCallback
  <2> QED
    BY <2>1, <2>2, TimerNumbers
<1>29. CASE UNCHANGED vars
  BY <1>29 DEF vars
<1>30. CASE StopStreams
  BY <1>30 DEF StopStreams
<1>31. CASE StopResets
  BY <1>31 DEF StopResets, KillTimer
<1>32. CASE PauseStreams
  BY <1>32 DEF PauseStreams
<1>33. CASE PauseResets
  BY <1>33 DEF PauseResets, KillTimer, CancelNotification
<1> QED
  BY <1>30, <1>31, <1>32, <1>33, <1>1, <1>2, <1>3, <1>4, <1>5, <1>6, <1>7, <1>8, <1>9, <1>10, <1>11, <1>12, <1>13, <1>14, <1>15, <1>16, <1>17, <1>18, <1>19, <1>20, <1>21, <1>22, <1>23, <1>24, <1>25, <1>26, <1>27, <1>28, <1>29
  DEF Next, StreamStep, StreamCall, ControlStep, ControlCall

\* What timeKillEvent was called for; and a timer is kept for an end of stream
\* that waits for no sample.
Timer ==
    /\ killing # 0 => KillsTimer
    /\ KillsTimer /\ killing = 0 => m_EndOfStreamTimer = 0
    /\ m_EndOfStreamTimer # 0 => m_bEOS /\ ~m_pMediaSample

LEMMA StepTimer == Timer /\ [Next]_vars => Timer'
<1> SUFFICES ASSUME Timer, [Next]_vars PROVE Timer'
  OBVIOUS
<1> USE DEF Timer, KillsTimer, eosVars, timerVars, ctrlVars
<1>1. CASE ReceiveError
  BY <1>1 DEF ReceiveError, NotifyEndOfStream, InterfaceFree
<1>2. CASE ReceiveChecksState
  BY <1>2 DEF ReceiveChecksState
<1>3. CASE OnReceiveFirstSample
  BY <1>3 DEF OnReceiveFirstSample
<1>4. CASE ReceiveReady
  BY <1>4 DEF ReceiveReady
<1>5. CASE WaitEndsForStateChange
  BY <1>5 DEF WaitEndsForStateChange
<1>6. CASE WaitEndsForRender
  BY <1>6 DEF WaitEndsForRender
<1>7. CASE SignalTimerFired
  BY <1>7 DEF SignalTimerFired
<1>8. CASE LeaveReceive
  BY <1>8 DEF LeaveReceive
<1>9. CASE ReceiveRenders
  BY <1>9 DEF ReceiveRenders, InterfaceFree, EosAfterSample, SendEndOfStream, NotifyEndOfStream
<1>10. CASE PrepareReceive
  BY <1>10 DEF PrepareReceive, Deliver, InterfaceFree
<1>11. CASE PrepareReceiveFails
  BY <1>11 DEF PrepareReceiveFails
<1>12. CASE EndOfStream
  BY <1>12 DEF EndOfStream, InterfaceFree, NothingHeld, SendEndOfStream, NotifyEndOfStream
<1>13. CASE StopKilled
  BY <1>13 DEF StopKilled, TimerKilled
<1>14. CASE StopWaits
  BY <1>14 DEF StopWaits
<1>15. CASE PauseKilled
  BY <1>15 DEF PauseKilled, TimerKilled
<1>16. CASE FlushWaits
  BY <1>16 DEF FlushWaits, KillTimer, FlushKillsIn
<1>17. CASE FlushKilled
  BY <1>17 DEF FlushKilled, TimerKilled
<1>18. CASE EndFlush
  BY <1>18 DEF EndFlush
<1>19. CASE Stop
  BY <1>19 DEF Stop, MayChange
<1>20. CASE PauseAgain
  BY <1>20 DEF PauseAgain, MayChange
<1>21. CASE PauseFromStopped
  BY <1>21 DEF PauseFromStopped, MayChange, PauseStopped
<1>22. CASE PauseRunning
  BY <1>22 DEF PauseRunning, MayChange
<1>23. CASE RunPaused
  BY <1>23 DEF RunPaused, MayChange, StartStreaming, SendEndOfStream, NotifyEndOfStream
<1>24. CASE RunStopped
  BY <1>24 DEF RunStopped, MayChange, PauseStopped
<1>25. CASE BeginFlush
  BY <1>25 DEF BeginFlush, MayChange
<1>26. CASE ClockFires
  BY <1>26 DEF ClockFires
<1>27. CASE TimerFires
  BY <1>27 DEF TimerFires
<1>28. CASE TimerCallback
  BY <1>28 DEF TimerCallback, TimerWanted, SendEndOfStream, NotifyEndOfStream
<1>29. CASE UNCHANGED vars
  BY <1>29 DEF vars
<1>30. CASE StopStreams
  BY <1>30 DEF StopStreams
<1>31. CASE StopResets
  BY <1>31 DEF StopResets, KillTimer
<1>32. CASE PauseStreams
  BY <1>32 DEF PauseStreams
<1>33. CASE PauseResets
  BY <1>33 DEF PauseResets, KillTimer
<1> QED
  BY <1>30, <1>31, <1>32, <1>33, <1>1, <1>2, <1>3, <1>4, <1>5, <1>6, <1>7, <1>8, <1>9, <1>10, <1>11, <1>12, <1>13, <1>14, <1>15, <1>16, <1>17, <1>18, <1>19, <1>20, <1>21, <1>22, <1>23, <1>24, <1>25, <1>26, <1>27, <1>28, <1>29
  DEF Next, StreamStep, StreamCall, ControlStep, ControlCall

\* The flags are Boolean.
Booleans ==
    /\ m_pMediaSample \in BOOLEAN /\ m_bStreaming \in BOOLEAN /\ m_bEOS \in BOOLEAN
    /\ m_bEOSDelivered \in BOOLEAN /\ m_bFlushing \in BOOLEAN /\ m_bRunTimeError \in BOOLEAN
    /\ m_evComplete \in BOOLEAN /\ m_ThreadSignal \in BOOLEAN /\ m_RenderEvent \in BOOLEAN
    /\ m_bInReceive \in BOOLEAN

LEMMA NotifyBooleans ==
    ASSUME NEW streaming \in BOOLEAN, NEW timer, NotifyEndOfStream(streaming, timer),
           m_bEOSDelivered \in BOOLEAN
    PROVE  m_bEOSDelivered' \in BOOLEAN
  BY Zenon DEF NotifyEndOfStream

LEMMA SendBooleans ==
    ASSUME NEW eos, NEW streaming \in BOOLEAN, NEW timer, SendEndOfStream(eos, streaming, timer),
           m_bEOSDelivered \in BOOLEAN
    PROVE  m_bEOSDelivered' \in BOOLEAN
  BY NotifyBooleans, Zenon DEF SendEndOfStream

LEMMA StepBooleans == Booleans /\ [Next]_vars => Booleans'
<1> SUFFICES ASSUME Booleans, [Next]_vars PROVE Booleans'
  OBVIOUS
<1> USE DEF Booleans, eosVars, pinVars, adviseVars, recvVars
<1>1. CASE ReceiveError
  BY <1>1, NotifyBooleans DEF ReceiveError
<1>2. CASE ReceiveChecksState
  BY <1>2 DEF ReceiveChecksState
<1>3. CASE OnReceiveFirstSample
  BY <1>3 DEF OnReceiveFirstSample
<1>4. CASE ReceiveReady
  BY <1>4 DEF ReceiveReady
<1>5. CASE WaitEndsForStateChange
  BY <1>5 DEF WaitEndsForStateChange
<1>6. CASE WaitEndsForRender
  BY <1>6 DEF WaitEndsForRender
<1>7. CASE SignalTimerFired
  BY <1>7 DEF SignalTimerFired
<1>8. CASE LeaveReceive
  BY <1>8 DEF LeaveReceive
<1>9. CASE ReceiveRenders
  BY <1>9, SendBooleans DEF ReceiveRenders, EosAfterSample, CancelNotification
<1>10. CASE PrepareReceive
  BY <1>10 DEF PrepareReceive, ScheduleSample, ScheduledNow, Advised
<1>11. CASE PrepareReceiveFails
  BY <1>11 DEF PrepareReceiveFails
<1>12. CASE EndOfStream
  BY <1>12, SendBooleans DEF EndOfStream
<1>13. CASE StopKilled
  BY <1>13 DEF StopKilled, CancelNotification
<1>14. CASE StopWaits
  BY <1>14 DEF StopWaits
<1>15. CASE PauseKilled
  BY <1>15 DEF PauseKilled, CompleteStateChange
<1>16. CASE FlushWaits
  BY <1>16 DEF FlushWaits
<1>17. CASE FlushKilled
  BY <1>17 DEF FlushKilled
<1>18. CASE EndFlush
  BY <1>18 DEF EndFlush
<1>19. CASE Stop
  BY <1>19 DEF Stop
<1>20. CASE PauseAgain
  BY <1>20 DEF PauseAgain, CompleteStateChange
<1>21. CASE PauseFromStopped
  BY <1>21 DEF PauseFromStopped, PauseStopped, StopStreaming, CompleteStateChange, CancelNotification
<1>22. CASE PauseRunning
  BY <1>22 DEF PauseRunning
<1>23. CASE RunPaused
  BY <1>23, SendBooleans DEF RunPaused, StartStreaming, ScheduleSample, ScheduledNow, Advised
<1>24. CASE RunStopped
  BY <1>24 DEF RunStopped, PauseStopped, CompleteStateChange, CancelNotification
<1>25. CASE BeginFlush
  BY <1>25 DEF BeginFlush, CancelNotification
<1>26. CASE ClockFires
  BY <1>26 DEF ClockFires
<1>27. CASE TimerFires
  BY <1>27 DEF TimerFires
<1>28. CASE TimerCallback
  BY <1>28, SendBooleans DEF TimerCallback
<1>29. CASE UNCHANGED vars
  BY <1>29 DEF vars
<1>30. CASE StopStreams
  BY <1>30 DEF StopStreams, StopStreaming
<1>31. CASE StopResets
  BY <1>31 DEF StopResets
<1>32. CASE PauseStreams
  BY <1>32 DEF PauseStreams, StopStreaming
<1>33. CASE PauseResets
  BY <1>33 DEF PauseResets, CancelNotification
<1> QED
  BY <1>30, <1>31, <1>32, <1>33, <1>1, <1>2, <1>3, <1>4, <1>5, <1>6, <1>7, <1>8, <1>9, <1>10, <1>11, <1>12, <1>13, <1>14, <1>15, <1>16, <1>17, <1>18, <1>19, <1>20, <1>21, <1>22, <1>23, <1>24, <1>25, <1>26, <1>27, <1>28, <1>29
  DEF Next, StreamStep, StreamCall, ControlStep, ControlCall

\* EC_COMPLETE is given in one step.
Complete ==
    ~m_bEOSDelivered /\ m_bEOSDelivered' =>
        /\ m_State' = "Running" \/ LeavesRunning
        /\ m_bRunTimeError' \/ (m_bEOS' /\ ~m_pMediaSample')

LEMMA StepComplete == Flags /\ Timer /\ [Next]_vars => Complete
<1> SUFFICES ASSUME Flags, Timer, [Next]_vars PROVE Complete
  OBVIOUS
<1> USE DEF Complete, Flags, Labels, LeavesRunning, Timer, eosVars
<1>1. CASE ReceiveError
  BY <1>1 DEF ReceiveError, NotifyEndOfStream
<1>2. CASE ReceiveChecksState
  BY <1>2 DEF ReceiveChecksState
<1>3. CASE OnReceiveFirstSample
  BY <1>3 DEF OnReceiveFirstSample
<1>4. CASE ReceiveReady
  BY <1>4 DEF ReceiveReady
<1>5. CASE WaitEndsForStateChange
  BY <1>5 DEF WaitEndsForStateChange
<1>6. CASE WaitEndsForRender
  BY <1>6 DEF WaitEndsForRender
<1>7. CASE SignalTimerFired
  BY <1>7 DEF SignalTimerFired
<1>8. CASE LeaveReceive
  BY <1>8 DEF LeaveReceive
<1>9. CASE ReceiveRenders
  BY <1>9 DEF ReceiveRenders, EosAfterSample, SendEndOfStream, NotifyEndOfStream
<1>10. CASE PrepareReceive
  BY <1>10 DEF PrepareReceive
<1>11. CASE PrepareReceiveFails
  BY <1>11 DEF PrepareReceiveFails
<1>12. CASE EndOfStream
  BY <1>12 DEF EndOfStream, NothingHeld, SendEndOfStream, NotifyEndOfStream
<1>13. CASE StopKilled
  BY <1>13 DEF StopKilled
<1>14. CASE StopWaits
  BY <1>14 DEF StopWaits
<1>15. CASE PauseKilled
  BY <1>15 DEF PauseKilled
<1>16. CASE FlushWaits
  BY <1>16 DEF FlushWaits
<1>17. CASE FlushKilled
  BY <1>17 DEF FlushKilled
<1>18. CASE EndFlush
  BY <1>18 DEF EndFlush
<1>19. CASE Stop
  BY <1>19 DEF Stop
<1>20. CASE PauseAgain
  BY <1>20 DEF PauseAgain
<1>21. CASE PauseFromStopped
  BY <1>21 DEF PauseFromStopped, StopStreaming
<1>22. CASE PauseRunning
  BY <1>22 DEF PauseRunning
<1>23. CASE RunPaused
  BY <1>23 DEF RunPaused, StartStreaming, SendEndOfStream, NotifyEndOfStream
<1>24. CASE RunStopped
  BY <1>24 DEF RunStopped, PauseStopped
<1>25. CASE BeginFlush
  BY <1>25 DEF BeginFlush
<1>26. CASE ClockFires
  BY <1>26 DEF ClockFires
<1>27. CASE TimerFires
  BY <1>27 DEF TimerFires
<1>28. CASE TimerCallback
  BY <1>28 DEF TimerCallback, TimerWanted, SendEndOfStream, NotifyEndOfStream
<1>29. CASE UNCHANGED vars
  BY <1>29 DEF vars
<1>30. CASE StopStreams
  BY <1>30 DEF StopStreams, StopStreaming
<1>31. CASE StopResets
  BY <1>31 DEF StopResets
<1>32. CASE PauseStreams
  BY <1>32 DEF PauseStreams, StopStreaming
<1>33. CASE PauseResets
  BY <1>33 DEF PauseResets
<1> QED
  BY <1>30, <1>31, <1>32, <1>33, <1>1, <1>2, <1>3, <1>4, <1>5, <1>6, <1>7, <1>8, <1>9, <1>10, <1>11, <1>12, <1>13, <1>14, <1>15, <1>16, <1>17, <1>18, <1>19, <1>20, <1>21, <1>22, <1>23, <1>24, <1>25, <1>26, <1>27, <1>28, <1>29
  DEF Next, StreamStep, StreamCall, ControlStep, ControlCall

Inv == Flags /\ Booleans /\ Numbers /\ Timer

LEMMA InitInv == Init => Inv
<1> SUFFICES ASSUME Init PROVE Inv
  OBVIOUS
<1>1. Flags
  BY DEF Init, Flags, Labels, LeavesRunning, HoldsNothing
<1>2. Booleans
  BY DEF Init, Booleans
<1>3. Numbers
  BY RendererAssumption DEF Init, Numbers, Cookies
<1>4. Timer
  BY DEF Init, Timer, KillsTimer
<1> QED
  BY <1>1, <1>2, <1>3, <1>4 DEF Inv

\* Every state of every behaviour satisfies the invariant.
THEOREM Invariance == Spec => []Inv
<1>1. Inv /\ [Next]_vars => Inv'
  BY StepFlags, StepBooleans, StepNumbers, StepTimer DEF Inv
<1> QED
  BY InitInv, <1>1, PTL DEF Spec

\* The types, and that the flags go with the labels of the threads.
THEOREM TypeCorrect == Spec => []TypeOK
<1>1. Inv => TypeOK
  BY DEF Inv, Flags, Labels, Booleans, Numbers, TypeOK
<1> QED
  BY Invariance, <1>1, PTL

\* A renderer that is stopped or flushes holds no sample, and when Stop has
\* returned it keeps no thread.
THEOREM HoldsNothingWhenStopped == Spec => []HoldsNothing
<1>1. Inv => HoldsNothing
  BY DEF Inv, Flags
<1> QED
  BY Invariance, <1>1, PTL

\* EC_COMPLETE is given while the filter runs or a call is about to stop its streaming,
\* and, without an error, at the end of the stream behind the last sample.
THEOREM CompleteComesLast == Spec => CompleteIsLast
<1>1. Inv /\ [Next]_vars => [Complete]_vars
  BY StepComplete DEF Inv
<1> QED
  BY Invariance, <1>1, PTL DEF Spec, CompleteIsLast, Complete
=============================================================================
