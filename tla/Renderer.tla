------------------------------ MODULE Renderer ------------------------------
(***************************************************************************)
(* CBaseRenderer and CRendererInputPin (baseclasses/renbase.cpp), with an  *)
(* input pin that is connected throughout.                                 *)
(*                                                                         *)
(* Four actors meet in a renderer: the control thread that calls Stop,     *)
(* Pause, Run, BeginFlush and EndFlush; the streaming thread that calls    *)
(* Receive and waits in it until its sample is due; the clock, which sets  *)
(* m_RenderEvent; and the multimedia timer, whose callback sends the end   *)
(* of stream.  EndOfStream may come from any thread.  A stretch of code    *)
(* under m_InterfaceLock or m_RendererLock is one action unless it waits.  *)
(*                                                                         *)
(* The upstream side of the contract: EndFlush, and Pause or Run of a      *)
(* stopped filter, come when the streaming thread has returned from        *)
(* Receive, and no sample follows an end of stream.  m_bAbort is only set  *)
(* by derived classes and is left out, as are painting, media positions    *)
(* and the allocator.                                                      *)
(***************************************************************************)
EXTENDS Integers, FiniteSets

CONSTANTS
    MaxAdvises,    \* bound on the advises the clock has at a time; then AdviseTime fails
    MaxTimers,     \* bound on the end of stream timers; then the time has come
    KillSync       \* whether timeKillEvent waits for the callback: since Windows XP

ASSUME RendererAssumption ==
    /\ MaxAdvises \in Nat /\ MaxTimers \in Nat /\ KillSync \subseteq BOOLEAN

Cookies == 1 .. MaxAdvises

VARIABLES
    m_State,
    m_pMediaSample,           \* a sample is held
    m_bStreaming, m_bEOS, m_bEOSDelivered,
    m_bFlushing, m_bRunTimeError,
    m_evComplete,             \* manual-reset: the state change is complete
    m_ThreadSignal,           \* manual-reset: the streaming thread must not wait
    m_RenderEvent,            \* auto-reset: the sample is due
    m_dwAdvise, advises,      \* the cookie kept; the advises the clock has
    m_EndOfStreamTimer, timers, calling,  \* the timer kept; running; callbacks begun
    timersSet,                \* timers set so far
    killSync,                 \* which kind of timers the system has
    killing,                  \* the timer timeKillEvent was called for
    m_bInReceive, rpc,        \* streaming thread: flag, label
    apc                       \* control thread: label

eosVars   == <<m_bEOS, m_bEOSDelivered>>
pinVars   == <<m_bFlushing, m_bRunTimeError>>
adviseVars == <<m_RenderEvent, m_dwAdvise, advises>>
timerVars == <<m_EndOfStreamTimer, timers, calling, timersSet>>
recvVars  == <<m_bInReceive, rpc>>
ctrlVars  == <<killSync, killing, apc>>
vars == <<m_State, m_pMediaSample, m_bStreaming, eosVars, pinVars, m_evComplete, m_ThreadSignal,
          adviseVars, timerVars, recvVars, ctrlVars>>

Init ==
    /\ m_State = "Stopped" /\ m_pMediaSample = FALSE /\ m_bStreaming = FALSE
    /\ m_bEOS = FALSE /\ m_bEOSDelivered = FALSE
    /\ m_bFlushing = FALSE /\ m_bRunTimeError = FALSE
    /\ m_evComplete = TRUE /\ m_ThreadSignal = FALSE
    /\ m_RenderEvent = FALSE /\ m_dwAdvise = 0 /\ advises = {}
    /\ m_EndOfStreamTimer = 0 /\ timers = {} /\ calling = {} /\ timersSet = 0
    /\ m_bInReceive = FALSE /\ rpc = "idle"
    /\ killSync \in KillSync /\ killing = 0 /\ apc = "idle"
-----------------------------------------------------------------------------
\* The control thread holds m_InterfaceLock for the whole of a call, and
\* m_RendererLock where BeginFlush waits for Receive.
InterfaceFree == apc \in {"idle", "flushing"}
RendererFree  == apc # "flushWait"

CheckStreaming == m_State # "Stopped" /\ ~m_bFlushing /\ ~m_bRunTimeError

CancelNotification ==
    /\ advises' = advises \ {m_dwAdvise} /\ m_dwAdvise' = 0 /\ m_RenderEvent' = FALSE

\* The outcomes of ScheduleSample: due now, or at a time the clock will tell.
ScheduledNow == m_RenderEvent' = TRUE /\ UNCHANGED <<m_dwAdvise, advises>>
Advised ==
    /\ \E c \in Cookies \ advises : m_dwAdvise' = c /\ advises' = advises \cup {c}
    /\ UNCHANGED m_RenderEvent
ScheduleSample == ScheduledNow \/ Advised

\* NotifyEndOfStream, if m_EndOfStreamTimer is timer; EC_COMPLETE is given when
\* m_bEOSDelivered is set.
NotifyEndOfStream(streaming, timer) ==
    /\ m_bEOSDelivered' = (m_bEOSDelivered \/ streaming)
    /\ m_EndOfStreamTimer' = IF streaming THEN 0 ELSE timer
    /\ UNCHANGED <<timers, timersSet>>

\* SendEndOfStream: nothing to do; or the time has come, or no timer can be set;
\* or a timer is set.
SendEndOfStream(eos, streaming, timer) ==
    IF ~eos \/ m_bEOSDelivered \/ timer # 0
      THEN m_EndOfStreamTimer' = timer /\ UNCHANGED <<m_bEOSDelivered, timers, timersSet>>
      ELSE \/ NotifyEndOfStream(streaming, timer)
           \/ /\ timersSet < MaxTimers /\ timersSet' = timersSet + 1
              /\ m_EndOfStreamTimer' = timersSet' /\ timers' = timers \cup {timersSet'}
              /\ UNCHANGED m_bEOSDelivered
-----------------------------------------------------------------------------
(* The streaming thread. *)

\* Mutant: samples are taken during a flush.
NotStopped == m_State # "Stopped" /\ ~m_bRunTimeError

\* PrepareReceive takes samples if CheckStreaming says so.
MayReceive == CheckStreaming

Deliver == rpc = "idle" /\ ~m_bEOS

\* PrepareReceive takes the sample and schedules it if the filter is streaming.
PrepareReceive ==
    /\ Deliver /\ InterfaceFree /\ RendererFree
    /\ MayReceive /\ ~m_pMediaSample
    /\ m_bInReceive' = TRUE /\ rpc' = "prepared" /\ m_pMediaSample' = TRUE
    /\ IF m_bStreaming THEN ScheduleSample ELSE UNCHANGED adviseVars
    /\ UNCHANGED <<m_State, m_bStreaming, eosVars, pinVars, m_evComplete, m_ThreadSignal,
                   timerVars, ctrlVars>>

\* PrepareReceive fails: the filter does not take samples, it has one, or the
\* sample has a new type that is refused.  m_bInReceive is reset.  A sample that
\* ScheduleSample rejects changes nothing and is no error.
PrepareReceiveFails ==
    /\ Deliver /\ InterfaceFree /\ RendererFree
    /\ rpc' = "error" /\ m_evComplete' = (m_evComplete \/ (MayReceive /\ m_pMediaSample))
    /\ UNCHANGED <<m_State, m_pMediaSample, m_bStreaming, eosVars, pinVars, m_ThreadSignal,
                   adviseVars, timerVars, m_bInReceive, ctrlVars>>

\* CRendererInputPin::Receive reports an error nobody expects.
ReceiveError ==
    /\ rpc = "error" /\ InterfaceFree /\ RendererFree
    /\ rpc' = "idle"
    /\ IF CheckStreaming
         THEN /\ m_bRunTimeError' = TRUE
              /\ IF m_bStreaming /\ ~m_bEOSDelivered
                   THEN NotifyEndOfStream(TRUE, m_EndOfStreamTimer) /\ UNCHANGED calling
                   ELSE UNCHANGED <<m_bEOSDelivered, timerVars>>
         ELSE UNCHANGED <<m_bRunTimeError, m_bEOSDelivered, timerVars>>
    /\ UNCHANGED <<m_State, m_pMediaSample, m_bStreaming, m_bEOS, m_bFlushing, m_evComplete,
                   m_ThreadSignal, adviseVars, m_bInReceive, ctrlVars>>

\* The state is read without a lock; a first sample is shown in the paused state.
ReceiveChecksState ==
    /\ rpc = "prepared"
    /\ IF m_State = "Paused" THEN rpc' = "first" /\ m_bInReceive' = FALSE
                             ELSE rpc' = "wait" /\ UNCHANGED m_bInReceive
    /\ UNCHANGED <<m_State, m_pMediaSample, m_bStreaming, eosVars, pinVars, m_evComplete,
                   m_ThreadSignal, adviseVars, timerVars, ctrlVars>>

OnReceiveFirstSample ==
    /\ rpc = "first" /\ InterfaceFree
    /\ IF m_State = "Stopped" THEN rpc' = "idle" /\ UNCHANGED m_bInReceive
                              ELSE RendererFree /\ rpc' = "ready" /\ m_bInReceive' = TRUE
    /\ UNCHANGED <<m_State, m_pMediaSample, m_bStreaming, eosVars, pinVars, m_evComplete,
                   m_ThreadSignal, adviseVars, timerVars, ctrlVars>>

\* Ready, without a lock.
ReceiveReady ==
    /\ rpc = "ready" /\ rpc' = "wait" /\ m_evComplete' = TRUE
    /\ UNCHANGED <<m_State, m_pMediaSample, m_bStreaming, eosVars, pinVars, m_ThreadSignal,
                   adviseVars, timerVars, m_bInReceive, ctrlVars>>

\* WaitForRenderTime is told that the state has changed; Receive returns.
WaitEndsForStateChange ==
    /\ rpc = "wait" /\ m_ThreadSignal /\ m_bInReceive' = FALSE /\ rpc' = "idle"
    /\ UNCHANGED <<m_State, m_pMediaSample, m_bStreaming, eosVars, pinVars, m_evComplete,
                   m_ThreadSignal, adviseVars, timerVars, ctrlVars>>

\* It is time to render.
WaitEndsForRender ==
    /\ rpc = "wait" /\ ~m_ThreadSignal /\ m_RenderEvent
    /\ m_RenderEvent' = FALSE /\ rpc' = "fired"
    /\ UNCHANGED <<m_State, m_pMediaSample, m_bStreaming, eosVars, pinVars, m_evComplete,
                   m_ThreadSignal, m_dwAdvise, advises, timerVars, m_bInReceive, ctrlVars>>

\* SignalTimerFired, without a lock.
SignalTimerFired ==
    /\ rpc = "fired" /\ m_dwAdvise' = 0 /\ rpc' = "woken"
    /\ UNCHANGED <<m_State, m_pMediaSample, m_bStreaming, eosVars, pinVars, m_evComplete,
                   m_ThreadSignal, m_RenderEvent, advises, timerVars, m_bInReceive, ctrlVars>>

\* After PrepareRender Receive no longer counts as in progress ...
LeaveReceive ==
    /\ rpc = "woken" /\ m_bInReceive' = FALSE /\ rpc' = "render"
    /\ UNCHANGED <<m_State, m_pMediaSample, m_bStreaming, eosVars, pinVars, m_evComplete,
                   m_ThreadSignal, adviseVars, timerVars, ctrlVars>>

\* Mutant: an end of stream that came before the sample was drawn is forgotten.
ForgetEos == UNCHANGED <<m_bEOSDelivered, m_EndOfStreamTimer, timers, timersSet>>

\* An end of stream that came while the sample waited is sent behind it.
EosAfterSample == SendEndOfStream(m_bEOS, m_bStreaming, m_EndOfStreamTimer)

\* ... and then it takes the locks: nothing more if the filter has stopped; else
\* the sample is drawn if the filter still streams, and is released.
ReceiveRenders ==
    /\ rpc = "render" /\ InterfaceFree /\ RendererFree /\ rpc' = "idle"
    /\ IF m_State = "Stopped"
         THEN UNCHANGED <<m_pMediaSample, m_bEOSDelivered, adviseVars, timerVars>>
         ELSE /\ m_pMediaSample' = FALSE /\ EosAfterSample
              /\ CancelNotification /\ UNCHANGED calling
    /\ UNCHANGED <<m_State, m_bStreaming, m_bEOS, pinVars, m_evComplete, m_ThreadSignal,
                   m_bInReceive, ctrlVars>>

\* Mutant: the end of stream overtakes the sample.
EosAtOnce == TRUE

\* EndOfStream waits for a sample to be rendered.
NothingHeld == ~m_pMediaSample

EndOfStream ==
    /\ InterfaceFree /\ RendererFree /\ CheckStreaming
    /\ m_bEOS' = TRUE
    /\ IF NothingHeld
         THEN /\ m_evComplete' = TRUE
              /\ IF m_bStreaming
                   THEN SendEndOfStream(TRUE, TRUE, m_EndOfStreamTimer) /\ UNCHANGED calling
                   ELSE UNCHANGED <<m_bEOSDelivered, timerVars>>
         ELSE UNCHANGED <<m_evComplete, m_bEOSDelivered, timerVars>>
    /\ UNCHANGED <<m_State, m_pMediaSample, m_bStreaming, pinVars, m_ThreadSignal, adviseVars,
                   recvVars, ctrlVars>>
-----------------------------------------------------------------------------
(* The clock and the multimedia timer. *)

ClockFires ==
    /\ \E c \in advises : advises' = advises \ {c}
    /\ m_RenderEvent' = TRUE
    /\ UNCHANGED <<m_State, m_pMediaSample, m_bStreaming, eosVars, pinVars, m_evComplete,
                   m_ThreadSignal, m_dwAdvise, timerVars, recvVars, ctrlVars>>

TimerFires ==
    /\ \E t \in timers : timers' = timers \ {t} /\ calling' = calling \cup {t}
    /\ UNCHANGED <<m_State, m_pMediaSample, m_bStreaming, eosVars, pinVars, m_evComplete,
                   m_ThreadSignal, adviseVars, m_EndOfStreamTimer, timersSet, recvVars, ctrlVars>>

\* A callback that comes when the timer has been killed does nothing.
TimerWanted == m_EndOfStreamTimer # 0

\* TimerCallback: under m_RendererLock alone.  The clock may be behind the timer.
TimerCallback ==
    /\ RendererFree
    /\ \E t \in calling : calling' = calling \ {t}
    /\ IF TimerWanted THEN SendEndOfStream(m_bEOS, m_bStreaming, 0)
                      ELSE UNCHANGED <<m_bEOSDelivered, m_EndOfStreamTimer, timers, timersSet>>
    /\ UNCHANGED <<m_State, m_pMediaSample, m_bStreaming, m_bEOS, pinVars, m_evComplete,
                   m_ThreadSignal, adviseVars, recvVars, ctrlVars>>
-----------------------------------------------------------------------------
(* The control thread: state changes.  ResetEndOfStreamTimer kills the timer  *)
(* and resets m_EndOfStreamTimer when timeKillEvent returns.                  *)

MayChange == apc = "idle"

\* timeKillEvent is called for the timer that is kept.
KillTimer == killing' = m_EndOfStreamTimer /\ timers' = timers \ {m_EndOfStreamTimer}

\* timeKillEvent returns: when no callback of the timer is running, or at once.
TimerKilled ==
    /\ ~killSync \/ killing \notin calling
    /\ m_EndOfStreamTimer' = IF killing = 0 THEN m_EndOfStreamTimer ELSE 0
    /\ killing' = 0

\* StopStreaming, which resets m_bEOSDelivered.
StopStreaming == m_bEOSDelivered' = FALSE /\ m_bStreaming' = FALSE

\* Stop, the part of the base class: the pin releases the sample it holds, and the
\* state changes.  This is under m_InterfaceLock, which a timer's callback does not
\* take; m_bStreaming is still what it was.
Stop ==
    /\ MayChange /\ m_State # "Stopped" /\ apc' = "stopStream"
    /\ m_State' = "Stopped" /\ m_bRunTimeError' = FALSE /\ m_pMediaSample' = FALSE
    /\ UNCHANGED <<m_bStreaming, eosVars, m_bFlushing, m_evComplete, m_ThreadSignal, adviseVars,
                   timerVars, recvVars, killSync, killing>>

StopStreams ==
    /\ apc = "stopStream" /\ apc' = "stopReset" /\ StopStreaming
    /\ UNCHANGED <<m_State, m_pMediaSample, m_bEOS, pinVars, m_evComplete, m_ThreadSignal,
                   adviseVars, timerVars, recvVars, killSync, killing>>

\* The streaming thread may not wait, and timeKillEvent is called.
StopResets ==
    /\ apc = "stopReset" /\ apc' = "stopKill" /\ m_ThreadSignal' = TRUE /\ KillTimer
    /\ UNCHANGED <<m_State, m_pMediaSample, m_bStreaming, eosVars, pinVars, m_evComplete,
                   adviseVars, m_EndOfStreamTimer, calling, timersSet, recvVars, killSync>>

\* ResetEndOfStream, CancelNotification and Ready.
StopKilled ==
    /\ apc = "stopKill" /\ TimerKilled /\ apc' = "stopWait"
    /\ m_bEOS' = FALSE /\ m_bEOSDelivered' = FALSE
    /\ CancelNotification /\ m_evComplete' = TRUE
    /\ UNCHANGED <<m_State, m_pMediaSample, m_bStreaming, pinVars, m_ThreadSignal, timers, calling,
                   timersSet, recvVars, killSync>>

\* WaitForReceiveToComplete, and Stop returns.
StopWaits ==
    /\ apc = "stopWait" /\ ~m_bInReceive /\ apc' = "idle"
    /\ UNCHANGED <<m_State, m_pMediaSample, m_bStreaming, eosVars, pinVars, m_evComplete,
                   m_ThreadSignal, adviseVars, timerVars, recvVars, killSync, killing>>

\* CompleteStateChange: ready at the end of the stream, or with a sample that is
\* not from before a stop.
CompleteStateChange(old) ==
    m_evComplete' = (m_bEOS \/ (m_pMediaSample /\ old # "Stopped"))

\* Pause of a paused filter looks again whether it is complete.
PauseAgain ==
    /\ MayChange /\ m_State = "Paused" /\ CompleteStateChange("Paused")
    /\ UNCHANGED <<m_State, m_pMediaSample, m_bStreaming, eosVars, pinVars, m_ThreadSignal,
                   adviseVars, timerVars, recvVars, killSync, killing, apc>>

\* Pause of a stopped filter, also as a part of Run; there is no timer then.
PauseStopped ==
    /\ m_State = "Stopped" /\ rpc = "idle" /\ m_pMediaSample' = FALSE
    /\ m_ThreadSignal' = FALSE /\ CancelNotification

PauseFromStopped ==
    /\ MayChange /\ PauseStopped /\ m_State' = "Paused" /\ StopStreaming
    /\ CompleteStateChange("Stopped")
    /\ UNCHANGED <<m_bEOS, pinVars, timerVars, recvVars, killSync, killing, apc>>

\* Pause of a running filter: the state changes, under m_InterfaceLock, before
\* StopStreaming takes m_RendererLock ...
PauseRunning ==
    /\ MayChange /\ m_State = "Running" /\ apc' = "pauseStream" /\ m_State' = "Paused"
    /\ UNCHANGED <<m_pMediaSample, m_bStreaming, eosVars, pinVars, m_evComplete, m_ThreadSignal,
                   adviseVars, timerVars, recvVars, killSync, killing>>

PauseStreams ==
    /\ apc = "pauseStream" /\ apc' = "pauseReset" /\ StopStreaming
    /\ UNCHANGED <<m_State, m_pMediaSample, m_bEOS, pinVars, m_evComplete, m_ThreadSignal,
                   adviseVars, timerVars, recvVars, killSync, killing>>

\* ... the advise is cancelled and timeKillEvent called ...
PauseResets ==
    /\ apc = "pauseReset" /\ apc' = "pauseKill" /\ m_ThreadSignal' = FALSE
    /\ CancelNotification /\ KillTimer
    /\ UNCHANGED <<m_State, m_pMediaSample, m_bStreaming, eosVars, pinVars, m_evComplete,
                   m_EndOfStreamTimer, calling, timersSet, recvVars, killSync>>

\* ... and it returns.
PauseKilled ==
    /\ apc = "pauseKill" /\ TimerKilled /\ apc' = "idle"
    /\ CompleteStateChange("Running")
    /\ UNCHANGED <<m_State, m_pMediaSample, m_bStreaming, eosVars, pinVars, m_ThreadSignal,
                   adviseVars, timers, calling, timersSet, recvVars, killSync>>

\* StartStreaming: the end of stream, or the sample that is held is scheduled; if
\* it cannot be, it is due now.
StartStreaming ==
    /\ m_bStreaming' = TRUE
    /\ IF ~m_pMediaSample
         THEN SendEndOfStream(m_bEOS, TRUE, m_EndOfStreamTimer) /\ UNCHANGED adviseVars
         ELSE ScheduleSample /\ UNCHANGED <<m_bEOSDelivered, m_EndOfStreamTimer, timers, timersSet>>

RunPaused ==
    /\ MayChange /\ m_State = "Paused" /\ m_State' = "Running"
    /\ m_evComplete' = TRUE /\ m_ThreadSignal' = FALSE /\ StartStreaming
    /\ UNCHANGED <<m_pMediaSample, m_bEOS, pinVars, calling, recvVars, killSync, killing, apc>>

\* Run of a stopped filter pauses it after it has called Ready.  There is no
\* sample and no end of stream.
RunStopped ==
    /\ MayChange /\ PauseStopped /\ m_State' = "Running" /\ m_bStreaming' = TRUE
    /\ CompleteStateChange("Stopped") /\ m_bEOSDelivered' = FALSE
    /\ UNCHANGED <<m_bEOS, pinVars, timerVars, recvVars, killSync, killing, apc>>
-----------------------------------------------------------------------------
(* The control thread: a flush. *)

\* BeginFlush with both locks: a paused filter has to wait for data again.
BeginFlush ==
    /\ MayChange /\ m_State # "Stopped" /\ apc' = "flushWait"
    /\ m_bFlushing' = TRUE /\ m_ThreadSignal' = TRUE
    /\ m_evComplete' = (m_evComplete /\ m_State # "Paused")
    /\ CancelNotification /\ m_pMediaSample' = FALSE
    /\ UNCHANGED <<m_State, m_bStreaming, eosVars, m_bRunTimeError, timerVars, recvVars, killSync,
                   killing>>

\* Mutant: the timer is killed with m_RendererLock held.
KillLocked == "flushWait"

\* m_RendererLock is released before timeKillEvent is called.
FlushKillsIn == "flushKill"

\* WaitForReceiveToComplete with both locks held, then the call of timeKillEvent.
FlushWaits ==
    /\ apc = "flushWait" /\ killing = 0 /\ ~m_bInReceive
    /\ apc' = (IF m_EndOfStreamTimer = 0 THEN "flushKill" ELSE FlushKillsIn)
    /\ KillTimer
    /\ UNCHANGED <<m_State, m_pMediaSample, m_bStreaming, eosVars, pinVars, m_evComplete,
                   m_ThreadSignal, adviseVars, m_EndOfStreamTimer, calling, timersSet, recvVars,
                   killSync>>

\* ResetEndOfStream.
FlushKilled ==
    /\ apc = "flushKill" \/ (apc = "flushWait" /\ killing # 0)
    /\ TimerKilled /\ apc' = "flushing"
    /\ m_bEOS' = FALSE /\ m_bEOSDelivered' = FALSE
    /\ UNCHANGED <<m_State, m_pMediaSample, m_bStreaming, pinVars, m_evComplete, m_ThreadSignal,
                   adviseVars, timers, calling, timersSet, recvVars, killSync>>

EndFlush ==
    /\ apc = "flushing" /\ rpc = "idle" /\ apc' = "idle"
    /\ m_ThreadSignal' = FALSE /\ m_bFlushing' = FALSE /\ m_bRunTimeError' = FALSE
    /\ UNCHANGED <<m_State, m_pMediaSample, m_bStreaming, eosVars, m_evComplete, adviseVars,
                   timerVars, recvVars, killSync, killing>>
-----------------------------------------------------------------------------
StreamStep ==
    \/ ReceiveError \/ ReceiveChecksState \/ OnReceiveFirstSample \/ ReceiveReady
    \/ WaitEndsForStateChange \/ WaitEndsForRender \/ SignalTimerFired \/ LeaveReceive
    \/ ReceiveRenders

StreamCall == PrepareReceive \/ PrepareReceiveFails \/ EndOfStream

ControlStep == \/ StopStreams \/ StopResets \/ StopKilled \/ StopWaits
               \/ PauseStreams \/ PauseResets \/ PauseKilled
               \/ FlushWaits \/ FlushKilled \/ EndFlush

ControlCall == \/ Stop \/ PauseAgain \/ PauseFromStopped \/ PauseRunning \/ RunPaused
               \/ RunStopped \/ BeginFlush

Next == \/ StreamStep \/ StreamCall \/ ControlStep \/ ControlCall
        \/ ClockFires \/ TimerFires \/ TimerCallback

\* The threads run, and one that waits for a lock gets it in the end; the clock
\* and the timer go on.
Fairness == /\ SF_vars(StreamStep) /\ SF_vars(ControlStep) /\ SF_vars(TimerCallback)
            /\ WF_vars(ClockFires) /\ WF_vars(TimerFires)

Spec == Init /\ [][Next]_vars /\ Fairness
-----------------------------------------------------------------------------
\* Stop or Pause has changed the state and not yet stopped streaming.
LeavesRunning == apc \in {"stopStream", "pauseStream"}

\* The types, and that the labels of the threads go with their flags.
TypeOK ==
    /\ m_State \in {"Stopped", "Paused", "Running"} /\ m_pMediaSample \in BOOLEAN
    /\ m_bStreaming \in BOOLEAN /\ m_bEOS \in BOOLEAN /\ m_bEOSDelivered \in BOOLEAN
    /\ m_bFlushing \in BOOLEAN /\ m_bRunTimeError \in BOOLEAN /\ m_evComplete \in BOOLEAN
    /\ m_ThreadSignal \in BOOLEAN /\ m_RenderEvent \in BOOLEAN /\ m_bInReceive \in BOOLEAN
    /\ m_dwAdvise \in {0} \cup Cookies /\ advises \subseteq Cookies
    /\ timers \subseteq 1 .. timersSet /\ calling \subseteq 1 .. timersSet
    /\ m_EndOfStreamTimer \in 0 .. timersSet /\ timersSet \in 0 .. MaxTimers
    /\ m_bInReceive <=> rpc \in {"prepared", "ready", "wait", "fired", "woken"}
    /\ m_bStreaming => m_State = "Running" \/ LeavesRunning

\* A filter that is stopped or flushing keeps no sample, so that the allocator
\* has all of its buffers; and one whose Stop has returned keeps no thread.
HoldsNothing ==
    /\ m_State = "Stopped" \/ m_bFlushing => ~m_pMediaSample
    /\ m_State = "Stopped" /\ apc = "idle" => ~m_bInReceive

\* EC_COMPLETE is given while the filter is running, or in the moment in which a Stop
\* or Pause has changed the state and not yet stopped streaming; and unless there was
\* an error only at the end of the stream with no sample left to render, whichever of
\* four threads gives it.
CompleteIsLast ==
    [][~m_bEOSDelivered /\ m_bEOSDelivered' =>
          /\ m_State' = "Running" \/ LeavesRunning
          /\ m_bRunTimeError' \/ (m_bEOS' /\ ~m_pMediaSample')]_vars

\* Stop, Pause, BeginFlush and EndFlush return: nobody waits for the other.
ChangesEnd == apc # "idle" ~> apc = "idle"

\* At the end of a stream EC_COMPLETE is given, unless the filter leaves the
\* running state or is flushed.
EosCompletes == m_bStreaming /\ m_bEOS ~> m_bEOSDelivered \/ ~m_bStreaming \/ ~m_bEOS
-----------------------------------------------------------------------------
\* "If paused then report state intermediate until we get some data"
\* (renbase.cpp:700): after a flush a paused filter is not complete.
FlushedIsIntermediate == m_State = "Paused" /\ apc = "flushing" => ~m_evComplete

\* "Has the filter changed state" (renbase.cpp:1305): then EC_COMPLETE is not given.
\* A timer's callback that comes between the two locks of Stop gives it.
CompleteOnlyRunning ==
    [][~m_bEOSDelivered /\ m_bEOSDelivered' => m_State' = "Running"]_vars
=============================================================================
