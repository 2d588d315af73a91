---------------------------- MODULE SourceStream ----------------------------
(***************************************************************************)
(* The output pin's streaming machine: CBaseFilter's Stop, Pause and Run   *)
(* (baseclasses/amfilter.cpp), CSourceStream's Active, Inactive, ThreadProc *)
(* and DoBufferProcessingLoop (baseclasses/source.cpp), on top of the      *)
(* CAMThread call protocol, with the delivery allocator and the downstream *)
(* input pin.                                                              *)
(*                                                                         *)
(* The state lock is recursive, so Run, Pause, Active and Inactive own it  *)
(* together.  The allocator holds one buffer, as DecideBufferSize asks; it *)
(* blocks while committed with the buffer out and refuses while            *)
(* decommitted, which is what MemAllocator shows of CBaseAllocator.  The   *)
(* pin stays connected.                                                    *)
(***************************************************************************)
CONSTANTS
    Apps,               \* threads of the application that drive the filter
    Nobody,             \* a lock is free
    Faults,             \* what may fail: "Commit", "CreateThread", "OnThreadCreate"
    FillResults,        \* what FillBuffer may return
    ReceiveResults,     \* what the downstream Receive may return
    FillTakesStateLock  \* FillBuffer enters the filter's state lock

Commands == {"CMD_INIT", "CMD_PAUSE", "CMD_RUN", "CMD_STOP", "CMD_EXIT"}
Replies  == {"NOERROR", "E_UNEXPECTED", "E_NOTIMPL", "E_THREAD"}

ASSUME SourceStreamAssumption ==
    /\ Nobody \notin Apps
    /\ Faults \subseteq {"Commit", "CreateThread", "OnThreadCreate"}
    /\ FillResults \subseteq {"S_OK", "S_FALSE", "ERROR"} /\ FillResults # {}
    /\ ReceiveResults \subseteq {"S_OK", "S_FALSE"} /\ ReceiveResults # {}
    /\ FillTakesStateLock \in BOOLEAN

VARIABLES
    m_hThread, m_AccessLock, m_dwParam, m_dwReturnVal,
    m_EventSend, m_EventComplete, cpc, arg, result, wpc, com, wnext,
    m_State,       \* FILTER_STATE
    pStateLock,    \* owner of the filter's critical section
    op, apc,       \* of each application thread: its operation and label
    committed,     \* the delivery allocator gives out buffers
    buffer,        \* where the buffer is
    eos            \* end of stream has been delivered by this worker thread

W == INSTANCE CAMThread WITH Clients <- Apps, Params <- Commands

threadVars == <<m_hThread, m_AccessLock, m_dwParam, m_dwReturnVal, m_EventSend,
                m_EventComplete, cpc, arg, result, wpc, com, wnext>>
filterVars == <<m_State, pStateLock, op, apc>>
dataVars   == <<committed, buffer, eos>>
vars == <<threadVars, filterVars, dataVars>>

Init ==
    /\ W!Init
    /\ m_State = "Stopped" /\ pStateLock = Nobody
    /\ op = [a \in Apps |-> "none"] /\ apc = [a \in Apps |-> "idle"]
    /\ committed = FALSE /\ buffer = "free" /\ eos = FALSE
-----------------------------------------------------------------------------
AppGoto(a, label) == apc' = [apc EXCEPT ![a] = label]

\* The operation of a returns: the lock is released.
Finish(a, state) ==
    /\ m_State' = state /\ pStateLock' = Nobody
    /\ AppGoto(a, "idle") /\ op' = [op EXCEPT ![a] = "none"]

\* The application calls Stop, Pause or Run and waits for the lock.
Operation(a, o) ==
    /\ apc[a] = "idle"
    /\ op' = [op EXCEPT ![a] = o] /\ AppGoto(a, "enter")
    /\ UNCHANGED <<threadVars, m_State, pStateLock, dataVars>>

\* Mutant: only a paused filter inactivates its pins.
InactivateIfPaused == m_State = "Paused"

\* CBaseFilter::Stop inactivates the pins.
MustInactivate == m_State # "Stopped"

TargetState(a) == IF op[a] = "Run" THEN "Running"
                  ELSE IF op[a] = "Pause" THEN "Paused" ELSE "Stopped"

\* With the lock: a stopped filter activates its pin before it pauses or runs,
\* another one inactivates it before it stops, and the rest is a new m_State.
Enter(a) ==
    /\ apc[a] = "enter" /\ pStateLock = Nobody
    /\ LET active == op[a] # "Stop" /\ m_State = "Stopped"
           inactive == op[a] = "Stop" /\ MustInactivate
       IN IF active \/ inactive
            THEN /\ pStateLock' = a
                 /\ AppGoto(a, IF active THEN "commit" ELSE "decommit")
                 /\ UNCHANGED <<m_State, op>>
            ELSE Finish(a, TargetState(a))
    /\ UNCHANGED <<threadVars, dataVars>>
-----------------------------------------------------------------------------
\* Active: commit the allocator; a failure is returned and the filter remains
\* stopped.  Buffers still out cannot make the commit fail.
ActiveCommit(a) ==
    /\ apc[a] = "commit"
    /\ \/ /\ committed' = TRUE
          /\ AppGoto(a, "create") /\ UNCHANGED <<m_State, pStateLock, op>>
       \/ /\ "Commit" \in Faults /\ buffer = "free" /\ ~committed
          /\ UNCHANGED committed /\ Finish(a, "Stopped")
    /\ UNCHANGED <<threadVars, buffer, eos>>

\* Active: create the thread.  E_FAIL if CreateThread fails or there is one;
\* the allocator remains committed.
ActiveCreate(a) ==
    /\ apc[a] = "create"
    /\ \E ok \in BOOLEAN :
          /\ ok \/ m_hThread \/ "CreateThread" \in Faults
          /\ W!Create(a, "first", ok)
          /\ IF ok THEN AppGoto(a, "init") /\ eos' = FALSE
                          /\ UNCHANGED <<m_State, pStateLock, op>>
                   ELSE Finish(a, "Stopped") /\ UNCHANGED eos
    /\ UNCHANGED <<committed, buffer>>

\* Mutant: the thread is told to pause before it has been initialised.
StartWithPause == "CMD_PAUSE"

\* The first command of a new thread.
FirstCommand == "CMD_INIT"

\* Init(), Pause(), Stop() and Exit() of CSourceStream are calls of the worker.
Calls(a, from, command, to) ==
    /\ apc[a] = from /\ W!CallWorker(a, command) /\ AppGoto(a, to)
    /\ UNCHANGED <<m_State, pStateLock, op, dataVars>>

CallOver(a, at) == apc[a] = at /\ cpc[a] = "idle"

\* Active sends CMD_INIT, then CMD_PAUSE; the first failure is returned.
ActiveInit(a) == Calls(a, "init", FirstCommand, "inited")

ActivePause(a) ==
    /\ CallOver(a, "inited")
    /\ IF result[a] = "NOERROR"
         THEN Calls(a, "inited", "CMD_PAUSE", "paused")
         ELSE Finish(a, "Stopped") /\ UNCHANGED <<threadVars, dataVars>>

ActiveDone(a) ==
    /\ CallOver(a, "paused")
    /\ Finish(a, IF result[a] = "NOERROR" THEN TargetState(a) ELSE "Stopped")
    /\ UNCHANGED <<threadVars, dataVars>>
-----------------------------------------------------------------------------
\* Mutant: Inactive leaves the allocator committed until the thread is gone.
DecommitLater == UNCHANGED committed

\* "call this first to Decommit the allocator".
DecommitFirst == committed' = FALSE

\* Inactive: decommit, then, if there is a thread, stop it.
InactiveDecommit(a) ==
    /\ apc[a] = "decommit" /\ DecommitFirst
    /\ IF m_hThread THEN AppGoto(a, "stop") /\ UNCHANGED <<m_State, pStateLock, op>>
                    ELSE Finish(a, "Stopped")
    /\ UNCHANGED <<threadVars, buffer, eos>>

InactiveStop(a) == Calls(a, "stop", "CMD_STOP", "stopped")

\* A failed CMD_STOP or CMD_EXIT ends Inactive; the filter is stopped anyway.
InactiveExit(a) ==
    /\ CallOver(a, "stopped")
    /\ IF result[a] = "NOERROR"
         THEN Calls(a, "stopped", "CMD_EXIT", "exited")
         ELSE Finish(a, "Stopped") /\ UNCHANGED <<threadVars, dataVars>>

\* Close: the handle is taken out of m_hThread ...
InactiveClose(a) ==
    /\ CallOver(a, "exited")
    /\ IF result[a] = "NOERROR"
         THEN /\ m_hThread' = FALSE /\ AppGoto(a, "close")
              /\ UNCHANGED <<m_State, pStateLock, op>>
         ELSE Finish(a, "Stopped") /\ UNCHANGED m_hThread
    /\ UNCHANGED <<m_AccessLock, m_dwParam, m_dwReturnVal, m_EventSend,
                   m_EventComplete, cpc, arg, result, wpc, com, wnext, dataVars>>

\* Mutant: the handle is closed without waiting for the thread.
NoWaitForExit == TRUE

\* WaitForSingleObject(hThread, INFINITE) ends with the thread.
ThreadGone == wpc = "exited"

\* ... and waited for.
InactiveDone(a) ==
    /\ apc[a] = "close" /\ ThreadGone
    /\ Finish(a, "Stopped")
    /\ UNCHANGED <<threadVars, dataVars>>

\* A step inside CallWorker.
InCall(a) == W!InCall(a) /\ UNCHANGED <<filterVars, dataVars>>

AppStep(a) ==
    \/ ActiveCommit(a) \/ ActiveCreate(a) \/ ActiveInit(a) \/ ActivePause(a)
    \/ ActiveDone(a) \/ InactiveDecommit(a) \/ InactiveStop(a) \/ InactiveExit(a)
    \/ InactiveClose(a) \/ InactiveDone(a) \/ InCall(a)
-----------------------------------------------------------------------------
WorkerGoto(from, to) ==
    /\ wpc = from /\ wpc' = to
    /\ UNCHANGED <<m_hThread, m_AccessLock, m_dwParam, m_dwReturnVal, m_EventSend,
                   m_EventComplete, cpc, arg, result, com, wnext, filterVars>>

WorkerReplies(at, dw, next) ==
    /\ wpc = at /\ W!Reply(dw, next) /\ UNCHANGED <<filterVars, dataVars>>

Takes(from, to) == W!TakeRequest(from, to) /\ UNCHANGED <<filterVars, dataVars>>

\* ThreadProc up to the reply to CMD_INIT.  A failed OnThreadCreate ends the
\* thread after its reply; its handle stays in m_hThread.
FirstRequest ==
    \/ Takes("first", "firstTaken")
    \/ IF com = "CMD_INIT"
         THEN \E ok \in BOOLEAN :
                 /\ ok \/ "OnThreadCreate" \in Faults
                 /\ IF ok THEN WorkerReplies("firstTaken", "NOERROR", "request")
                          ELSE WorkerReplies("firstTaken", "E_THREAD", "exited")
         ELSE WorkerReplies("firstTaken", "E_UNEXPECTED", "first")

\* Mutant: CMD_PAUSE is acknowledged and nothing is streamed.
PlayNothing == "request"

\* CMD_RUN and CMD_PAUSE start the processing loop.
PlayLabel == "loop"

\* ThreadProc's command loop.
Dispatch ==
    \/ Takes("request", "dispatch")
    \/ com = "CMD_EXIT" /\ WorkerReplies("dispatch", "NOERROR", "destroy")
    \/ com \in {"CMD_RUN", "CMD_PAUSE"} /\ WorkerReplies("dispatch", "NOERROR", PlayLabel)
    \/ /\ com \in {"CMD_STOP", "CMD_INIT"}
       /\ WorkerReplies("dispatch", IF com = "CMD_STOP" THEN "NOERROR" ELSE "E_NOTIMPL",
                        "request")

\* OnThreadDestroy, and the thread ends.
ThreadEnds == WorkerGoto("destroy", "exited") /\ UNCHANGED dataVars

\* DoBufferProcessingLoop: a command before the next buffer.  CMD_STOP is not
\* answered here; ThreadProc takes the same request again and answers it.
LoopCommand ==
    \/ Takes("loop", "command")
    \/ IF com = "CMD_STOP"
         THEN WorkerGoto("command", "request") /\ UNCHANGED dataVars
         ELSE WorkerReplies("command", IF com \in {"CMD_RUN", "CMD_PAUSE"}
                                         THEN "NOERROR" ELSE "E_UNEXPECTED", "loop")

\* No command: ask for a buffer.  GetBuffer waits for it, or fails because the
\* allocator is decommitted and the loop goes round again.
LoopBuffer ==
    \/ ~m_EventSend /\ WorkerGoto("loop", "buffer") /\ UNCHANGED dataVars
    \/ /\ committed /\ buffer = "free" /\ buffer' = "worker"
       /\ WorkerGoto("buffer", "fill") /\ UNCHANGED <<committed, eos>>
    \/ ~committed /\ WorkerGoto("buffer", "loop") /\ UNCHANGED dataVars

\* FillBuffer.  A buffer that is not delivered is released at once.
LoopFill ==
    /\ FillTakesStateLock => pStateLock = Nobody
    /\ \E r \in FillResults :
          IF r = "S_OK" THEN WorkerGoto("fill", "deliver") /\ UNCHANGED buffer
                        ELSE WorkerGoto("fill", "eos") /\ buffer' = "free"
    /\ UNCHANGED <<committed, eos>>

\* Where the buffer may be after the worker's Release.
AfterRelease == {"free", "receiver"}

\* Deliver: Receive returns, having kept the sample or not, and the worker
\* releases its own reference.  Anything but S_OK ends the loop.
LoopDeliver ==
    /\ \E r \in ReceiveResults :
          WorkerGoto("deliver", IF r = "S_OK" THEN "loop" ELSE "request")
    /\ buffer' \in AfterRelease
    /\ UNCHANGED <<committed, eos>>

\* S_FALSE or an error from FillBuffer ends the loop.
AfterEos == "request"

\* DeliverEndOfStream, and NotifyEvent(EC_ERRORABORT) for an error.
LoopEos ==
    /\ WorkerGoto("eos", AfterEos) /\ eos' = TRUE
    /\ UNCHANGED <<committed, buffer>>

WorkerStep ==
    \/ FirstRequest \/ Dispatch \/ ThreadEnds
    \/ LoopCommand \/ LoopBuffer \/ LoopFill \/ LoopDeliver \/ LoopEos
    \/ W!InReply /\ UNCHANGED <<filterVars, dataVars>>

\* The downstream filter releases a sample it has kept.
ReceiverReleases ==
    /\ buffer = "receiver" /\ buffer' = "free"
    /\ UNCHANGED <<threadVars, filterVars, committed, eos>>

Next ==
    \/ \E a \in Apps : Enter(a) \/ AppStep(a)
                         \/ \E o \in {"Stop", "Pause", "Run"} : Operation(a, o)
    \/ WorkerStep \/ ReceiverReleases

Spec == Init /\ [][Next]_vars

\* Threads that can go on do: FillBuffer and the downstream Receive return.
\* Nothing is assumed of when a renderer gives a sample back.
FairSpec == Spec /\ WF_vars(WorkerStep) /\ \A a \in Apps : WF_vars(AppStep(a))
-----------------------------------------------------------------------------
AppPCs == {"idle", "enter", "commit", "create", "init", "inited", "paused",
           "decommit", "stop", "stopped", "exited", "close"}
WorkerPCs == {"none", "first", "firstTaken", "request", "dispatch", "destroy", "exited",
              "loop", "command", "buffer", "fill", "deliver", "eos", "reset", "complete"}

\* The values of the variables; whoever is past "enter" owns the state lock, and
\* the worker has the buffer exactly while it fills and delivers it.
TypeOK ==
    /\ m_hThread \in BOOLEAN /\ m_AccessLock \in Apps \cup {Nobody}
    /\ {m_dwParam, com} \subseteq Commands \cup {"unset"}
    /\ m_dwReturnVal \in Replies \cup {"unset"}
    /\ m_EventSend \in BOOLEAN /\ m_EventComplete \in BOOLEAN
    /\ cpc \in [Apps -> W!ClientPCs] /\ arg \in [Apps -> Commands \cup {"unset"}]
    /\ result \in [Apps -> Replies \cup {"none", "E_FAIL"}]
    /\ wpc \in WorkerPCs /\ wnext \in WorkerPCs
    /\ m_State \in {"Stopped", "Paused", "Running"}
    /\ pStateLock \in Apps \cup {Nobody}
    /\ op \in [Apps -> {"none", "Stop", "Pause", "Run"}] /\ apc \in [Apps -> AppPCs]
    /\ committed \in BOOLEAN /\ buffer \in {"free", "worker", "receiver"}
    /\ eos \in BOOLEAN
    /\ \A a \in Apps : apc[a] \notin {"idle", "enter"} <=> pStateLock = a
    /\ buffer = "worker" <=> wpc \in {"fill", "deliver"}

\* When no state change is in progress the worker thread exists exactly in a
\* filter that is not stopped, whatever failed on the way; so the pin is never
\* activated with a thread left over, which CSourceStream::Active asserts
\* (source.cpp:317).
ThreadMatchesState ==
    /\ pStateLock = Nobody => (m_hThread <=> m_State # "Stopped")
    /\ \A a \in Apps : apc[a] = "create" => ~m_hThread

\* Once Stop has returned the worker has ended and holds no buffer, so the
\* downstream filter is not called any more and the pin may be disconnected; and
\* nothing is delivered after the end of the stream, until the thread is created
\* again.
QuietWhenStopped ==
    /\ pStateLock = Nobody /\ m_State = "Stopped"
        => wpc \in {"none", "exited"} /\ buffer # "worker"
    /\ eos => wpc \notin {"fill", "deliver"}

\* Every command reaches the worker where it is expected: no state change gets
\* E_UNEXPECTED, E_NOTIMPL or E_FAIL for an answer.
CommandsExpected == \A a \in Apps : result[a] \in {"none", "NOERROR"}

\* A state change ends, although it waits for the worker, the worker may be
\* waiting for a buffer, and the renderer may keep the buffer for ever.
StateChangeEnds == \A a \in Apps : pStateLock = a ~> pStateLock # a

\* If the renderer does not keep a buffer for ever, a worker that is told to play
\* gets to deliver a sample or the end of the stream, unless somebody begins to
\* stop the filter first.
StreamMoves ==
    []<>(buffer # "receiver") =>
        (wpc = "dispatch" /\ com \in {"CMD_PAUSE", "CMD_RUN"})
            ~> (wpc \in {"deliver", "eos"} \/ \E a \in Apps : apc[a] = "decommit")
=============================================================================
