-------------------------- MODULE SourceStreamProofs --------------------------
(***************************************************************************)
(* Theorems about CDahuaSourceStream's two state machines.                 *)
(*                                                                         *)
(* Streaming (SourceStream), for every number of application threads and   *)
(* every result of FillBuffer and Receive: OnThreadCreate is assumed to    *)
(* succeed, since when it fails the thread ends and its handle remains.    *)
(*                                                                         *)
(* The connection (PinConnect), for every set of types, every receiver and *)
(* every sequence it may offer.                                            *)
(***************************************************************************)
EXTENDS SourceStream, PinConnect, TLAPS

-----------------------------------------------------------------------------
(* Streaming.                                                               *)

\* No request and no reply is in the events.
Quiet == ~m_EventSend /\ ~m_EventComplete

NoThread == ~m_hThread /\ wpc \in {"none", "exited"}

\* The call "cmd" of a, from its beginning to the use of its result: the worker is
\* in one of the labels "before" until it takes the request, then in "taken" or at
\* "before" again, replies and goes on at "next", and is in "after" from then on.
Exchange(a, cmd, before, taken, next, after) ==
    /\ m_hThread /\ arg[a] = cmd
    /\ \/ cpc[a] = "param" /\ Quiet /\ wpc \in before
       \/ cpc[a] = "send" /\ Quiet /\ wpc \in before /\ m_dwParam = cmd
       \/ /\ cpc[a] = "wait" /\ m_EventSend /\ ~m_EventComplete /\ m_dwParam = cmd
          /\ \/ wpc \in before
             \/ wpc \in taken /\ com = cmd
             \/ wpc = "reset" /\ wnext = next /\ m_dwReturnVal = "NOERROR"
       \/ /\ cpc[a] = "wait" /\ Quiet /\ wpc = "complete" /\ wnext = next
          /\ m_dwReturnVal = "NOERROR"
       \/ /\ cpc[a] = "wait" /\ ~m_EventSend /\ m_EventComplete /\ wpc \in after
          /\ m_dwReturnVal = "NOERROR"
       \/ cpc[a] = "return" /\ Quiet /\ wpc \in after /\ m_dwReturnVal = "NOERROR"
       \/ cpc[a] = "idle" /\ Quiet /\ wpc \in after /\ result[a] = "NOERROR"

\* The labels of a worker that has been told to play: it streams, or it waits for
\* a command after the end of the stream.
Play == {"request", "loop", "buffer", "fill", "deliver", "eos"}

\* Between two state changes.
Settled ==
    /\ Quiet
    /\ m_State = "Stopped" => NoThread
    /\ m_State # "Stopped" => m_hThread /\ wpc \in Play

\* Where the worker is while a changes the state.
Changing(a) ==
    /\ apc[a] \in {"commit", "create", "init", "inited", "paused"} =>
          m_State = "Stopped" /\ op[a] \in {"Pause", "Run"}
    /\ apc[a] \in {"commit", "create"} => Quiet /\ NoThread /\ cpc[a] = "idle"
    /\ apc[a] = "init" => Quiet /\ m_hThread /\ wpc = "first" /\ cpc[a] = "idle" /\ ~eos
    /\ apc[a] = "inited" => /\ Exchange(a, "CMD_INIT", {"first"}, {"firstTaken"}, "request", {"request"})
                            /\ ~eos
    /\ apc[a] = "paused" => /\ Exchange(a, "CMD_PAUSE", {"request"}, {"dispatch"}, "loop", Play)
                            /\ eos => cpc[a] \in {"wait", "return", "idle"} /\ ~m_EventSend
                                      /\ wpc # "complete"
    /\ apc[a] \in {"decommit", "stop"} => Quiet /\ m_hThread /\ wpc \in Play /\ cpc[a] = "idle"
    /\ apc[a] = "stopped" =>
          Exchange(a, "CMD_STOP", Play, {"dispatch", "command"}, "request", {"request"})
    /\ apc[a] = "exited" =>
          Exchange(a, "CMD_EXIT", {"request"}, {"dispatch"}, "destroy", {"destroy", "exited"})
    /\ apc[a] = "close" =>
          Quiet /\ ~m_hThread /\ wpc \in {"destroy", "exited"} /\ cpc[a] = "idle"

\* The state lock, the access lock and the results.
Owners ==
    /\ apc \in [Apps -> AppPCs] /\ cpc \in [Apps -> W!ClientPCs]
    /\ op \in [Apps -> {"none", "Stop", "Pause", "Run"}]
    /\ arg \in [Apps -> Commands \cup {"unset"}]
    /\ result \in [Apps -> {"none", "NOERROR"}]
    /\ m_State \in {"Stopped", "Paused", "Running"}
    /\ pStateLock \in Apps \cup {Nobody} /\ m_AccessLock \in Apps \cup {Nobody}
    /\ \A a \in Apps : /\ apc[a] \notin {"idle", "enter"} <=> pStateLock = a
                       /\ cpc[a] # "idle" <=> m_AccessLock = a
                       /\ pStateLock # a => cpc[a] = "idle"
                       /\ apc[a] # "idle" => op[a] # "none"

Protocol ==
    /\ pStateLock = Nobody => Settled
    /\ \A a \in Apps : pStateLock = a => Changing(a)

\* The buffer goes with the worker's label, and no buffer is filled after the end
\* of the stream.
Data ==
    /\ buffer = "worker" <=> wpc \in {"fill", "deliver"}
    /\ eos => wpc \notin {"first", "firstTaken", "loop", "command", "buffer", "fill", "deliver", "eos"}

Inv == Owners /\ Protocol /\ Data

NothingFailsInThread == "OnThreadCreate" \notin Faults

LEMMA NobodyIsNoApp == Nobody \notin Apps
  BY SourceStreamAssumption

LEMMA InitInv == Init => Inv
  BY NobodyIsNoApp
  DEF Init, W!Init, Inv, Owners, Protocol, Settled, Quiet, NoThread, Data, AppPCs, W!ClientPCs

\* The steps of an application thread.
LEMMA StepApp ==
    ASSUME Inv, NEW a \in Apps, \/ Enter(a) \/ AppStep(a)
                               \/ \E o \in {"Stop", "Pause", "Run"} : Operation(a, o)
    PROVE  Inv'
<1> USE NobodyIsNoApp
    DEF Inv, Owners, Protocol, Settled, Changing, Data, Exchange, Quiet, NoThread, Play, AppPCs,
        AppGoto, Finish, threadVars, filterVars, dataVars
<1>1. CASE \E o \in {"Stop", "Pause", "Run"} : Operation(a, o)
  BY <1>1 DEF Operation
<1>2. CASE Enter(a)
  BY <1>2 DEF Enter, MustInactivate, TargetState
<1>3. CASE ActiveCommit(a)
  BY <1>3 DEF ActiveCommit
<1>4. CASE ActiveCreate(a)
  BY <1>4 DEF ActiveCreate, W!Create, W!LockFree, W!clientVars, W!events, W!values
<1>5. CASE ActiveInit(a)
  BY <1>5 DEF ActiveInit, FirstCommand, Calls, W!CallWorker, W!LockFree, W!ClientPCs, W!events, W!values, W!workerVars, Commands
<1>6. CASE ActivePause(a)
  BY <1>6 DEF ActivePause, CallOver, Calls, W!CallWorker, W!LockFree, W!ClientPCs, W!events, W!values, W!workerVars, Commands
<1>7. CASE ActiveDone(a)
  BY <1>7 DEF ActiveDone, CallOver, TargetState
<1>8. CASE InactiveDecommit(a)
  BY <1>8 DEF InactiveDecommit, DecommitFirst
<1>9. CASE InactiveStop(a)
  BY <1>9 DEF InactiveStop, Calls, W!CallWorker, W!LockFree, W!ClientPCs, W!events, W!values, W!workerVars, Commands
<1>10. CASE InactiveExit(a)
  BY <1>10 DEF InactiveExit, CallOver, Calls, W!CallWorker, W!LockFree, W!ClientPCs, W!events, W!values, W!workerVars, Commands
<1>11. CASE InactiveClose(a)
  BY <1>11 DEF InactiveClose, CallOver
<1>12. CASE InactiveDone(a)
  BY <1>12 DEF InactiveDone, ThreadGone
<1>13. CASE InCall(a)
  BY <1>13 DEF InCall, W!InCall, W!Send, W!WaitComplete, W!ReturnReply, W!workerVars, W!events, W!ClientPCs
<1> QED
  BY <1>1, <1>2, <1>3, <1>4, <1>5, <1>6, <1>7, <1>8, <1>9, <1>10, <1>11, <1>12, <1>13 DEF AppStep

\* The steps of the worker, with a command in its mailbox or without one.
LEMMA StepWorker ==
    ASSUME Inv, NothingFailsInThread, WorkerStep \/ ReceiverReleases
    PROVE  Inv'
<1> USE NobodyIsNoApp
    DEF Inv, Owners, Protocol, Settled, Changing, Data, Exchange, Quiet, NoThread, Play,
        WorkerGoto, WorkerReplies, Takes, W!TakeRequest, W!Reply, W!events, W!values, W!clientVars,
        threadVars, filterVars, dataVars
<1>1. CASE FirstRequest
  BY <1>1 DEF FirstRequest, NothingFailsInThread
<1>2. CASE Dispatch
  BY <1>2 DEF Dispatch, PlayLabel
<1>3. CASE ThreadEnds
  BY <1>3 DEF ThreadEnds
<1>4. CASE LoopCommand
  BY <1>4 DEF LoopCommand
<1>5. CASE LoopBuffer
  BY <1>5 DEF LoopBuffer
<1>6. CASE LoopFill
  BY <1>6 DEF LoopFill
<1>7. CASE LoopDeliver
  BY <1>7 DEF LoopDeliver, AfterRelease
<1>8. CASE LoopEos
  BY <1>8 DEF LoopEos, AfterEos
<1>9. CASE W!InReply /\ UNCHANGED <<filterVars, dataVars>>
  <2>1. pStateLock \in Apps
    BY <1>9 DEF W!InReply, W!ResetThenComplete
  <2>2. Changing(pStateLock)
    BY <2>1
  <2>3. Changing(pStateLock)'
    <3>1. CASE wpc = "reset" /\ m_EventSend' = FALSE /\ wpc' = "complete" /\ UNCHANGED m_EventComplete
      BY <1>9, <2>1, <2>2, <3>1 DEF W!InReply
    <3>2. CASE wpc = "complete" /\ m_EventComplete' = TRUE /\ wpc' = wnext /\ UNCHANGED m_EventSend
      BY <1>9, <2>1, <2>2, <3>2 DEF W!InReply
    <3> QED
      BY <1>9, <3>1, <3>2 DEF W!InReply, W!ResetThenComplete
  <2>4. wpc = "complete" => wnext \in {"request", "destroy"} \/ (wnext = "loop" /\ ~eos)
    BY <2>1, <2>2 DEF AppPCs
  <2>5. Data'
    BY <1>9, <2>4 DEF W!InReply, W!ResetThenComplete
  <2> QED
    BY <1>9, <2>1, <2>3, <2>5 DEF W!InReply
<1>10. CASE ReceiverReleases
  BY <1>10 DEF ReceiverReleases
<1> QED
  BY <1>1, <1>2, <1>3, <1>4, <1>5, <1>6, <1>7, <1>8, <1>9, <1>10 DEF WorkerStep

LEMMA StepInv == Inv /\ NothingFailsInThread /\ [Next]_vars => Inv'
<1> SUFFICES ASSUME Inv, NothingFailsInThread, [Next]_vars PROVE Inv'
  OBVIOUS
<1>1. ASSUME NEW a \in Apps, \/ Enter(a) \/ AppStep(a)
                               \/ \E o \in {"Stop", "Pause", "Run"} : Operation(a, o)
      PROVE  Inv'
  BY <1>1, StepApp
<1>2. CASE WorkerStep \/ ReceiverReleases
  BY <1>2, StepWorker
<1>3. CASE UNCHANGED vars
  BY <1>3 DEF vars, threadVars, filterVars, dataVars, Inv, Owners, Protocol, Settled, Changing,
              Data, Exchange, Quiet, NoThread
<1> QED
  BY <1>1, <1>2, <1>3 DEF Next

\* The protocol between the state lock's owner and the worker is as Inv says in
\* every state: what the three theorems below rest on.
THEOREM Invariance ==
    ASSUME NothingFailsInThread
    PROVE  Spec => []Inv
<1>1. Inv /\ [Next]_vars => Inv'
  BY StepInv
<1> QED
  BY InitInv, <1>1, PTL DEF Spec

\* When no state change is in progress the thread exists exactly in a filter that
\* is not stopped, and a pin is never activated with a thread left over.
THEOREM ThreadGoesWithState ==
    ASSUME NothingFailsInThread
    PROVE  Spec => []ThreadMatchesState
<1>1. Inv => ThreadMatchesState
  BY NobodyIsNoApp DEF Inv, Owners, Protocol, Settled, Changing, NoThread, ThreadMatchesState
<1>2. Spec => []Inv
  BY Invariance
<1> QED
  BY <1>1, <1>2, PTL

\* When Stop has returned the worker has ended and has no buffer, and it fills none
\* after the end of the stream.
THEOREM QuietAfterStop ==
    ASSUME NothingFailsInThread
    PROVE  Spec => []QuietWhenStopped
<1>1. Inv => QuietWhenStopped
  BY DEF Inv, Protocol, Settled, NoThread, Data, QuietWhenStopped
<1>2. Spec => []Inv
  BY Invariance
<1> QED
  BY <1>1, <1>2, PTL

\* No state change gets an error for an answer.
THEOREM EveryCommandIsExpected ==
    ASSUME NothingFailsInThread
    PROVE  Spec => []CommandsExpected
<1>1. Inv => CommandsExpected
  BY DEF Inv, Owners, CommandsExpected
<1>2. Spec => []Inv
  BY Invariance
<1> QED
  BY <1>1, <1>2, PTL
-----------------------------------------------------------------------------
(* The connection of the pin.                                               *)

\* What an attempt to connect knows at each of its steps: it tries a type, the
\* receiver has got it exactly between ReceiveConnection and CompleteConnect, and
\* when calls do not overlap m_mt is the type from SetMediaType on.
Attempt ==
    /\ pc \in {"check", "set", "receive", "complete"} => type \in Types
    /\ pc # "idle" => (rType # NoType <=> pc = "complete")
    /\ pc = "complete" => rType = type
    /\ serial => /\ pc = "set" => IsCurrentType(type)
                 /\ pc \in {"receive", "complete"} => m_mt = type

PinInv == PinTypeOK /\ NoHalfConnection /\ BuffersFit /\ Attempt

\* The pin's own types are types, and none is NoType.
LEMMA OwnTypes == Own \in Seq(Types) /\ NoType \notin Types
  BY PinConnectAssumption DEF Own, Types, Supported, NoType

LEMMA InitPin == PinInit => PinInv
<1>1. <<>> \in Seq(Types)
  OBVIOUS
<1> QED
  BY <1>1, OwnTypes, PinConnectAssumption
  DEF PinInit, PinInv, PinTypeOK, NoHalfConnection, BuffersFit, Attempt, IsCurrentType

LEMMA NextPin == PinInv /\ [PinNext]_pinVars => PinInv'
<1> SUFFICES ASSUME PinInv, [PinNext]_pinVars PROVE PinInv'
  OBVIOUS
<1> USE OwnTypes, PinConnectAssumption
        DEF PinInv, PinTypeOK, NoHalfConnection, BuffersFit, Attempt, IsCurrentType
<1>1. ASSUME NEW t \in Types \cup {NoType}, Connect(t) PROVE PinInv'
  <2>1. offers \in Seq(Types) /\ (t # NoType => <<t>> \in Seq(Types))
    OBVIOUS
  <2> QED
    BY <1>1, <2>1 DEF Connect, LockFree, receiverVars
<1>2. CASE NextType
  <2>1. todo # <<>> => Head(todo) \in Types /\ Tail(todo) \in Seq(Types)
    OBVIOUS
  <2> QED
    BY <1>2, <2>1 DEF NextType, receiverVars
<1>3. CASE ConnectFails
  BY <1>3 DEF ConnectFails, receiverVars
<1>4. CASE Check
  <2>1. PICK ok \in BOOLEAN :
            /\ m_Connected' = ok /\ pc' = IF ok THEN "set" ELSE "next"
            /\ serial => (ok <=> CheckMediaType(type))
    BY <1>4 DEF Check, CheckReturns, CheckMediaType
  <2>2. /\ pc = "check"
        /\ UNCHANGED <<serial, fresh, m_mt, m_pAllocator, active, online, phase, todo,
                       type, reconnect, accepts, offers, rType>>
    BY <1>4 DEF Check, receiverVars
  <2>3. CASE ok
    <3>1. m_Connected' = TRUE /\ pc' = "set" /\ (serial => IsCurrentType(type))
      BY <2>1, <2>3 DEF CheckMediaType
    <3> QED
      BY <2>2, <3>1
  <2>4. CASE ~ok
    <3>1. m_Connected' = FALSE /\ pc' = "next"
      BY <2>1, <2>4
    <3> QED
      BY <2>2, <3>1
  <2> QED
    BY <2>3, <2>4
<1>5. CASE SetType
  BY <1>5 DEF SetType, receiverVars
<1>6. CASE Receive
  BY <1>6 DEF Receive, UndoConnected
<1>7. CASE Complete
  BY <1>7 DEF Complete, BufferTypes, BufferType, DisconnectReceiver, UndoConnected
<1>8. CASE Disconnect
  BY <1>8 DEF Disconnect, LockFree, BothDisconnected, connectVars
<1>9. CASE GraphReconnects
  BY <1>9 DEF GraphReconnects, LockFree, BothDisconnected
<1>10. ASSUME NEW t \in Types, SetFormat(t) PROVE PinInv'
  BY <1>10 DEF SetFormat, LockFree, connectVars, receiverVars
<1>11. CASE SetFormatNull
  BY <1>11 DEF SetFormatNull, LockFree, connectVars, receiverVars
<1>12. ASSUME NEW i \in 0..2, GetStreamCaps(i) PROVE PinInv'
  <2>1. Own[i + 1] \in Types
    BY DEF Own, Types, Supported
  <2> QED
    BY <1>12, <2>1 DEF GetStreamCaps, LockFree, connectVars, receiverVars
<1>13. CASE SetState
  BY <1>13 DEF SetState, LockFree, connectVars, receiverVars
<1>14. CASE DeviceConnects
  BY <1>14 DEF DeviceConnects, connectVars, receiverVars
<1>15. CASE UNCHANGED pinVars
  BY <1>15 DEF pinVars, connectVars, receiverVars
<1> QED
  BY <1>1, <1>2, <1>3, <1>4, <1>5, <1>6, <1>7, <1>8, <1>9, <1>10, <1>11, <1>12,
     <1>13, <1>14, <1>15 DEF PinNext, Connecting

LEMMA PinInvHolds == PinSpec => []PinInv
  BY InitPin, NextPin, PTL DEF PinSpec

\* The variables keep their types, and during Connect the pin looks connected
\* exactly from the check of a type to the end of its attempt.
THEOREM PinTypeCorrect == PinSpec => []PinTypeOK
  BY PinInvHolds, PTL DEF PinInv

\* Whichever attempt of Connect fails at whichever step, and whatever SetFormat and
\* GetStreamCaps do meanwhile, Connect ends with both pins connected and an
\* allocator, or with neither.
THEOREM ConnectionIsWhole == PinSpec => []NoHalfConnection
  BY PinInvHolds, PTL DEF PinInv

\* While calls do not overlap, the buffers of a connection are sized for the type
\* the receiver has been told, whatever becomes of m_mt afterwards.
THEOREM BuffersFitTheReceiver == PinSpec => []BuffersFit
  BY PinInvHolds, PTL DEF PinInv

\* A type that has been set stays, whatever attempts Connect makes, whichever the graph
\* makes again and whatever type SetFormat is asked for: CheckMediaType accepts no other.
\* Only GetStreamCaps replaces it.
THEOREM ConnectKeepsTheType == PinSpec => TypeSticks
<1> DEFINE Chooses == Connecting \/ GraphReconnects \/ \E t \in Types : SetFormat(t)
<1>1. PinInv /\ [PinNext]_pinVars => [serial /\ m_mt # NoType /\ Chooses => m_mt' = m_mt]_pinVars
  <2> SUFFICES ASSUME PinInv, serial, m_mt # NoType, Chooses
               PROVE  m_mt' = m_mt
    OBVIOUS
  <2>1. SetType => m_mt' = m_mt
    BY DEF SetType, PinInv, Attempt, IsCurrentType
  <2>2. ASSUME NEW t \in Types, SetFormat(t) PROVE m_mt' = m_mt
    BY <2>2 DEF SetFormat, CheckReturns, CheckMediaType, IsCurrentType
  <2>3. Connecting \/ GraphReconnects => m_mt' = m_mt \/ SetType
    BY DEF Connecting, NextType, ConnectFails, Check, Receive, Complete, GraphReconnects
  <2> QED
    BY <2>1, <2>2, <2>3
<1> QED
  BY <1>1, PinInvHolds, PTL DEF PinSpec, TypeSticks
=============================================================================
