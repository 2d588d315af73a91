----------------------------- MODULE DahuaDevice -----------------------------
(***************************************************************************)
(* CDahuaDevice (Filter/DahuaDevice.cpp): the connection to the DVR and    *)
(* the last video frame, as the pin uses them: GetMediaType connects and   *)
(* asks for the format on a thread of the application, FillBuffer connects *)
(* once and copies the frame on the worker thread, and the SDK delivers    *)
(* frames on a thread of its own.  Only the frame has a lock; every other  *)
(* access to a member that another thread can come between is a step.      *)
(*                                                                         *)
(* The SDK (vendored, without source) is modelled by its state as the      *)
(* device class sees it: open logins, open play handles, callbacks.        *)
(***************************************************************************)
EXTENDS Integers, FiniteSets

CONSTANTS
    Threads, Worker,    \* all callers; the one that runs FillBuffer
    Modes,              \* {TRUE}: calls do not overlap, {FALSE}: they may
    Faults,             \* SDK and registry calls that may fail
    MaxFaults, MaxFaultsOverlapping    \* bounds on the failures, by mode

FaultKinds == {"Registry", "Init", "Login", "Config", "Listen", "RealPlay",
               "Effect", "FrameSize", "Callback"}

\* Those StartPlay makes, when the device is logged in.
PlayCalls == {"RealPlay", "Effect", "FrameSize", "Callback"}

ASSUME DahuaDeviceAssumption ==
    /\ Worker \in Threads /\ {"sdk", "nobody"} \cap Threads = {} /\ Modes \subseteq BOOLEAN
    /\ Faults \subseteq FaultKinds
    /\ MaxFaults \in Nat /\ MaxFaultsOverlapping \in 0..MaxFaults

VARIABLES
    serial,             \* no call starts while another is in progress
    m_bNetSDKInitFlag,
    LoginID,            \* m_DeviceNode.LoginID, 0: none
    m_ChannelsInfo,     \* "empty", "zeroed" (resized, not read yet), "loaded"
    iHandle, nFramesPerSecond, nSize,   \* m_ChannelNode; nSize: width and height
    m_csVideoFrame,     \* owner of the frame's lock
    m_aVideoFrameData,  \* "none" (size 0), "black", "partial", "frame"
    m_bFirstTime,       \* of the pin
    pc, op, local,      \* of each thread: label, operation, local variables
    logins, plays, callbacks,   \* SDK: open logins, open plays, callbacks set
    nHandles, faults,   \* handles issued; failures so far, and one of StartPlay's
    started             \* history: logins for which StartPlay was called

sdkVars    == <<logins, plays, callbacks, nHandles>>
nodeVars   == <<m_bNetSDKInitFlag, LoginID, m_ChannelsInfo>>
channelVars == <<iHandle, nFramesPerSecond, nSize>>
frameVars  == <<m_csVideoFrame, m_aVideoFrameData>>
vars == <<serial, nodeVars, channelVars, frameVars, m_bFirstTime, pc, op, local, sdkVars,
          faults, started>>

Nobody == "nobody"
NoLocal == [handle |-> 0, rate |-> 0, size |-> 0, copy |-> "none"]

Init ==
    /\ serial \in Modes
    /\ m_bNetSDKInitFlag = FALSE /\ LoginID = 0 /\ m_ChannelsInfo = "empty"
    /\ iHandle = 0 /\ nFramesPerSecond = 0 /\ nSize = 0
    /\ m_csVideoFrame = Nobody /\ m_aVideoFrameData = "none" /\ m_bFirstTime = TRUE
    /\ pc = [t \in Threads \cup {"sdk"} |-> "idle"]
    /\ op = [t \in Threads |-> "none"] /\ local = [t \in Threads |-> NoLocal]
    /\ logins = {} /\ plays = {} /\ callbacks = {} /\ nHandles = 0
    /\ faults = [count |-> 0, inPlay |-> FALSE] /\ started = {}

Goto(t, from, to) == pc[t] = from /\ pc' = [pc EXCEPT ![t] = to]

\* A call of kind k succeeds or, if it may, fails.
Outcome(k, ok) ==
    \/ ok /\ UNCHANGED faults
    \/ /\ ~ok /\ k \in Faults
       /\ faults.count < IF serial THEN MaxFaults ELSE MaxFaultsOverlapping
       /\ faults' = [count |-> faults.count + 1, inPlay |-> faults.inPlay \/ k \in PlayCalls]

\* The same for a call on the login or play handle h: on handle 0 it fails.
OutcomeOn(h, k, ok) == IF h = 0 THEN ~ok /\ UNCHANGED faults ELSE Outcome(k, ok)
-----------------------------------------------------------------------------
\* The operations of the pin.  The first FillBuffer connects, the others only
\* copy the frame.
CallGetMediaType(t) ==
    /\ serial => \A u \in Threads : pc[u] = "idle"
    /\ t # Worker /\ Goto(t, "idle", "connect")
    /\ op' = [op EXCEPT ![t] = "GetMediaType"]
    /\ UNCHANGED <<nodeVars, channelVars, frameVars, m_bFirstTime, local, sdkVars,
                   faults, started>>

CallFillBuffer ==
    /\ serial => \A u \in Threads : pc[u] = "idle"
    /\ Goto(Worker, "idle", IF m_bFirstTime THEN "connect" ELSE "getFrame")
    /\ op' = [op EXCEPT ![Worker] = "FillBuffer"] /\ m_bFirstTime' = FALSE
    /\ UNCHANGED <<nodeVars, channelVars, frameVars, local, sdkVars, faults, started>>

\* The local variables end with their function.
Return(t) == local' = [local EXCEPT ![t] = [NoLocal EXCEPT !.copy = local[t].copy]]

\* ConnectDevice is over; GetMediaType gives up when it failed.
Connected(t, from, result) ==
    /\ Return(t)
    /\ Goto(t, from, IF op[t] = "FillBuffer" THEN "getFrame"
                     ELSE IF result THEN "getInfo" ELSE "idle")

\* Mutant: a loaded SDK is taken for a connected device.
IsSDKLoaded == m_bNetSDKInitFlag

\* Mutant: the login is not looked at.
NeverInitialized == FALSE

\* IsInitialized: there is a login.
IsInitialized == LoginID > 0

\* ConnectDevice returns at once if there is a login, and otherwise reads the
\* connection parameters from the registry.
ConnectDevice(t) ==
    /\ IF IsInitialized
         THEN Connected(t, "connect", TRUE) /\ UNCHANGED faults
         ELSE \E ok \in BOOLEAN :
                 /\ Outcome("Registry", ok)
                 /\ IF ok THEN Goto(t, "connect", "init") /\ UNCHANGED local
                          ELSE Connected(t, "connect", FALSE)
    /\ UNCHANGED <<nodeVars, channelVars, frameVars, m_bFirstTime, op, sdkVars, started>>

\* InitializeSDK, once it has succeeded, does nothing more.
InitializeSDK(t) ==
    /\ \E ok \in BOOLEAN :
          /\ IF m_bNetSDKInitFlag THEN ok /\ UNCHANGED faults ELSE Outcome("Init", ok)
          /\ m_bNetSDKInitFlag' = ok
          /\ IF ok THEN Goto(t, "init", "login") /\ UNCHANGED local
                   ELSE Connected(t, "init", FALSE)
    /\ UNCHANGED <<LoginID, m_ChannelsInfo, channelVars, frameVars, m_bFirstTime, op,
                   sdkVars, started>>

\* m_DeviceNode is cleared; then CLIENT_Login and its result into LoginID.
Login(t) ==
    \/ /\ Goto(t, "login", "loginCall") /\ LoginID' = 0
       /\ UNCHANGED <<logins, nHandles, faults>>
    \/ /\ Goto(t, "loginCall", "loginTest")
       /\ \E ok \in BOOLEAN :
             /\ Outcome("Login", ok)
             /\ IF ok THEN /\ nHandles' = nHandles + 1 /\ LoginID' = nHandles'
                           /\ logins' = logins \cup {nHandles'}
                      ELSE LoginID' = 0 /\ UNCHANGED <<logins, nHandles>>

LoginStep(t) ==
    /\ Login(t)
    /\ UNCHANGED <<m_bNetSDKInitFlag, m_ChannelsInfo, channelVars, frameVars,
                   m_bFirstTime, op, local, plays, callbacks, started>>

\* The member is tested, not the result of the call; without a login the node is
\* cleared and the connection has failed.
LoginTest(t) ==
    /\ IF LoginID > 0
         THEN Goto(t, "loginTest", "channels") /\ UNCHANGED <<LoginID, local>>
         ELSE LoginID' = 0 /\ Connected(t, "loginTest", FALSE)
    /\ UNCHANGED <<m_bNetSDKInitFlag, m_ChannelsInfo, channelVars, frameVars,
                   m_bFirstTime, op, sdkVars, faults, started>>

\* GetChannelsInfo: fails without a login or for a third generation device, has
\* nothing to do when there are channels; otherwise the vector is resized and
\* zeroed, CLIENT_GetDevConfig fills it, and a failure empties it.  The login
\* remains in every case.
GetChannelsInfo(t) ==
    /\ \/ /\ LoginID # 0 /\ m_ChannelsInfo # "empty" /\ Goto(t, "channels", "listen")
          /\ UNCHANGED <<m_ChannelsInfo, local, faults>>
       \/ /\ LoginID # 0 => m_ChannelsInfo = "empty"
          /\ OutcomeOn(LoginID, "Config", FALSE)
          /\ Connected(t, "channels", FALSE) /\ UNCHANGED m_ChannelsInfo
       \/ /\ LoginID # 0 /\ m_ChannelsInfo = "empty" /\ Goto(t, "channels", "config")
          /\ m_ChannelsInfo' = "zeroed" /\ UNCHANGED <<local, faults>>
       \/ /\ OutcomeOn(LoginID, "Config", TRUE) /\ Goto(t, "config", "listen")
          /\ m_ChannelsInfo' = "loaded" /\ UNCHANGED local
       \/ /\ OutcomeOn(LoginID, "Config", FALSE) /\ Connected(t, "config", FALSE)
          /\ m_ChannelsInfo' = "empty"
    /\ UNCHANGED <<m_bNetSDKInitFlag, LoginID, channelVars, frameVars, m_bFirstTime, op,
                   sdkVars, started>>

\* CLIENT_StartListenEx ends InitializeDevices; the login remains on failure.
StartListen(t) ==
    /\ \E ok \in BOOLEAN :
          /\ OutcomeOn(LoginID, "Listen", ok)
          /\ IF ok THEN Goto(t, "listen", "play") /\ UNCHANGED local
                   ELSE Connected(t, "listen", FALSE)
    /\ UNCHANGED <<nodeVars, channelVars, frameVars, m_bFirstTime, op, sdkVars, started>>
-----------------------------------------------------------------------------
\* StartPlay.  ConnectDevice ignores its result: whatever fails here, the device
\* counts as connected.
RealPlay(t) ==
    /\ \E ok \in BOOLEAN :
          /\ OutcomeOn(LoginID, "RealPlay", ok)
          /\ IF ok THEN /\ nHandles' = nHandles + 1 /\ plays' = plays \cup {nHandles'}
                        /\ local' = [local EXCEPT ![t].handle = nHandles']
                        /\ Goto(t, "play", "effect")
                   ELSE UNCHANGED <<nHandles, plays>> /\ Connected(t, "play", TRUE)
    /\ started' = started \cup {LoginID}
    /\ UNCHANGED <<nodeVars, channelVars, frameVars, m_bFirstTime, op, logins,
                   callbacks>>

\* CLIENT_ClientGetVideoEffect; on failure the play handle is forgotten.
GetVideoEffect(t) ==
    /\ \E ok \in BOOLEAN :
          /\ Outcome("Effect", ok)
          /\ IF ok THEN Goto(t, "effect", "options") /\ UNCHANGED local
                   ELSE Connected(t, "effect", TRUE)
    /\ UNCHANGED <<nodeVars, channelVars, frameVars, m_bFirstTime, op, sdkVars, started>>

\* The options are read from the channels.  The frame rate is whatever the DVR
\* reported, 0 included: nobody checks it.  Zeroed channels give rate 0; the index,
\* the channel number of the registry less one, is not checked either, and what an
\* index out of range reads may be anything.
ReadOptions(t) ==
    /\ Goto(t, "options", "publish")
    /\ \E rate \in 0..1 : local' = [local EXCEPT ![t].rate = rate]
    /\ UNCHANGED <<nodeVars, channelVars, frameVars, m_bFirstTime, op, sdkVars, faults,
                   started>>

\* The channel is published member by member, the handle first.
PublishHandle(t) ==
    /\ Goto(t, "publish", "rate") /\ iHandle' = local[t].handle
    /\ UNCHANGED <<nodeVars, nFramesPerSecond, nSize, frameVars, m_bFirstTime, op, local,
                   sdkVars, faults, started>>

PublishRate(t) ==
    /\ Goto(t, "rate", "frameSize") /\ nFramesPerSecond' = local[t].rate
    /\ UNCHANGED <<nodeVars, iHandle, nSize, frameVars, m_bFirstTime, op, local, sdkVars,
                   faults, started>>

\* GetFrameSize fails for a code it does not know, and leaves the size alone.
PublishSize(t) ==
    /\ \E ok \in BOOLEAN :
          /\ Outcome("FrameSize", ok)
          /\ nSize' = IF ok THEN 1 ELSE nSize
          /\ IF ok THEN Goto(t, "frameSize", "lockBuffer") /\ UNCHANGED local
                   ELSE Connected(t, "frameSize", TRUE)
    /\ UNCHANGED <<nodeVars, iHandle, nFramesPerSecond, frameVars, m_bFirstTime, op,
                   sdkVars, started>>

\* Mutant: the lock is taken from whoever holds it.
NoLock(t) == m_csVideoFrame' = t

Enter(t) == m_csVideoFrame = Nobody /\ m_csVideoFrame' = t

\* The lock of the frame is taken, by StartPlay and by GetCurrentChannelFrame.
LockFrame(t) ==
    /\ Goto(t, "lockBuffer", "resize") \/ Goto(t, "lockCopy", "copy")
    /\ Enter(t)
    /\ UNCHANGED <<nodeVars, channelVars, m_aVideoFrameData, m_bFirstTime, op, local,
                   sdkVars, faults, started>>

\* A resized and cleared buffer.
Resized == "black"

\* The frame's buffer gets its size and is black; the lock is left.
PrepareBuffer(t) ==
    /\ Goto(t, "resize", "setCallback")
    /\ m_aVideoFrameData' = Resized /\ m_csVideoFrame' = Nobody
    /\ UNCHANGED <<nodeVars, channelVars, m_bFirstTime, op, local, sdkVars, faults,
                   started>>

SetRealDataCallBack(t) ==
    /\ Connected(t, "setCallback", TRUE)
    /\ \E ok \in BOOLEAN :
          /\ Outcome("Callback", ok)
          /\ callbacks' = IF ok THEN callbacks \cup {local[t].handle} ELSE callbacks
    /\ UNCHANGED <<nodeVars, channelVars, frameVars, m_bFirstTime, op, logins, plays,
                   nHandles, started>>
-----------------------------------------------------------------------------
\* GetCurrentChannelInfo and GetCurrentChannelFrame do nothing without a handle.
IsPlaying == iHandle > 0

\* GetCurrentChannelInfo: the test, and then the copy of the members.
GetCurrentChannelInfo(t) ==
    /\ \/ Goto(t, "getInfo", IF IsPlaying THEN "copyInfo" ELSE "idle") /\ UNCHANGED local
       \/ /\ Goto(t, "copyInfo", "format")
          /\ local' = [local EXCEPT ![t].rate = nFramesPerSecond, ![t].size = nSize]
    /\ UNCHANGED <<nodeVars, channelVars, frameVars, m_bFirstTime, op, sdkVars, faults,
                   started>>

\* The rest of GetMediaType computes the format from the copy: the time of a
\* frame is 10000000 divided by the rate.
ComputeFormat(t) ==
    /\ local[t].rate > 0 /\ Goto(t, "format", "idle") /\ Return(t)
    /\ UNCHANGED <<nodeVars, channelVars, frameVars, m_bFirstTime, op, sdkVars, faults,
                   started>>

\* Divided by a rate of 0 it raises an exception that nobody in the filter handles:
\* the call never returns.
DivideByZero(t) == pc[t] = "format" /\ local[t].rate = 0 /\ UNCHANGED vars

\* GetCurrentChannelFrame copies the frame under the lock (LockFrame takes it);
\* this ends FillBuffer.
GetCurrentChannelFrame ==
    /\ \/ /\ Goto(Worker, "getFrame", IF IsPlaying THEN "lockCopy" ELSE "idle")
          /\ UNCHANGED <<local, m_csVideoFrame>>
       \/ /\ Goto(Worker, "copy", "idle") /\ m_csVideoFrame' = Nobody
          /\ local' = [local EXCEPT ![Worker].copy = m_aVideoFrameData]
    /\ UNCHANGED <<nodeVars, channelVars, m_aVideoFrameData, m_bFirstTime, op, sdkVars,
                   faults, started>>

\* RealDataCallBackEx and UpdateVideoFrame, on a thread of the SDK: the buffer is
\* cleared and the converted frame is written into it, all under the lock.  (Data
\* of a wrong length is dropped, which changes nothing.)
UpdateVideoFrame ==
    /\ \/ /\ callbacks # {} /\ Goto("sdk", "idle", "clear")
          /\ Enter("sdk") /\ UNCHANGED m_aVideoFrameData
       \/ /\ Goto("sdk", "clear", "convert")
          /\ m_aVideoFrameData' = "black" /\ UNCHANGED m_csVideoFrame
       \/ /\ Goto("sdk", "convert", "leave")
          /\ m_aVideoFrameData' = "partial" /\ UNCHANGED m_csVideoFrame
       \/ /\ Goto("sdk", "leave", "idle")
          /\ m_aVideoFrameData' = "frame" /\ m_csVideoFrame' = Nobody
    /\ UNCHANGED <<nodeVars, channelVars, m_bFirstTime, op, local, sdkVars, faults,
                   started>>
-----------------------------------------------------------------------------
Connect(t) ==
    \/ ConnectDevice(t) \/ InitializeSDK(t) \/ LoginStep(t) \/ LoginTest(t)
    \/ GetChannelsInfo(t) \/ StartListen(t)

StartPlay(t) ==
    \/ RealPlay(t) \/ GetVideoEffect(t) \/ ReadOptions(t) \/ PublishHandle(t)
    \/ PublishRate(t) \/ PublishSize(t) \/ LockFrame(t) \/ PrepareBuffer(t)
    \/ SetRealDataCallBack(t)

\* The steps of a call that is in progress.
InCall(t) ==
    Connect(t) \/ StartPlay(t) \/ GetCurrentChannelInfo(t) \/ ComputeFormat(t)

Next ==
    /\ \/ \E t \in Threads : CallGetMediaType(t) \/ InCall(t) \/ DivideByZero(t)
       \/ CallFillBuffer \/ GetCurrentChannelFrame \/ UpdateVideoFrame
    /\ UNCHANGED serial

Spec == Init /\ [][Next]_vars

\* A call in progress goes on, on whichever thread; nothing makes an application
\* call, and nothing makes the SDK deliver a frame it has not begun to deliver.
FairSpec ==
    /\ Spec
    /\ \A t \in Threads : WF_vars(InCall(t) /\ UNCHANGED serial)
    /\ WF_vars(GetCurrentChannelFrame /\ UNCHANGED serial)
    /\ WF_vars(UpdateVideoFrame /\ pc["sdk"] # "idle" /\ UNCHANGED serial)
-----------------------------------------------------------------------------
Labels == {"idle", "connect", "init", "login", "loginCall", "loginTest", "channels",
           "config", "listen", "play", "effect", "options", "publish", "rate",
           "frameSize", "lockBuffer", "resize", "setCallback", "getInfo", "copyInfo",
           "format", "getFrame", "lockCopy", "copy"}
Contents == {"none", "black", "partial", "frame"}

\* Types of the members; the frame is locked exactly by the thread inside a
\* locked section, and it is unfinished only inside UpdateVideoFrame.
TypeOK ==
    /\ serial \in Modes /\ m_bNetSDKInitFlag \in BOOLEAN /\ m_bFirstTime \in BOOLEAN
    /\ LoginID \in {0} \cup logins /\ iHandle \in {0} \cup plays
    /\ callbacks \subseteq plays
    /\ nFramesPerSecond \in 0..1 /\ nSize \in 0..1 /\ faults \in [count : 0..MaxFaults, inPlay : BOOLEAN]
    /\ m_ChannelsInfo \in {"empty", "zeroed", "loaded"}
    /\ m_aVideoFrameData \in Contents
    /\ m_csVideoFrame \in Threads \cup {"sdk", Nobody}
    /\ \A t \in Threads :
          /\ pc[t] \in Labels /\ local[t].copy \in Contents
          /\ pc[t] \in {"resize", "copy"} <=> m_csVideoFrame = t
    /\ pc["sdk"] \in {"clear", "convert", "leave"} <=> m_csVideoFrame = "sdk"
    /\ m_aVideoFrameData = "partial" => pc["sdk"] = "leave"

\* "Try to connect to device if not connected" (SourceStream.cpp:25): the SDK has
\* no login open but the one the device knows, so nothing is left behind when the
\* device logs out of it, and at most one channel plays.
OneSession == logins \subseteq {LoginID} /\ Cardinality(plays) <= 1

\* The same as far as the code keeps it: while calls do not overlap, through every
\* failure and retry.
OneSessionSerially == serial => OneSession

\* GetMediaType never divides by a rate of zero.  The code does not keep this, calls
\* overlapping or not: nobody checks the rate that the DVR reports.
RateIsNotZero == \A t \in Threads : pc[t] = "format" => local[t].rate > 0

\* Once the SDK may deliver frames there is a buffer to write them to, and no step
\* of any thread takes it away; UpdateVideoFrame computes an offset into it
\* without a look.
CallbackHasBuffer == callbacks # {} => m_aVideoFrameData # "none"

\* FillBuffer never copies a frame that is being written.
NoTornFrame == local[Worker].copy # "partial"

\* When ConnectDevice has told its caller that the device is connected, StartPlay
\* has been called for the login: nobody calls it later, so a device that only
\* logged in would never show a picture.
StartedWhenConnected ==
    serial => \A t \in Threads :
        pc[t] \in {"getInfo", "copyInfo", "format"} => LoginID \in started

\* The two together: while calls do not overlap the device is connected once, and
\* as a whole.
ConnectedOnce == OneSessionSerially /\ StartedWhenConnected

\* The frame buffer is there when the SDK writes to it, and whole when FillBuffer
\* copies it.
FrameIsWhole == CallbackHasBuffer /\ NoTornFrame

\* An application that asks for the format again and again gets the picture in the
\* end: the channel plays for good and the SDK delivers its frames, although
\* registry, SDK and network may fail before (up to MaxFaults times).  Except when
\* it is a call of StartPlay that failed: ConnectDevice ignores the result, the
\* login stays, and nobody tries again.
RetrySucceeds ==
    (serial /\ \A t \in Threads \ {Worker} : []<>(pc[t] = "connect"))
        => \/ <>[](IsPlaying /\ iHandle \in callbacks)
           \/ <>faults.inPlay
==============================================================================
