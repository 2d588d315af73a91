-------------------------- MODULE DahuaDeviceProofs ---------------------------
(***************************************************************************)
(* Theorems about DahuaDevice, for every number of threads and failures.   *)
(***************************************************************************)
EXTENDS DahuaDevice, FiniteSetTheorems, TLAPS

Locals == [handle : Nat, rate : 0 .. 1, size : 0 .. 1, copy : Contents]
SdkLabels == {"idle", "clear", "convert", "leave"}

PcType == pc \in [Threads \cup {"sdk"} -> Labels \cup SdkLabels]
LocalType == local \in [Threads -> Locals]

\* A thread goes from one of the labels "from" to one of "to".
Flow(t, from, to) == pc[t] \in from /\ \E l \in to : pc' = [pc EXCEPT ![t] = l]

\* The copy of the frame keeps its value, whatever becomes of the other variables.
LocalsKept == LocalType' /\ \A u \in Threads : local'[u].copy = local[u].copy

\* Where a thread goes when ConnectDevice returns.
After == {"getFrame", "idle", "getInfo"}
AfterFailure == {"getFrame", "idle"}

LEMMA Returns == ASSUME LocalType, NEW t \in Threads, Return(t) PROVE LocalsKept
<1>1. [NoLocal EXCEPT !.copy = local[t].copy] \in Locals
  BY DEF LocalType, Locals, NoLocal
<1>2. local' = [local EXCEPT ![t] = [NoLocal EXCEPT !.copy = local[t].copy]]
  BY DEF Return
<1>3. LocalType'
  BY <1>1, <1>2 DEF LocalType
<1> QED
  BY <1>2, <1>3 DEF LocalType, LocalsKept, NoLocal

LEMMA Succeeds ==
    ASSUME LocalType, NEW t \in Threads, NEW from, Connected(t, from, TRUE)
    PROVE  Flow(t, {from}, After) /\ LocalsKept
  BY Returns DEF Connected, Goto, Flow, After

LEMMA Fails ==
    ASSUME LocalType, NEW t \in Threads, NEW from, Connected(t, from, FALSE)
    PROVE  Flow(t, {from}, AfterFailure) /\ LocalsKept
  BY Returns DEF Connected, Goto, Flow, AfterFailure

LEMMA Kept == LocalType /\ UNCHANGED local => LocalsKept
  BY DEF LocalType, LocalsKept

LEMMA GotoFlows == ASSUME NEW t, NEW from, NEW to, Goto(t, from, to) PROVE Flow(t, {from}, {to})
  BY DEF Goto, Flow

LEMMA CallGetMediaTypeFlow ==
    ASSUME LocalType, NEW t \in Threads, CallGetMediaType(t)
    PROVE  Flow(t, {"idle"}, {"connect"}) /\ LocalsKept
  BY Kept, GotoFlows DEF CallGetMediaType

LEMMA ConnectDeviceFlow ==
    ASSUME LocalType, NEW t \in Threads, ConnectDevice(t)
    PROVE  /\ LocalsKept
           /\ \/ IsInitialized /\ Flow(t, {"connect"}, After)
              \/ ~IsInitialized /\ Flow(t, {"connect"}, {"init"})
              \/ ~IsInitialized /\ Flow(t, {"connect"}, AfterFailure)
<1>1. \/ IsInitialized /\ Connected(t, "connect", TRUE)
      \/ ~IsInitialized /\ Goto(t, "connect", "init") /\ UNCHANGED local
      \/ ~IsInitialized /\ Connected(t, "connect", FALSE)
  <2>1. CASE IsInitialized
    BY <2>1, Zenon DEF ConnectDevice
  <2>2. CASE ~(IsInitialized)
    BY <2>2, Zenon DEF ConnectDevice
  <2> QED
    BY <2>1, <2>2
<1> QED
  BY <1>1, Succeeds, Fails, Kept, GotoFlows, Zenon

LEMMA InitializeSDKFlow ==
    ASSUME LocalType, NEW t \in Threads, InitializeSDK(t)
    PROVE  /\ LocalsKept
           /\ Flow(t, {"init"}, {"login"}) \/ Flow(t, {"init"}, AfterFailure)
<1>1. (Goto(t, "init", "login") /\ UNCHANGED local) \/ Connected(t, "init", FALSE)
  BY Zenon DEF InitializeSDK
<1> QED
  BY <1>1, Succeeds, Fails, Kept, GotoFlows, Zenon

LEMMA LoginStepFlow ==
    ASSUME LocalType, NEW t \in Threads, LoginStep(t)
    PROVE  /\ LocalsKept
           /\ \/ Flow(t, {"login"}, {"loginCall"}) /\ LoginID' = 0 /\ UNCHANGED logins
              \/ Flow(t, {"loginCall"}, {"loginTest"}) /\ LoginID' = 0 /\ UNCHANGED logins
              \/ /\ Flow(t, {"loginCall"}, {"loginTest"}) /\ LoginID' = nHandles'
                 /\ nHandles' = nHandles + 1 /\ logins' = logins \cup {LoginID'}
<1>1. UNCHANGED local /\
      \/ Goto(t, "login", "loginCall") /\ LoginID' = 0 /\ UNCHANGED logins
      \/ Goto(t, "loginCall", "loginTest") /\ LoginID' = 0 /\ UNCHANGED logins
      \/ /\ Goto(t, "loginCall", "loginTest") /\ LoginID' = nHandles'
         /\ nHandles' = nHandles + 1 /\ logins' = logins \cup {LoginID'}
  BY Zenon DEF LoginStep, Login
<1> QED
  BY <1>1, Succeeds, Fails, Kept, GotoFlows, Zenon

LEMMA LoginTestFlow ==
    ASSUME LocalType, NEW t \in Threads, LoginTest(t)
    PROVE  /\ LocalsKept
           /\ \/ Flow(t, {"loginTest"}, {"channels"}) /\ LoginID > 0 /\ UNCHANGED LoginID
              \/ Flow(t, {"loginTest"}, AfterFailure) /\ ~(LoginID > 0) /\ LoginID' = 0
<1>1. \/ Goto(t, "loginTest", "channels") /\ LoginID > 0 /\ UNCHANGED <<LoginID, local>>
      \/ Connected(t, "loginTest", FALSE) /\ ~(LoginID > 0) /\ LoginID' = 0
  <2>1. CASE LoginID > 0
    BY <2>1, Zenon DEF LoginTest
  <2>2. CASE ~(LoginID > 0)
    BY <2>2, Zenon DEF LoginTest
  <2> QED
    BY <2>1, <2>2
<1> QED
  BY <1>1, Succeeds, Fails, Kept, GotoFlows, Zenon

LEMMA GetChannelsInfoFlow ==
    ASSUME LocalType, NEW t \in Threads, GetChannelsInfo(t)
    PROVE  /\ LocalsKept
           /\ \/ /\ Flow(t, {"channels"}, {"listen"}) /\ m_ChannelsInfo # "empty"
                 /\ UNCHANGED m_ChannelsInfo
              \/ Flow(t, {"channels"}, {"config"}) /\ m_ChannelsInfo' = "zeroed"
              \/ Flow(t, {"config"}, {"listen"}) /\ m_ChannelsInfo' = "loaded"
              \/ /\ Flow(t, {"channels"}, AfterFailure) /\ (LoginID = 0 \/ "Config" \in Faults)
                 /\ UNCHANGED m_ChannelsInfo
              \/ /\ Flow(t, {"config"}, AfterFailure) /\ (LoginID = 0 \/ "Config" \in Faults)
                 /\ m_ChannelsInfo' = "empty"
<1>1. \/ /\ Goto(t, "channels", "listen") /\ m_ChannelsInfo # "empty"
         /\ UNCHANGED <<local, m_ChannelsInfo>>
      \/ Goto(t, "channels", "config") /\ UNCHANGED local /\ m_ChannelsInfo' = "zeroed"
      \/ Goto(t, "config", "listen") /\ UNCHANGED local /\ m_ChannelsInfo' = "loaded"
      \/ /\ Connected(t, "channels", FALSE) /\ (LoginID = 0 \/ "Config" \in Faults)
         /\ UNCHANGED m_ChannelsInfo
      \/ /\ Connected(t, "config", FALSE) /\ (LoginID = 0 \/ "Config" \in Faults)
         /\ m_ChannelsInfo' = "empty"
  BY Zenon DEF GetChannelsInfo, OutcomeOn, Outcome
<1> QED
  BY <1>1, Succeeds, Fails, Kept, GotoFlows, Zenon

LEMMA StartListenFlow ==
    ASSUME LocalType, NEW t \in Threads, StartListen(t)
    PROVE  /\ LocalsKept
           /\ \/ Flow(t, {"listen"}, {"play"})
              \/ Flow(t, {"listen"}, AfterFailure) /\ (LoginID = 0 \/ "Listen" \in Faults)
<1>1. \/ Goto(t, "listen", "play") /\ UNCHANGED local
      \/ Connected(t, "listen", FALSE) /\ (LoginID = 0 \/ "Listen" \in Faults)
  BY Zenon DEF StartListen, OutcomeOn, Outcome
<1> QED
  BY <1>1, Succeeds, Fails, Kept, GotoFlows, Zenon

LEMMA GetVideoEffectFlow ==
    ASSUME LocalType, NEW t \in Threads, GetVideoEffect(t)
    PROVE  /\ LocalsKept
           /\ Flow(t, {"effect"}, {"options"}) \/ Flow(t, {"effect"}, After)
<1>1. (Goto(t, "effect", "options") /\ UNCHANGED local) \/ Connected(t, "effect", TRUE)
  BY Zenon DEF GetVideoEffect
<1> QED
  BY <1>1, Succeeds, Fails, Kept, GotoFlows, Zenon

LEMMA PublishHandleFlow ==
    ASSUME LocalType, NEW t \in Threads, PublishHandle(t)
    PROVE  Flow(t, {"publish"}, {"rate"}) /\ LocalsKept
  BY Kept, GotoFlows DEF PublishHandle

LEMMA PublishRateFlow ==
    ASSUME LocalType, NEW t \in Threads, PublishRate(t)
    PROVE  Flow(t, {"rate"}, {"frameSize"}) /\ LocalsKept
  BY Kept, GotoFlows DEF PublishRate

LEMMA PublishSizeFlow ==
    ASSUME LocalType, NEW t \in Threads, PublishSize(t)
    PROVE  /\ LocalsKept
           /\ \/ Flow(t, {"frameSize"}, {"lockBuffer"}) /\ nSize' = 1
              \/ Flow(t, {"frameSize"}, After) /\ "FrameSize" \in Faults
<1>1. \/ Goto(t, "frameSize", "lockBuffer") /\ UNCHANGED local /\ nSize' = 1
      \/ Connected(t, "frameSize", TRUE) /\ "FrameSize" \in Faults
  BY Zenon DEF PublishSize, Outcome
<1> QED
  BY <1>1, Succeeds, Fails, Kept, GotoFlows, Zenon

LEMMA LockFrameFlow ==
    ASSUME LocalType, NEW t \in Threads, LockFrame(t)
    PROVE  /\ LocalsKept
           /\ Flow(t, {"lockBuffer"}, {"resize"}) \/ Flow(t, {"lockCopy"}, {"copy"})
<1>1. UNCHANGED local /\ (Goto(t, "lockBuffer", "resize") \/ Goto(t, "lockCopy", "copy"))
  BY Zenon DEF LockFrame
<1> QED
  BY <1>1, Succeeds, Fails, Kept, GotoFlows, Zenon

LEMMA PrepareBufferFlow ==
    ASSUME LocalType, NEW t \in Threads, PrepareBuffer(t)
    PROVE  Flow(t, {"resize"}, {"setCallback"}) /\ LocalsKept
  BY Kept, GotoFlows DEF PrepareBuffer

LEMMA SetRealDataCallBackFlow ==
    ASSUME LocalType, NEW t \in Threads, SetRealDataCallBack(t)
    PROVE  Flow(t, {"setCallback"}, After) /\ LocalsKept
<1>1. Connected(t, "setCallback", TRUE)
  BY Zenon DEF SetRealDataCallBack
<1> QED
  BY <1>1, Succeeds, Fails, Kept, GotoFlows, Zenon

LEMMA ComputeFormatFlow ==
    ASSUME LocalType, NEW t \in Threads, ComputeFormat(t)
    PROVE  Flow(t, {"format"}, {"idle"}) /\ LocalsKept
  BY Returns, GotoFlows DEF ComputeFormat

LEMMA LocalValues ==
    ASSUME LocalType, NEW t \in Threads
    PROVE  /\ \A h \in Nat : [local[t] EXCEPT !.handle = h] \in Locals
           /\ \A n \in 0 .. 1 : [local[t] EXCEPT !.rate = n] \in Locals
           /\ \A n, k \in 0 .. 1 : [local[t] EXCEPT !.rate = n, !.size = k] \in Locals
           /\ \A c \in Contents : [local[t] EXCEPT !.copy = c] \in Locals
  BY DEF LocalType, Locals

\* These steps change one of the local variables of their thread.
LEMMA RealPlayFlow ==
    ASSUME LocalType, nHandles \in Nat, NEW t \in Threads, RealPlay(t)
    PROVE  \/ /\ LocalType' /\ \A u \in Threads : local'[u].copy = local[u].copy
              /\ Flow(t, {"play"}, {"effect"}) /\ \E h \in Nat : plays' = plays \cup {h}
           \/ LocalsKept /\ Flow(t, {"play"}, After) /\ UNCHANGED plays
<1>1. \/ /\ Goto(t, "play", "effect") /\ nHandles' = nHandles + 1 /\ plays' = plays \cup {nHandles'}
         /\ local' = [local EXCEPT ![t].handle = nHandles']
      \/ Connected(t, "play", TRUE) /\ UNCHANGED plays
  BY Zenon DEF RealPlay
<1>2. ASSUME /\ Goto(t, "play", "effect") /\ nHandles' = nHandles + 1 /\ plays' = plays \cup {nHandles'}
             /\ local' = [local EXCEPT ![t].handle = nHandles']
      PROVE  /\ LocalType' /\ \A u \in Threads : local'[u].copy = local[u].copy
             /\ Flow(t, {"play"}, {"effect"}) /\ \E h \in Nat : plays' = plays \cup {h}
  <2>1. nHandles' \in Nat /\ \E h \in Nat : plays' = plays \cup {h}
    BY <1>2
  <2>2. local' = [local EXCEPT ![t] = [local[t] EXCEPT !.handle = nHandles']]
    BY <1>2
  <2>3. LocalType'
    BY <2>1, <2>2, LocalValues DEF LocalType
  <2>4. \A u \in Threads : local'[u].copy = local[u].copy
    BY <2>2 DEF LocalType, Locals
  <2> QED
    BY <1>2, <2>1, <2>3, <2>4, GotoFlows
<1> QED
  BY <1>1, <1>2, Succeeds, Zenon

LEMMA ReadOptionsFlow ==
    ASSUME LocalType, NEW t \in Threads, ReadOptions(t)
    PROVE  /\ LocalType' /\ \A u \in Threads : local'[u].copy = local[u].copy
           /\ Flow(t, {"options"}, {"publish"})
<1>1. PICK rate \in 0 .. 1 : local' = [local EXCEPT ![t] = [local[t] EXCEPT !.rate = rate]]
  BY DEF ReadOptions
<1>2. LocalType'
  BY <1>1, LocalValues DEF LocalType
<1>3. Flow(t, {"options"}, {"publish"})
  BY GotoFlows DEF ReadOptions
<1> QED
  BY <1>1, <1>2, <1>3 DEF LocalType, Locals

LEMMA GetCurrentChannelInfoFlow ==
    ASSUME LocalType, nFramesPerSecond \in 0 .. 1, nSize \in 0 .. 1, NEW t \in Threads,
           GetCurrentChannelInfo(t)
    PROVE  /\ LocalType' /\ \A u \in Threads : local'[u].copy = local[u].copy
           /\ \A u \in Threads : u # t => local'[u] = local[u]
           /\ \/ Flow(t, {"getInfo"}, {"copyInfo"}) /\ IsPlaying /\ LocalsKept
              \/ Flow(t, {"getInfo"}, {"idle"}) /\ LocalsKept
              \/ /\ Flow(t, {"copyInfo"}, {"format"})
                 /\ local'[t].rate = nFramesPerSecond /\ local'[t].size = nSize
<1>1. \/ Goto(t, "getInfo", IF IsPlaying THEN "copyInfo" ELSE "idle") /\ UNCHANGED local
      \/ /\ Goto(t, "copyInfo", "format")
         /\ local' = [local EXCEPT ![t] = [local[t] EXCEPT !.rate = nFramesPerSecond, !.size = nSize]]
  BY DEF GetCurrentChannelInfo
<1>2. ASSUME Goto(t, "getInfo", IF IsPlaying THEN "copyInfo" ELSE "idle"), UNCHANGED local
      PROVE  /\ LocalType' /\ LocalsKept
             /\ (Flow(t, {"getInfo"}, {"copyInfo"}) /\ IsPlaying) \/ Flow(t, {"getInfo"}, {"idle"})
  BY <1>2, Kept, GotoFlows DEF LocalsKept
<1>3. ASSUME Goto(t, "copyInfo", "format"),
             local' = [local EXCEPT ![t] = [local[t] EXCEPT !.rate = nFramesPerSecond, !.size = nSize]]
      PROVE  /\ LocalType' /\ \A u \in Threads : local'[u].copy = local[u].copy
             /\ \A u \in Threads : u # t => local'[u] = local[u]
             /\ local'[t].rate = nFramesPerSecond /\ local'[t].size = nSize
             /\ Flow(t, {"copyInfo"}, {"format"})
  <2>1. LocalType'
    BY <1>3, LocalValues DEF LocalType
  <2>2. Flow(t, {"copyInfo"}, {"format"})
    BY <1>3, GotoFlows
  <2> QED
    BY <1>3, <2>1, <2>2 DEF LocalType, Locals
<1> QED
  BY <1>1, <1>2, <1>3 DEF LocalsKept

LEMMA CallFillBufferFlow ==
    ASSUME LocalType, CallFillBuffer
    PROVE  /\ LocalsKept
           /\ Flow(Worker, {"idle"}, {"connect"}) \/ Flow(Worker, {"idle"}, {"getFrame"})
  BY Kept, GotoFlows DEF CallFillBuffer

LEMMA GetCurrentChannelFrameFlow ==
    ASSUME LocalType, m_aVideoFrameData \in Contents, GetCurrentChannelFrame
    PROVE  /\ LocalType'
           /\ \/ /\ LocalsKept /\ UNCHANGED frameVars
                 /\ Flow(Worker, {"getFrame"}, {"lockCopy"}) \/ Flow(Worker, {"getFrame"}, {"idle"})
              \/ /\ Flow(Worker, {"copy"}, {"idle"}) /\ m_csVideoFrame' = Nobody
                 /\ local'[Worker].copy = m_aVideoFrameData
           /\ \A u \in Threads : /\ local'[u].rate = local[u].rate /\ local'[u].size = local[u].size
                                 /\ u # Worker => local'[u].copy = local[u].copy
<1>1. \/ /\ Goto(Worker, "getFrame", IF IsPlaying THEN "lockCopy" ELSE "idle")
         /\ UNCHANGED local /\ UNCHANGED frameVars
      \/ /\ Goto(Worker, "copy", "idle") /\ m_csVideoFrame' = Nobody
         /\ local' = [local EXCEPT ![Worker] = [local[Worker] EXCEPT !.copy = m_aVideoFrameData]]
  BY DEF GetCurrentChannelFrame, frameVars
<1>2. Worker \in Threads
  BY DahuaDeviceAssumption
<1>3. CASE Goto(Worker, "getFrame", IF IsPlaying THEN "lockCopy" ELSE "idle") /\ UNCHANGED local
              /\ UNCHANGED frameVars
  BY <1>3, Kept, GotoFlows DEF LocalsKept
<1>4. CASE /\ Goto(Worker, "copy", "idle") /\ m_csVideoFrame' = Nobody
           /\ local' = [local EXCEPT ![Worker] = [local[Worker] EXCEPT !.copy = m_aVideoFrameData]]
  <2>1. LocalType'
    BY <1>2, <1>4, LocalValues DEF LocalType
  <2>2. Flow(Worker, {"copy"}, {"idle"})
    BY <1>4, GotoFlows
  <2>3. /\ local'[Worker].copy = m_aVideoFrameData
        /\ \A u \in Threads : /\ local'[u].rate = local[u].rate /\ local'[u].size = local[u].size
                              /\ u # Worker => local'[u].copy = local[u].copy
    BY <1>2, <1>4 DEF LocalType, Locals
  <2> QED
    BY <1>4, <2>1, <2>2, <2>3
<1> QED
  BY <1>1, <1>3, <1>4

(***************************************************************************)
(* The frame: its lock is held by exactly the thread in a locked section,  *)
(* it is unfinished only inside UpdateVideoFrame, and before there is a    *)
(* buffer no callback is set or about to be set.                           *)
(***************************************************************************)
Numbers == nHandles \in Nat /\ nFramesPerSecond \in 0 .. 1 /\ nSize \in 0 .. 1
Types == PcType /\ LocalType /\ Numbers /\ m_aVideoFrameData \in Contents

LockHeld ==
    /\ \A t \in Threads : pc[t] \in {"resize", "copy"} <=> m_csVideoFrame = t
    /\ pc["sdk"] \in {"clear", "convert", "leave"} <=> m_csVideoFrame = "sdk"

Frame ==
    /\ LockHeld
    /\ m_aVideoFrameData = "partial" => pc["sdk"] = "leave"
    /\ m_aVideoFrameData = "none" =>
           callbacks = {} /\ \A t \in Threads : pc[t] # "setCallback"
    /\ local[Worker].copy # "partial"

\* A step outside the locked sections that leaves the frame alone.
Apart(t) ==
    /\ \E from, to \in SUBSET (Labels \ {"resize", "copy"}) :
          Flow(t, from, to) /\ "setCallback" \notin to
    /\ UNCHANGED <<frameVars, callbacks>>
    /\ LocalType' /\ local'[Worker].copy = local[Worker].copy

LEMMA ApartKeeps ==
    ASSUME Types, Frame, Numbers', NEW t \in Threads, Apart(t)
    PROVE  Types' /\ Frame'
<1>1. PICK to \in SUBSET (Labels \ {"resize", "copy"}) :
          /\ pc[t] \notin {"resize", "copy"} /\ "setCallback" \notin to
          /\ \E l \in to : pc' = [pc EXCEPT ![t] = l]
  BY DEF Apart, Flow
<1>2. PICK l \in Labels \ {"resize", "copy", "setCallback"} : pc' = [pc EXCEPT ![t] = l]
  BY <1>1
<1>3. t # "sdk" /\ Worker \in Threads
  BY DahuaDeviceAssumption
<1>4. Types'
  BY <1>2 DEF Types, PcType, Apart, frameVars, Labels
<1>5. LockHeld'
  BY <1>1, <1>2, <1>3 DEF Types, PcType, Apart, frameVars, Frame, LockHeld
<1>6. Frame'
  BY <1>2, <1>3, <1>5 DEF Types, PcType, Apart, frameVars, Frame
<1> QED
  BY <1>4, <1>6

\* Every step of a call but those on the frame, and CallFillBuffer, is such a step.

LEMMA FlowApart ==
    ASSUME NEW t \in Threads, NEW from \in SUBSET (Labels \ {"resize", "copy"}),
           NEW to \in SUBSET (Labels \ {"resize", "copy", "setCallback"}), Flow(t, from, to),
           UNCHANGED <<frameVars, callbacks>>, LocalType',
           \A u \in Threads : local'[u].copy = local[u].copy
    PROVE  Apart(t)
  BY DahuaDeviceAssumption DEF Apart

LEMMA KeptCopies == LocalsKept => LocalType' /\ \A u \in Threads : local'[u].copy = local[u].copy
  BY DEF LocalsKept

LEMMA LabelSets ==
    /\ \A l \in Labels \ {"resize", "copy"} : {l} \in SUBSET (Labels \ {"resize", "copy"})
    /\ \A l \in Labels \ {"resize", "copy", "setCallback"} :
          {l} \in SUBSET (Labels \ {"resize", "copy", "setCallback"})
    /\ After \in SUBSET (Labels \ {"resize", "copy", "setCallback"})
    /\ AfterFailure \in SUBSET (Labels \ {"resize", "copy", "setCallback"})
  BY DEF After, AfterFailure, Labels

LEMMA LocalRates == ASSUME LocalType, NEW t \in Threads PROVE local[t].rate \in 0 .. 1
  BY DEF LocalType, Locals

LEMMA CallsApart ==
    ASSUME Types, NEW t \in Threads,
           \/ CallGetMediaType(t) \/ ConnectDevice(t) \/ InitializeSDK(t) \/ LoginStep(t)
           \/ LoginTest(t) \/ GetChannelsInfo(t) \/ StartListen(t) \/ RealPlay(t)
           \/ GetVideoEffect(t) \/ ReadOptions(t) \/ PublishHandle(t) \/ PublishRate(t)
           \/ PublishSize(t) \/ GetCurrentChannelInfo(t) \/ ComputeFormat(t)
    PROVE  Apart(t) /\ Numbers'
<1> USE LabelSets
<1>1. CASE CallGetMediaType(t)
  <2>1. UNCHANGED <<frameVars, callbacks>>
    BY <1>1, Zenon DEF CallGetMediaType, frameVars, sdkVars
  <2>2. Apart(t)
    BY <1>1, <2>1, CallGetMediaTypeFlow, FlowApart, KeptCopies DEF Types, Numbers, Labels
  <2>3. Numbers'
    BY <1>1 DEF CallGetMediaType, Types, Numbers, channelVars, sdkVars
  <2> QED
    BY <2>2, <2>3
<1>2. CASE ConnectDevice(t)
  <2>1. UNCHANGED <<frameVars, callbacks>>
    BY <1>2, Zenon DEF ConnectDevice, frameVars, sdkVars
  <2>2. Apart(t)
    BY <1>2, <2>1, ConnectDeviceFlow, FlowApart, KeptCopies DEF Types, Numbers, Labels
  <2>3. Numbers'
    BY <1>2 DEF ConnectDevice, Types, Numbers, channelVars, sdkVars
  <2> QED
    BY <2>2, <2>3
<1>3. CASE InitializeSDK(t)
  <2>1. UNCHANGED <<frameVars, callbacks>>
    BY <1>3, Zenon DEF InitializeSDK, frameVars, sdkVars
  <2>2. Apart(t)
    BY <1>3, <2>1, InitializeSDKFlow, FlowApart, KeptCopies DEF Types, Numbers, Labels
  <2>3. Numbers'
    BY <1>3 DEF InitializeSDK, Types, Numbers, channelVars, sdkVars
  <2> QED
    BY <2>2, <2>3
<1>4. CASE LoginStep(t)
  <2>1. UNCHANGED <<frameVars, callbacks>>
    BY <1>4, Zenon DEF LoginStep, frameVars, sdkVars
  <2>2. Apart(t)
    BY <1>4, <2>1, LoginStepFlow, FlowApart, KeptCopies DEF Types, Numbers, Labels
  <2>3. Numbers'
    <3>1. nHandles' = nHandles \/ nHandles' = nHandles + 1
      BY <1>4, Zenon DEF LoginStep, Login
    <3>2. UNCHANGED channelVars
      BY <1>4, Zenon DEF LoginStep
    <3> QED
      BY <3>1, <3>2 DEF Types, Numbers, channelVars
  <2> QED
    BY <2>2, <2>3
<1>5. CASE LoginTest(t)
  <2>1. UNCHANGED <<frameVars, callbacks>>
    BY <1>5, Zenon DEF LoginTest, frameVars, sdkVars
  <2>2. Apart(t)
    BY <1>5, <2>1, LoginTestFlow, FlowApart, KeptCopies DEF Types, Numbers, Labels
  <2>3. Numbers'
    BY <1>5 DEF LoginTest, Types, Numbers, channelVars, sdkVars
  <2> QED
    BY <2>2, <2>3
<1>6. CASE GetChannelsInfo(t)
  <2>1. UNCHANGED <<frameVars, callbacks>>
    BY <1>6, Zenon DEF GetChannelsInfo, frameVars, sdkVars
  <2>2. Apart(t)
    BY <1>6, <2>1, GetChannelsInfoFlow, FlowApart, KeptCopies DEF Types, Numbers, Labels
  <2>3. Numbers'
    BY <1>6 DEF GetChannelsInfo, Types, Numbers, channelVars, sdkVars
  <2> QED
    BY <2>2, <2>3
<1>7. CASE StartListen(t)
  <2>1. UNCHANGED <<frameVars, callbacks>>
    BY <1>7, Zenon DEF StartListen, frameVars, sdkVars
  <2>2. Apart(t)
    BY <1>7, <2>1, StartListenFlow, FlowApart, KeptCopies DEF Types, Numbers, Labels
  <2>3. Numbers'
    BY <1>7 DEF StartListen, Types, Numbers, channelVars, sdkVars
  <2> QED
    BY <2>2, <2>3
<1>8. CASE RealPlay(t)
  <2>1. UNCHANGED <<frameVars, callbacks>>
    BY <1>8, Zenon DEF RealPlay, frameVars, sdkVars
  <2>2. Apart(t)
    BY <1>8, <2>1, RealPlayFlow, FlowApart, KeptCopies DEF Types, Numbers, Labels
  <2>3. Numbers'
    <3>1. nHandles' = nHandles \/ nHandles' = nHandles + 1
      BY <1>8, Zenon DEF RealPlay
    <3>2. UNCHANGED channelVars
      BY <1>8, Zenon DEF RealPlay
    <3> QED
      BY <3>1, <3>2 DEF Types, Numbers, channelVars
  <2> QED
    BY <2>2, <2>3
<1>9. CASE GetVideoEffect(t)
  <2>1. UNCHANGED <<frameVars, callbacks>>
    BY <1>9, Zenon DEF GetVideoEffect, frameVars, sdkVars
  <2>2. Apart(t)
    BY <1>9, <2>1, GetVideoEffectFlow, FlowApart, KeptCopies DEF Types, Numbers, Labels
  <2>3. Numbers'
    BY <1>9 DEF GetVideoEffect, Types, Numbers, channelVars, sdkVars
  <2> QED
    BY <2>2, <2>3
<1>10. CASE ReadOptions(t)
  <2>1. UNCHANGED <<frameVars, callbacks>>
    BY <1>10, Zenon DEF ReadOptions, frameVars, sdkVars
  <2>2. Apart(t)
    BY <1>10, <2>1, ReadOptionsFlow, FlowApart, KeptCopies DEF Types, Numbers, Labels
  <2>3. Numbers'
    BY <1>10 DEF ReadOptions, Types, Numbers, channelVars, sdkVars
  <2> QED
    BY <2>2, <2>3
<1>11. CASE PublishHandle(t)
  <2>1. UNCHANGED <<frameVars, callbacks>>
    BY <1>11, Zenon DEF PublishHandle, frameVars, sdkVars
  <2>2. Apart(t)
    BY <1>11, <2>1, PublishHandleFlow, FlowApart, KeptCopies DEF Types, Numbers, Labels
  <2>3. Numbers'
    BY <1>11 DEF PublishHandle, Types, Numbers, channelVars, sdkVars
  <2> QED
    BY <2>2, <2>3
<1>12. CASE PublishRate(t)
  <2>1. UNCHANGED <<frameVars, callbacks>>
    BY <1>12, Zenon DEF PublishRate, frameVars, sdkVars
  <2>2. Apart(t)
    BY <1>12, <2>1, PublishRateFlow, FlowApart, KeptCopies DEF Types, Numbers, Labels
  <2>3. Numbers'
    BY <1>12, LocalRates DEF PublishRate, Types, Numbers, sdkVars
  <2> QED
    BY <2>2, <2>3
<1>13. CASE PublishSize(t)
  <2>1. UNCHANGED <<frameVars, callbacks>>
    BY <1>13, Zenon DEF PublishSize, frameVars, sdkVars
  <2>2. Apart(t)
    BY <1>13, <2>1, PublishSizeFlow, FlowApart, KeptCopies DEF Types, Numbers, Labels
  <2>3. Numbers'
    BY <1>13 DEF PublishSize, Types, Numbers, channelVars, sdkVars
  <2> QED
    BY <2>2, <2>3
<1>14. CASE GetCurrentChannelInfo(t)
  <2>1. UNCHANGED <<frameVars, callbacks>>
    BY <1>14, Zenon DEF GetCurrentChannelInfo, frameVars, sdkVars
  <2>2. Apart(t)
    BY <1>14, <2>1, GetCurrentChannelInfoFlow, FlowApart, KeptCopies DEF Types, Numbers, Labels
  <2>3. Numbers'
    BY <1>14 DEF GetCurrentChannelInfo, Types, Numbers, channelVars, sdkVars
  <2> QED
    BY <2>2, <2>3
<1>15. CASE ComputeFormat(t)
  <2>1. UNCHANGED <<frameVars, callbacks>>
    BY <1>15, Zenon DEF ComputeFormat, frameVars, sdkVars
  <2>2. Apart(t)
    BY <1>15, <2>1, ComputeFormatFlow, FlowApart, KeptCopies DEF Types, Numbers, Labels
  <2>3. Numbers'
    BY <1>15 DEF ComputeFormat, Types, Numbers, channelVars, sdkVars
  <2> QED
    BY <2>2, <2>3
<1> QED
  BY <1>1, <1>2, <1>3, <1>4, <1>5, <1>6, <1>7, <1>8, <1>9, <1>10, <1>11, <1>12, <1>13, <1>14, <1>15

LEMMA FrameInit == Init => Types /\ Frame
<1> SUFFICES ASSUME Init PROVE Types /\ Frame
  OBVIOUS
<1>1. PcType /\ Numbers /\ m_aVideoFrameData \in Contents
  BY DEF Init, PcType, Numbers, Labels, Contents
<1>2. NoLocal \in Locals /\ NoLocal.copy = "none"
  BY DEF NoLocal, Locals, Contents
<1>3. Worker \in Threads /\ "sdk" \notin Threads /\ Nobody \notin Threads
  BY DahuaDeviceAssumption DEF Nobody
<1>4. local = [t \in Threads |-> NoLocal]
  BY DEF Init
<1>5. LocalType /\ local[Worker].copy = "none"
  BY <1>2, <1>3, <1>4 DEF LocalType
<1>6. LockHeld
  BY <1>3 DEF Init, LockHeld, Nobody
<1>7. Frame
  BY <1>5, <1>6 DEF Init, Frame
<1> QED
  BY <1>1, <1>5, <1>7 DEF Types

\* The worker begins to copy the frame only when nobody writes to it.
LEMMA FrameStep == Types /\ Frame /\ [Next]_vars => Types' /\ Frame'
<1> SUFFICES ASSUME Types, Frame, [Next]_vars PROVE Types' /\ Frame'
  OBVIOUS
<1>0. Worker \in Threads /\ "sdk" \notin Threads /\ Nobody \notin Threads /\ Nobody # "sdk"
  BY DahuaDeviceAssumption DEF Nobody
<1>1. ASSUME NEW t \in Threads, 
             \/ CallGetMediaType(t) \/ ConnectDevice(t) \/ InitializeSDK(t) \/ LoginStep(t)
             \/ LoginTest(t) \/ GetChannelsInfo(t) \/ StartListen(t) \/ RealPlay(t)
             \/ GetVideoEffect(t) \/ ReadOptions(t) \/ PublishHandle(t) \/ PublishRate(t)
             \/ PublishSize(t) \/ GetCurrentChannelInfo(t) \/ ComputeFormat(t)
      PROVE  Types' /\ Frame'
  BY <1>1, CallsApart, ApartKeeps
<1>2. CASE CallFillBuffer
  <2>1. Apart(Worker)
    BY <1>0, <1>2, CallFillBufferFlow, LabelSets, FlowApart, KeptCopies
       DEF CallFillBuffer, frameVars, sdkVars, Types, Labels
  <2>2. Numbers'
    BY <1>2 DEF CallFillBuffer, Types, Numbers, channelVars, sdkVars
  <2> QED
    BY <1>0, <2>1, <2>2, ApartKeeps
<1>3. ASSUME NEW t \in Threads, LockFrame(t) PROVE Types' /\ Frame'
  <2>1. PICK l \in {"resize", "copy"} : pc' = [pc EXCEPT ![t] = l]
    BY <1>3, LockFrameFlow DEF Types, Flow
  <2>2. m_csVideoFrame = Nobody /\ m_csVideoFrame' = t
    BY <1>3 DEF LockFrame, Enter
  <2>3. UNCHANGED <<m_aVideoFrameData, callbacks, nHandles, nFramesPerSecond, nSize, local>>
    BY <1>3 DEF LockFrame, sdkVars, channelVars
  <2>4. Types'
    BY <2>1, <2>3 DEF Types, PcType, LocalType, Numbers, Labels
  <2>5. LockHeld'
    BY <1>0, <2>1, <2>2 DEF Types, PcType, Frame, LockHeld
  <2>6. Frame'
    BY <1>0, <2>1, <2>3, <2>5 DEF Types, PcType, Frame
  <2> QED
    BY <2>4, <2>6
<1>4. ASSUME NEW t \in Threads, PrepareBuffer(t) PROVE Types' /\ Frame'
  <2>1. pc[t] = "resize" /\ pc' = [pc EXCEPT ![t] = "setCallback"]
    BY <1>4 DEF PrepareBuffer, Goto
  <2>2. m_csVideoFrame = t /\ m_csVideoFrame' = Nobody /\ m_aVideoFrameData' = "black"
    BY <1>4, <2>1 DEF PrepareBuffer, Resized, Frame, LockHeld
  <2>3. UNCHANGED <<callbacks, nHandles, nFramesPerSecond, nSize, local>>
    BY <1>4 DEF PrepareBuffer, sdkVars, channelVars
  <2>4. Types'
    BY <2>1, <2>2, <2>3 DEF Types, PcType, LocalType, Numbers, Labels, Contents
  <2>5. LockHeld'
    BY <1>0, <2>1, <2>2 DEF Types, PcType, Frame, LockHeld
  <2>6. Frame'
    BY <1>0, <2>1, <2>2, <2>3, <2>5 DEF Types, PcType, Frame
  <2> QED
    BY <2>4, <2>6
<1>5. ASSUME NEW t \in Threads, SetRealDataCallBack(t) PROVE Types' /\ Frame'
  <2>1. PICK l \in After : pc[t] = "setCallback" /\ pc' = [pc EXCEPT ![t] = l]
    BY <1>5, SetRealDataCallBackFlow DEF Types, Flow
  <2>2. LocalType' /\ local'[Worker].copy = local[Worker].copy
    BY <1>0, <1>5, SetRealDataCallBackFlow, KeptCopies DEF Types
  <2>3. UNCHANGED <<m_aVideoFrameData, m_csVideoFrame, nHandles, nFramesPerSecond, nSize>>
    BY <1>5 DEF SetRealDataCallBack, frameVars, channelVars
  <2>4. Types'
    BY <2>1, <2>2, <2>3 DEF Types, PcType, Numbers, Labels, After
  <2>5. LockHeld'
    BY <1>0, <2>1, <2>3 DEF Types, PcType, Frame, LockHeld, After
  <2>6. m_aVideoFrameData # "none"
    BY <2>1 DEF Frame
  <2>7. Frame'
    BY <1>0, <2>1, <2>2, <2>3, <2>5, <2>6 DEF Types, PcType, Frame
  <2> QED
    BY <2>4, <2>7
<1>6. CASE GetCurrentChannelFrame
  <2>1. LocalType' /\ UNCHANGED <<m_aVideoFrameData, callbacks, nHandles, nFramesPerSecond, nSize>>
    BY <1>6, GetCurrentChannelFrameFlow DEF Types, GetCurrentChannelFrame, sdkVars, channelVars
  <2>2. Numbers'
    BY <2>1 DEF Types, Numbers
  <2>3. CASE /\ LocalsKept /\ UNCHANGED frameVars
             /\ Flow(Worker, {"getFrame"}, {"lockCopy"}) \/ Flow(Worker, {"getFrame"}, {"idle"})
    BY <1>0, <2>1, <2>2, <2>3, LabelSets, FlowApart, KeptCopies, ApartKeeps DEF frameVars, Labels
  <2>4. CASE /\ Flow(Worker, {"copy"}, {"idle"}) /\ m_csVideoFrame' = Nobody
             /\ local'[Worker].copy = m_aVideoFrameData
    <3>1. pc[Worker] = "copy" /\ pc' = [pc EXCEPT ![Worker] = "idle"] /\ m_csVideoFrame = Worker
      BY <1>0, <2>4 DEF Flow, Frame, LockHeld
    <3>2. m_aVideoFrameData # "partial"
      BY <1>0, <3>1 DEF Frame, LockHeld
    <3>3. Types'
      BY <2>1, <2>2, <3>1 DEF Types, PcType, Labels
    <3>4. LockHeld'
      BY <1>0, <2>4, <3>1 DEF Types, PcType, Frame, LockHeld
    <3>5. Frame'
      BY <1>0, <2>1, <2>4, <3>1, <3>2, <3>4 DEF Types, PcType, Frame
    <3> QED
      BY <3>3, <3>5
  <2> QED
    BY <1>6, <2>3, <2>4, GetCurrentChannelFrameFlow DEF Types
<1>7. CASE UpdateVideoFrame
  <2>1. UNCHANGED <<callbacks, nHandles, nFramesPerSecond, nSize, local>>
    BY <1>7 DEF UpdateVideoFrame, sdkVars, channelVars
  <2>2. PICK l \in SdkLabels :
          /\ pc' = [pc EXCEPT !["sdk"] = l]
          /\ \/ /\ pc["sdk"] = "idle" /\ l = "clear" /\ m_csVideoFrame = Nobody
                /\ m_csVideoFrame' = "sdk" /\ UNCHANGED m_aVideoFrameData
             \/ /\ pc["sdk"] = "clear" /\ l = "convert" /\ UNCHANGED m_csVideoFrame
                /\ m_aVideoFrameData' = "black"
             \/ /\ pc["sdk"] = "convert" /\ l = "leave" /\ UNCHANGED m_csVideoFrame
                /\ m_aVideoFrameData' = "partial"
             \/ /\ pc["sdk"] = "leave" /\ l = "idle" /\ m_csVideoFrame' = Nobody
                /\ m_aVideoFrameData' = "frame"
    BY <1>7 DEF UpdateVideoFrame, Goto, Enter, SdkLabels
  <2>3. Types'
    BY <2>1, <2>2 DEF Types, PcType, LocalType, Numbers, Contents
  <2>4. LockHeld'
    BY <1>0, <2>2 DEF Types, PcType, Frame, LockHeld, Nobody
  <2>5. m_aVideoFrameData' = "partial" => pc'["sdk"] = "leave"
    BY <1>0, <2>2 DEF Types, PcType, Frame
  <2>6. m_aVideoFrameData' = "none" => m_aVideoFrameData = "none"
    BY <2>2
  <2>7. \A t \in Threads : pc'[t] = pc[t]
    BY <1>0, <2>2 DEF Types, PcType
  <2>8. Frame'
    BY <2>1, <2>4, <2>5, <2>6, <2>7 DEF Frame
  <2> QED
    BY <2>3, <2>8
<1>8. CASE UNCHANGED vars \/ \E t \in Threads : DivideByZero(t)
  BY <1>8
     DEF DivideByZero, vars, sdkVars, channelVars, frameVars, Types, PcType, LocalType, Numbers, Frame, LockHeld
<1> QED
  BY <1>1, <1>2, <1>3, <1>4, <1>5, <1>6, <1>7, <1>8, Zenon
     DEF Next, InCall, Connect, StartPlay

\* The frame's lock, buffer and contents go together as Frame says, in every state.
THEOREM FrameInvariance == Spec => [](Types /\ Frame)
  BY FrameInit, FrameStep, PTL DEF Spec

\* Of any number of threads that connect, play and copy, and of the SDK's own,
\* none finds the frame without a buffer or unfinished, however they interleave.
THEOREM WholeFrames == Spec => []FrameIsWhole
<1>1. Types /\ Frame => FrameIsWhole
  BY DEF Frame, FrameIsWhole, CallbackHasBuffer, NoTornFrame
<1> QED
  BY <1>1, FrameInvariance, PTL

(***************************************************************************)
(* Calls that do not overlap: at most one thread is in a call, and what it *)
(* may find depends on how far it has come.                                *)
(***************************************************************************)
LoggingIn == {"init", "login", "loginCall"}
Opening == {"channels", "config", "listen", "play"}
Idle == {"idle", "connect", "getFrame", "lockCopy", "copy"}

\* The login and the play handle.  Nobody logs in while there is a login, and
\* nobody plays a second channel; a login is left without StartPlay only by the
\* two calls between them that may fail.
Session(t) ==
    /\ LoginID \in Nat /\ logins \subseteq {LoginID}
    /\ LoginID = 0 => logins = {} /\ plays = {}
    /\ \E h \in Nat : plays \subseteq {h}
    /\ pc[t] \in LoggingIn => LoginID = 0
    /\ pc[t] \in Opening \cup {"loginTest"} => plays = {}
    /\ pc[t] \notin LoggingIn \cup Idle \cup {"loginTest"} => LoginID > 0
    /\ {"Config", "Listen"} \cap Faults = {} =>
          (pc[t] \notin Opening \cup {"loginTest"} /\ LoginID > 0 => LoginID \in started)

Others(t) == \A u \in Threads : u # t => pc[u] = "idle"

Serial == serial => \E t \in Threads : Others(t) /\ Session(t)

LEMMA Moves ==
    ASSUME PcType, NEW t \in Threads, NEW from, NEW to, Flow(t, from, to)
    PROVE  pc[t] \in from /\ pc'[t] \in to /\ (Others(t) => Others(t)')
  BY DEF PcType, Flow, Others

LEMMA SessionStep ==
    ASSUME Types, NEW t \in Threads, Session(t), InCall(t)
    PROVE  Session(t)'
<1> USE DEF LoggingIn, Opening, Idle, After, AfterFailure
<1>1. CASE ConnectDevice(t)
  <2>1. UNCHANGED <<LoginID, logins, plays, started>>
    BY <1>1, Zenon DEF ConnectDevice, nodeVars, channelVars, sdkVars
  <2> QED
    BY <1>1, <2>1, ConnectDeviceFlow, Moves DEF Types, Numbers, Session, IsInitialized
<1>2. CASE InitializeSDK(t)
  <2>1. UNCHANGED <<LoginID, logins, plays, started>>
    BY <1>2, Zenon DEF InitializeSDK, nodeVars, channelVars, sdkVars
  <2> QED
    BY <1>2, <2>1, InitializeSDKFlow, Moves DEF Types, Numbers, Session
<1>3. CASE LoginStep(t)
  <2>1. UNCHANGED <<plays, started>>
    BY <1>3, Zenon DEF LoginStep, nodeVars, channelVars, sdkVars
  <2> QED
    BY <1>3, <2>1, LoginStepFlow, Moves DEF Types, Numbers, Session
<1>4. CASE LoginTest(t)
  <2>1. UNCHANGED <<logins, plays, started>>
    BY <1>4, Zenon DEF LoginTest, nodeVars, channelVars, sdkVars
  <2> QED
    BY <1>4, <2>1, LoginTestFlow, Moves DEF Types, Numbers, Session
<1>5. CASE GetChannelsInfo(t)
  <2>1. UNCHANGED <<LoginID, logins, plays, started>>
    BY <1>5, Zenon DEF GetChannelsInfo, nodeVars, channelVars, sdkVars
  <2> QED
    BY <1>5, <2>1, GetChannelsInfoFlow, Moves DEF Types, Numbers, Session
<1>6. CASE StartListen(t)
  <2>1. UNCHANGED <<LoginID, logins, plays, started>>
    BY <1>6, Zenon DEF StartListen, nodeVars, channelVars, sdkVars
  <2> QED
    BY <1>6, <2>1, StartListenFlow, Moves DEF Types, Numbers, Session
<1>7. CASE RealPlay(t)
  <2>1. UNCHANGED <<LoginID, logins>>
    BY <1>7, Zenon DEF RealPlay, nodeVars, channelVars, sdkVars
  <2> QED
    <3>1. started' = started \cup {LoginID}
      BY <1>7, Zenon DEF RealPlay
    <3>2. pc[t] = "play" /\ pc'[t] \in {"effect"} \cup After
      BY <1>7, RealPlayFlow, Moves DEF Types, Numbers
    <3>3. \E h \in Nat : plays' = plays \cup {h} \/ plays' = plays
      BY <1>7, RealPlayFlow DEF Types, Numbers
    <3>4. \E h \in Nat : plays' \subseteq {h}
      BY <3>2, <3>3 DEF Session
    <3> QED
      BY <2>1, <3>1, <3>2, <3>4 DEF Session
<1>8. CASE GetVideoEffect(t)
  <2>1. UNCHANGED <<LoginID, logins, plays, started>>
    BY <1>8, Zenon DEF GetVideoEffect, nodeVars, channelVars, sdkVars
  <2> QED
    BY <1>8, <2>1, GetVideoEffectFlow, Moves DEF Types, Numbers, Session
<1>9. CASE ReadOptions(t)
  <2>1. UNCHANGED <<LoginID, logins, plays, started>>
    BY <1>9, Zenon DEF ReadOptions, nodeVars, channelVars, sdkVars
  <2> QED
    BY <1>9, <2>1, ReadOptionsFlow, Moves DEF Types, Numbers, Session
<1>10. CASE PublishHandle(t)
  <2>1. UNCHANGED <<LoginID, logins, plays, started>>
    BY <1>10, Zenon DEF PublishHandle, nodeVars, channelVars, sdkVars
  <2> QED
    BY <1>10, <2>1, PublishHandleFlow, Moves DEF Types, Numbers, Session
<1>11. CASE PublishRate(t)
  <2>1. UNCHANGED <<LoginID, logins, plays, started>>
    BY <1>11, Zenon DEF PublishRate, nodeVars, channelVars, sdkVars
  <2> QED
    BY <1>11, <2>1, PublishRateFlow, Moves DEF Types, Numbers, Session
<1>12. CASE PublishSize(t)
  <2>1. UNCHANGED <<LoginID, logins, plays, started>>
    BY <1>12, Zenon DEF PublishSize, nodeVars, channelVars, sdkVars
  <2> QED
    BY <1>12, <2>1, PublishSizeFlow, Moves DEF Types, Numbers, Session
<1>13. CASE LockFrame(t)
  <2>1. UNCHANGED <<LoginID, logins, plays, started>>
    BY <1>13, Zenon DEF LockFrame, nodeVars, channelVars, sdkVars
  <2> QED
    BY <1>13, <2>1, LockFrameFlow, Moves DEF Types, Numbers, Session
<1>14. CASE PrepareBuffer(t)
  <2>1. UNCHANGED <<LoginID, logins, plays, started>>
    BY <1>14, Zenon DEF PrepareBuffer, nodeVars, channelVars, sdkVars
  <2> QED
    BY <1>14, <2>1, PrepareBufferFlow, Moves DEF Types, Numbers, Session
<1>15. CASE SetRealDataCallBack(t)
  <2>1. UNCHANGED <<LoginID, logins, plays, started>>
    BY <1>15, Zenon DEF SetRealDataCallBack, nodeVars, channelVars, sdkVars
  <2> QED
    BY <1>15, <2>1, SetRealDataCallBackFlow, Moves DEF Types, Numbers, Session
<1>16. CASE GetCurrentChannelInfo(t)
  <2>1. UNCHANGED <<LoginID, logins, plays, started>>
    BY <1>16, Zenon DEF GetCurrentChannelInfo, nodeVars, channelVars, sdkVars
  <2> QED
    BY <1>16, <2>1, GetCurrentChannelInfoFlow, Moves DEF Types, Numbers, Session
<1>17. CASE ComputeFormat(t)
  <2>1. UNCHANGED <<LoginID, logins, plays, started>>
    BY <1>17, Zenon DEF ComputeFormat, nodeVars, channelVars, sdkVars
  <2> QED
    BY <1>17, <2>1, ComputeFormatFlow, Moves DEF Types, Numbers, Session
<1> QED
  BY <1>1, <1>2, <1>3, <1>4, <1>5, <1>6, <1>7, <1>8, <1>9, <1>10, <1>11, <1>12, <1>13, <1>14,
     <1>15, <1>16, <1>17 DEF InCall, Connect, StartPlay

\* The steps of the frame leave the session and the channel alone.
LEMMA Unmoved ==
    ASSUME NEW t \in Threads, pc'[t] = pc[t] \/ {pc[t], pc'[t]} \subseteq Idle,
           UNCHANGED <<LoginID, logins, plays, started>>,
           Session(t)
    PROVE  Session(t)'
  BY DEF Idle, LoggingIn, Opening, Session

LEMMA SerialInit == Init => Serial
<1> SUFFICES ASSUME Init PROVE \E t \in Threads : Others(t) /\ Session(t)
  BY DEF Serial
<1>1. Worker \in Threads
  BY DahuaDeviceAssumption
<1>2. Others(Worker) /\ pc[Worker] = "idle"
  BY <1>1 DEF Init, Others
<1>3. Session(Worker)
  <2>1. \E h \in Nat : plays \subseteq {h}
    BY DEF Init
  <2>2. LoginID = 0 /\ logins = {} /\ plays = {}
    BY DEF Init
  <2> QED
    BY <1>2, <2>1, <2>2 DEF Session, LoggingIn, Opening, Idle
<1> QED
  BY <1>1, <1>2, <1>3

LEMMA SerialStep == Types /\ Serial /\ [Next]_vars => Serial'
<1> SUFFICES ASSUME Types, Serial, [Next]_vars, serial
             PROVE  \E t \in Threads : (Others(t) /\ Session(t))'
  BY DEF Serial, Next, vars
<1>0. Worker \in Threads /\ "sdk" \notin Threads
  BY DahuaDeviceAssumption
<1>1. PICK w \in Threads : Others(w) /\ Session(w)
  BY DEF Serial
\* A thread that is in a call is the only one.
<1>2. ASSUME NEW t \in Threads, pc[t] # "idle" PROVE t = w
  BY <1>1, <1>2 DEF Others
\* While no thread is in a call any of them may begin one.
<1>3. ASSUME NEW t \in Threads, \A u \in Threads : pc[u] = "idle"
      PROVE  Others(t) /\ Session(t)
  BY <1>1, <1>3 DEF Others, Session
<1>4. ASSUME NEW t \in Threads, InCall(t)
      PROVE  (Others(t) /\ Session(t))'
  <2>1. pc[t] # "idle" /\ (Others(t) => Others(t)')
    <3> USE DEF Types, Numbers
    <3>1. CASE ConnectDevice(t)
      BY <3>1, ConnectDeviceFlow, Moves
    <3>2. CASE InitializeSDK(t)
      BY <3>2, InitializeSDKFlow, Moves
    <3>3. CASE LoginStep(t)
      BY <3>3, LoginStepFlow, Moves
    <3>4. CASE LoginTest(t)
      BY <3>4, LoginTestFlow, Moves
    <3>5. CASE GetChannelsInfo(t)
      BY <3>5, GetChannelsInfoFlow, Moves
    <3>6. CASE StartListen(t)
      BY <3>6, StartListenFlow, Moves
    <3>7. CASE RealPlay(t)
      BY <3>7, RealPlayFlow, Moves
    <3>8. CASE GetVideoEffect(t)
      BY <3>8, GetVideoEffectFlow, Moves
    <3>9. CASE ReadOptions(t)
      BY <3>9, ReadOptionsFlow, Moves
    <3>10. CASE PublishHandle(t)
      BY <3>10, PublishHandleFlow, Moves
    <3>11. CASE PublishRate(t)
      BY <3>11, PublishRateFlow, Moves
    <3>12. CASE PublishSize(t)
      BY <3>12, PublishSizeFlow, Moves
    <3>13. CASE LockFrame(t)
      BY <3>13, LockFrameFlow, Moves
    <3>14. CASE PrepareBuffer(t)
      BY <3>14, PrepareBufferFlow, Moves
    <3>15. CASE SetRealDataCallBack(t)
      BY <3>15, SetRealDataCallBackFlow, Moves
    <3>16. CASE GetCurrentChannelInfo(t)
      BY <3>16, GetCurrentChannelInfoFlow, Moves
    <3>17. CASE ComputeFormat(t)
      BY <3>17, ComputeFormatFlow, Moves
    <3> QED
      BY <1>4, <3>1, <3>2, <3>3, <3>4, <3>5, <3>6, <3>7, <3>8, <3>9, <3>10, <3>11, <3>12,
         <3>13, <3>14, <3>15, <3>16, <3>17
         DEF InCall, Connect, StartPlay
  <2>2. Others(t) /\ Session(t)
    BY <1>1, <1>2, <2>1
  <2> QED
    BY <1>4, <2>1, <2>2, SessionStep
<1>5. ASSUME NEW t \in Threads, CallGetMediaType(t)
      PROVE  (Others(t) /\ Session(t))'
  <2>1. Others(t) /\ Session(t)
    BY <1>3, <1>5 DEF CallGetMediaType
  <2>2. pc[t] = "idle" /\ pc'[t] = "connect" /\ Others(t)'
    BY <1>5, <2>1, CallGetMediaTypeFlow, Moves DEF Types
  <2>3. UNCHANGED <<LoginID, logins, plays, started>>
    BY <1>5 DEF CallGetMediaType, nodeVars, channelVars, sdkVars
  <2> QED
    BY <2>1, <2>2, <2>3, Unmoved DEF Idle
<1>6. CASE CallFillBuffer
  <2>1. Others(Worker) /\ Session(Worker)
    BY <1>0, <1>3, <1>6 DEF CallFillBuffer
  <2>2. pc[Worker] = "idle" /\ pc'[Worker] \in {"connect", "getFrame"} /\ Others(Worker)'
    BY <1>0, <1>6, <2>1, CallFillBufferFlow, Moves DEF Types
  <2>3. UNCHANGED <<LoginID, logins, plays, started>>
    BY <1>6 DEF CallFillBuffer, nodeVars, channelVars, sdkVars
  <2> QED
    BY <1>0, <2>1, <2>2, <2>3, Unmoved DEF Idle
<1>7. CASE GetCurrentChannelFrame
  <2>1. /\ pc[Worker] \in {"getFrame", "copy"} /\ pc'[Worker] \in {"idle", "lockCopy"}
        /\ Others(Worker) => Others(Worker)'
    BY <1>0, <1>7, GetCurrentChannelFrameFlow, Moves DEF Types
  <2>2. Others(Worker) /\ Session(Worker)
    BY <1>0, <1>1, <1>2, <2>1
  <2>3. UNCHANGED <<LoginID, logins, plays, started>>
    BY <1>7 DEF GetCurrentChannelFrame, nodeVars, channelVars, sdkVars
  <2>4. local'[Worker].rate = local[Worker].rate /\ local'[Worker].size = local[Worker].size
    BY <1>0, <1>7, GetCurrentChannelFrameFlow DEF Types
  <2>5. {pc[Worker], pc'[Worker]} \subseteq Idle
    BY <2>1 DEF Idle
  <2> QED
    BY <1>0, <2>1, <2>2, <2>3, <2>4, <2>5, Unmoved
<1>8. CASE UpdateVideoFrame
  <2>1. \A u \in Threads : pc'[u] = pc[u]
    BY <1>0, <1>8 DEF UpdateVideoFrame, Goto, Types, PcType
  <2>2. UNCHANGED <<LoginID, logins, plays, started>>
    BY <1>8 DEF UpdateVideoFrame, nodeVars, channelVars, sdkVars
  <2> QED
    BY <1>1, <2>1, <2>2, Unmoved DEF Others
<1>9. CASE UNCHANGED vars \/ \E t \in Threads : DivideByZero(t)
  <2>1. UNCHANGED <<LoginID, logins, plays, started, pc>>
    BY <1>9 DEF DivideByZero, vars, nodeVars, channelVars, sdkVars
  <2> QED
    BY <1>1, <2>1, Unmoved DEF Others
<1> QED
  BY <1>0, <1>4, <1>5, <1>6, <1>7, <1>8, <1>9, Zenon DEF Next

\* While calls do not overlap, session and channel are as the one call in progress
\* expects them.
THEOREM SerialInvariance == Spec => [](Types /\ Serial)
<1>1. Types /\ Frame /\ Serial /\ [Next]_vars => Types' /\ Frame' /\ Serial'
  BY FrameStep, SerialStep
<1> QED
  BY <1>1, FrameInit, SerialInit, PTL DEF Spec

\* While calls do not overlap there is one login at most, known to the device, and
\* one channel at most that plays, through every failure and every retry.
THEOREM OneSessionAlways == Spec => []OneSessionSerially
<1>1. Types /\ Serial => OneSessionSerially
  <2> SUFFICES ASSUME Types, Serial, serial PROVE OneSession
    BY DEF OneSessionSerially
  <2>1. PICK h \in Nat : logins \subseteq {LoginID} /\ plays \subseteq {h}
    BY DEF Serial, Session
  <2>2. IsFiniteSet({h}) /\ Cardinality({h}) = 1
    BY FS_Singleton
  <2>3. Cardinality(plays) <= 1
    BY <2>1, <2>2, FS_Subset
  <2> QED
    BY <2>1, <2>3 DEF OneSession
<1> QED
  BY <1>1, SerialInvariance, PTL

\* If the two calls between the login and StartPlay do not fail, a caller that was
\* told the device is connected finds StartPlay called for this very login.
THEOREM ConnectedAsAWhole ==
    ASSUME {"Config", "Listen"} \cap Faults = {}
    PROVE  Spec => []ConnectedOnce
<1>1. Types /\ Serial => StartedWhenConnected
  <2> SUFFICES ASSUME Types, Serial, serial, NEW t \in Threads,
                      pc[t] \in {"getInfo", "copyInfo", "format"}
               PROVE  LoginID \in started
    BY DEF StartedWhenConnected
  <2>1. Session(t)
    BY DEF Serial, Others
  <2> QED
    BY <2>1 DEF Session, LoggingIn, Opening, Idle
<1> QED
  BY <1>1, OneSessionAlways, SerialInvariance, PTL DEF ConnectedOnce
=============================================================================
