----------------------------- MODULE PinConnect ------------------------------
(***************************************************************************)
(* The connection of the video pin and its media type: CBasePin's Connect, *)
(* AgreeMediaType, TryMediaTypes, AttemptConnection and Disconnect and     *)
(* CBaseOutputPin's CompleteConnect and BreakConnect                       *)
(* (baseclasses/amfilter.cpp), with CDahuaSourceStream's CheckMediaType,   *)
(* GetMediaType, SetFormat and GetStreamCaps (Filter/SourceStream.cpp).    *)
(*                                                                         *)
(* m_mt is the type of the connection, the application's choice, and the   *)
(* variable GetStreamCaps works in.  Connect and Disconnect hold the pin's *)
(* lock; SetFormat and GetStreamCaps hold none, and write m_mt member by   *)
(* member: where calls may overlap, what Connect reads of it is open.  The *)
(* receiving pin, the filter graph and the device are the environment.     *)
(***************************************************************************)
EXTENDS Naturals, Sequences

CONSTANTS
    Foreign,        \* types of a size the device does not have, RGB24 or RGB32
    Unsupported,    \* types of any other kind
    Offers,         \* sequences of types a receiver's enumerator may give
    Modes,          \* {TRUE}: calls do not overlap, {FALSE}: they may
    AllocatorMayFail

\* GetMediaType: position 0 stands for 2, RGB24; position 1 is RGB32; after
\* position 2 there are no more items.
Own == <<"RGB24", "RGB32", "RGB24">>

NoType == "GUID_NULL"
Supported == {"RGB24", "RGB32"} \cup Foreign
Types == Supported \cup Unsupported

ASSUME PinConnectAssumption ==
    /\ {"RGB24", "RGB32"} \cap (Foreign \cup Unsupported) = {}
    /\ Foreign \cap Unsupported = {} /\ NoType \notin Types
    /\ Offers \subseteq Seq(Types)
    /\ Modes \subseteq BOOLEAN /\ AllocatorMayFail \in BOOLEAN

VARIABLES
    serial,         \* SetFormat and GetStreamCaps are not called during Connect
    m_mt,
    m_Connected,    \* the pin has a peer
    m_pAllocator,   \* the type the connection's buffers are sized for, or NoType
    active,         \* the filter is not stopped
    online,         \* the device is connected and its channel plays
    pc, phase,      \* of Connect: its label; whose types it tries
    todo, type,     \* of Connect: the types to come; the one that is tried
    reconnect,      \* the graph has been asked to reconnect the pin
    fresh,          \* history: no application and no connection has chosen m_mt
    accepts, offers, rType  \* the receiver: what it takes, offers and has got

connectVars  == <<pc, phase, todo, type>>
receiverVars == <<accepts, offers, rType>>
pinVars == <<serial, m_mt, m_Connected, m_pAllocator, active, online, connectVars,
             reconnect, fresh, receiverVars>>

PinInit ==
    /\ serial \in Modes
    /\ m_mt = NoType /\ m_Connected = FALSE /\ m_pAllocator = NoType
    /\ active = FALSE /\ online = FALSE /\ reconnect = FALSE
    /\ pc = "idle" /\ phase = "none" /\ todo = <<>> /\ type = NoType
    /\ fresh = TRUE /\ accepts \in SUBSET Types /\ offers \in Offers /\ rType = NoType
-----------------------------------------------------------------------------
\* Mutant: the current type does not matter.
AnyCurrentType(t) == TRUE

\* "then it must be the same as our current": once m_mt has been set CheckMediaType
\* takes no other type.
IsCurrentType(t) == m_mt # NoType => t = m_mt

CheckMediaType(t) == t \in Supported /\ IsCurrentType(t)

\* CheckMediaType may return ok: with calls that overlap, m_mt may be half written
\* when the type is compared with it.
CheckReturns(t, ok) ==
    IF serial THEN ok <=> CheckMediaType(t) ELSE ok => t \in Supported

\* Connect holds the lock of the filter, so nothing else that takes it runs.
LockFree == pc = "idle"

\* Connect(pmt): a stopped, unconnected pin tries the given type, or without one
\* first what the receiver offers.
Connect(pmt) ==
    /\ LockFree /\ ~m_Connected /\ ~active
    /\ pc' = "next" /\ UNCHANGED type
    /\ IF pmt = NoType THEN phase' = "theirs" /\ todo' = offers
                       ELSE phase' = "given" /\ todo' = <<pmt>>
    /\ UNCHANGED <<serial, fresh, m_mt, m_Connected, m_pAllocator, active, online,
                   reconnect, receiverVars>>

\* TryMediaTypes takes the next type.  At the end of the receiver's types
\* AgreeMediaType goes on with the pin's own, which the enumerator gets from
\* GetMediaType and which need the device; after them Connect has failed.
NextType ==
    /\ pc = "next"
    /\ \/ /\ todo # <<>>
          /\ type' = Head(todo) /\ todo' = Tail(todo) /\ pc' = "check"
          /\ UNCHANGED phase
       \/ /\ todo = <<>> /\ phase = "theirs"
          /\ IF online THEN phase' = "own" /\ todo' = Own
                       ELSE phase' = "offline" /\ UNCHANGED todo
          /\ UNCHANGED <<pc, type>>
       \/ /\ todo = <<>> /\ phase # "theirs"
          /\ pc' = "failed" /\ UNCHANGED <<phase, todo, type>>
    /\ UNCHANGED <<serial, fresh, m_mt, m_Connected, m_pAllocator, active, online,
                   reconnect, receiverVars>>

\* Connect returns its failure.
ConnectFails ==
    /\ pc = "failed" /\ pc' = "idle"
    /\ UNCHANGED <<serial, fresh, m_mt, m_Connected, m_pAllocator, active, online,
                   phase, todo, type, reconnect, receiverVars>>

\* AttemptConnection checks the type, and the pin looks connected from then on.
Check ==
    /\ pc = "check"
    /\ \E ok \in BOOLEAN :
          /\ CheckReturns(type, ok)
          /\ m_Connected' = ok /\ pc' = IF ok THEN "set" ELSE "next"
    /\ UNCHANGED <<serial, fresh, m_mt, m_pAllocator, active, online, phase, todo,
                   type, reconnect, receiverVars>>

\* SetMediaType.
SetType ==
    /\ pc = "set" /\ m_mt' = type /\ pc' = "receive"
    /\ UNCHANGED <<serial, fresh, m_Connected, m_pAllocator, active, online, phase,
                   todo, type, reconnect, receiverVars>>

\* "If failed then undo our state": BreakConnect, and no peer.  m_mt remains.
UndoConnected == m_Connected' = FALSE

\* The receiver takes the type in its ReceiveConnection, or refuses it.
Receive ==
    /\ pc = "receive"
    /\ IF type \in accepts
         THEN rType' = type /\ pc' = "complete" /\ UNCHANGED m_Connected
         ELSE UndoConnected /\ pc' = "next" /\ UNCHANGED rType
    /\ UNCHANGED <<serial, fresh, m_mt, m_pAllocator, active, online, phase, todo,
                   type, reconnect, accepts, offers>>

\* Mutant: the buffers are sized for the pin's preferred type.
PreferredType == Own[1]

\* DecideBufferSize sizes the buffers for m_mt, whatever it reads of it.
BufferType == m_mt
BufferTypes == IF serial THEN {BufferType} ELSE Types

\* Mutant: the receiver is not told that the connection is not completed.
KeepReceiver == UNCHANGED rType

\* pReceivePin->Disconnect().
DisconnectReceiver == rType' = NoType

\* CompleteConnect decides the allocator; if that fails the receiver is
\* disconnected and the attempt undone.
Complete ==
    /\ pc = "complete"
    /\ \/ /\ m_pAllocator' \in BufferTypes /\ pc' = "idle" /\ fresh' = FALSE
          /\ UNCHANGED <<m_Connected, rType>>
       \/ /\ AllocatorMayFail
          /\ DisconnectReceiver /\ UndoConnected /\ pc' = "next"
          /\ UNCHANGED <<m_pAllocator, fresh>>
    /\ UNCHANGED <<serial, m_mt, active, online, phase, todo, type, reconnect,
                   accepts, offers>>

\* BreakConnect releases the allocator and the peer; m_mt remains.
BothDisconnected == m_Connected' = FALSE /\ m_pAllocator' = NoType /\ rType' = NoType

\* Disconnect of both pins; only a stopped filter's pin can be disconnected.
Disconnect ==
    /\ LockFree /\ m_Connected /\ ~active
    /\ BothDisconnected /\ reconnect' = FALSE
    /\ UNCHANGED <<serial, fresh, m_mt, active, online, connectVars, accepts, offers>>
-----------------------------------------------------------------------------
\* SetFormat(pmt): a type that is accepted is saved, and a connected pin is to be
\* reconnected.
SetFormat(t) ==
    /\ serial => LockFree
    /\ CheckReturns(t, TRUE) /\ m_mt' = t /\ fresh' = FALSE
    /\ reconnect' = (reconnect \/ m_Connected)
    /\ UNCHANGED <<serial, m_Connected, m_pAllocator, active, online, connectVars,
                   receiverVars>>

\* SetFormat(NULL) leaves the type as it is.
SetFormatNull ==
    /\ m_Connected /\ (serial => LockFree) /\ reconnect' = TRUE
    /\ UNCHANGED <<serial, fresh, m_mt, m_Connected, m_pAllocator, active, online,
                   connectVars, receiverVars>>

\* GetStreamCaps: GetMediaType writes the type into m_mt; position 3 changes
\* nothing, and without the device the call fails before it writes.
GetStreamCaps(iIndex) ==
    /\ online /\ (serial => LockFree)
    /\ m_mt' = Own[iIndex + 1] /\ fresh' = FALSE
    /\ UNCHANGED <<serial, m_Connected, m_pAllocator, active, online, connectVars,
                   reconnect, receiverVars>>
-----------------------------------------------------------------------------
\* The graph, when the filter is stopped, disconnects the pins and connects them
\* again without a type.
GraphReconnects ==
    /\ reconnect /\ LockFree /\ m_Connected /\ ~active
    /\ BothDisconnected /\ reconnect' = FALSE
    /\ pc' = "next" /\ phase' = "theirs" /\ todo' = offers
    /\ UNCHANGED <<serial, fresh, m_mt, active, online, type, accepts, offers>>

\* Run and Stop of the filter, under its lock.
SetState ==
    /\ LockFree /\ active' = ~active
    /\ UNCHANGED <<serial, fresh, m_mt, m_Connected, m_pAllocator, online,
                   connectVars, reconnect, receiverVars>>

\* The device gets connected; nothing disconnects it.
DeviceConnects ==
    /\ ~online /\ online' = TRUE
    /\ UNCHANGED <<serial, fresh, m_mt, m_Connected, m_pAllocator, active,
                   connectVars, reconnect, receiverVars>>

Connecting == NextType \/ ConnectFails \/ Check \/ SetType \/ Receive \/ Complete

PinNext ==
    \/ Connecting \/ GraphReconnects \/ SetFormatNull
    \/ \E t \in Types \cup {NoType} : Connect(t)
    \/ Disconnect
    \/ \E t \in Types : SetFormat(t)
    \/ \E i \in 0..2 : GetStreamCaps(i)
    \/ SetState \/ DeviceConnects

PinSpec == PinInit /\ [][PinNext]_pinVars
-----------------------------------------------------------------------------
\* Types; and during Connect the pin looks connected exactly from the check of a
\* type to the end of its attempt, and has no allocator yet.
PinTypeOK ==
    /\ serial \in Modes /\ {m_mt, m_pAllocator, type, rType} \subseteq Types \cup {NoType}
    /\ {m_Connected, active, online, reconnect, fresh} \subseteq BOOLEAN
    /\ pc \in {"idle", "next", "failed", "check", "set", "receive", "complete"}
    /\ phase \in {"none", "given", "theirs", "own", "offline"} /\ todo \in Seq(Types)
    /\ accepts \subseteq Types /\ offers \in Offers
    /\ pc # "idle" => /\ m_Connected <=> pc \in {"set", "receive", "complete"}
                      /\ m_pAllocator = NoType /\ ~active

\* When Connect is over either both pins are connected and there is an allocator,
\* or neither is and there is none, whichever attempt failed at whichever step and
\* whatever SetFormat and GetStreamCaps do meanwhile.
NoHalfConnection ==
    pc = "idle" => /\ m_Connected <=> rType # NoType
                   /\ m_Connected <=> m_pAllocator # NoType

\* The buffers are sized for the type the receiver has been told, and remain so
\* although GetStreamCaps may change m_mt at any time later, while calls do not
\* overlap.
BuffersFit == serial /\ pc = "idle" /\ m_Connected => m_pAllocator = rType

\* Once m_mt is set it stays: no attempt of Connect with another type, no reconnection
\* and no SetFormat of a type replaces it, whatever the application and the receiver
\* ask for, as long as GetStreamCaps is only called in a stable state.
TypeSticks ==
    [][serial /\ m_mt # NoType /\ (Connecting \/ GraphReconnects \/ \E t \in Types : SetFormat(t))
          => m_mt' = m_mt]_pinVars

\* "NULL means reset to default type..." (SourceStream.cpp:280): afterwards there is
\* no type, or the one GetMediaType gives first.
NullResets == [][SetFormatNull => m_mt' \in {NoType, Own[1]}]_pinVars

\* "Media type of connection" (amfilter.h:346).
MediaTypeOfConnection == pc = "idle" /\ m_Connected => m_mt = rType

\* "Otherwise we enumerate and try all the input pin's types first and if that
\* fails we then enumerate and try all our preferred media types ... checking that
\* both pins will accept it" (amfilter.cpp:1919-1922): as long as nobody has chosen
\* the type, Connect does not fail while the receiver takes one the pin prefers.
ConnectFindsType ==
    pc = "failed" /\ phase = "own" /\ fresh => {"RGB24", "RGB32"} \cap accepts = {}
==============================================================================
