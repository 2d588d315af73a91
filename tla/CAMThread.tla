------------------------------ MODULE CAMThread ------------------------------
(***************************************************************************)
(* CAMThread (baseclasses/wxutil.cpp): a worker thread and the call        *)
(* protocol by which other threads talk to it.  CallWorker passes one      *)
(* parameter under m_AccessLock with a manual-reset event and waits for an *)
(* auto-reset one; the worker peeks at the request, possibly several       *)
(* times, and replies.  Here ThreadProc is any server that answers every   *)
(* request with a value that names it; SourceStream puts the ThreadProc of *)
(* CSourceStream in its place.                                             *)
(***************************************************************************)
CONSTANTS
    Clients,   \* threads that call
    Params,    \* requests (dwParam)
    Nobody     \* the lock is free

ASSUME CAMThreadAssumption == Nobody \notin Clients /\ "E_FAIL" \notin Params
                              /\ "none" \notin Params /\ "unset" \notin Params

VARIABLES
    m_hThread,                      \* the thread's handle is not NULL
    m_AccessLock,                   \* who owns it
    m_dwParam, m_dwReturnVal,
    m_EventSend, m_EventComplete,   \* signalled
    cpc, arg, result,               \* clients: label, dwParam, last result
    wpc, com, wnext                 \* worker: label, its copy of the request,
                                    \* and where it goes on after Reply

events == <<m_EventSend, m_EventComplete>>
values == <<m_dwParam, m_dwReturnVal>>
clientVars == <<cpc, arg, result>>
workerVars == <<wpc, com, wnext>>
vars == <<m_hThread, m_AccessLock, events, values, clientVars, workerVars>>

\* The constructor leaves m_dwParam and m_dwReturnVal uninitialised.
Init ==
    /\ m_hThread = FALSE /\ m_AccessLock = Nobody
    /\ m_dwParam = "unset" /\ m_dwReturnVal = "unset"
    /\ m_EventSend = FALSE /\ m_EventComplete = FALSE
    /\ cpc = [c \in Clients |-> "idle"] /\ arg = [c \in Clients |-> "unset"]
    /\ result = [c \in Clients |-> "none"]
    /\ wpc = "none" /\ com = "unset" /\ wnext = "none"
-----------------------------------------------------------------------------
\* CAutoLock lock(&m_AccessLock) can be taken.
LockFree == m_AccessLock = Nobody

\* Create: under the access lock, false if the thread exists; CreateThread may
\* fail.  The thread starts at the label "entry".
Create(c, entry, ok) ==
    /\ cpc[c] = "idle" /\ LockFree
    /\ ok => ~m_hThread
    /\ m_hThread' = (m_hThread \/ ok)
    /\ wpc' = IF ok THEN entry ELSE wpc
    /\ UNCHANGED <<m_AccessLock, events, values, clientVars, com, wnext>>

\* CallWorker takes the lock, and fails if there is no thread.
CallWorker(c, p) ==
    /\ cpc[c] = "idle" /\ LockFree
    /\ arg' = [arg EXCEPT ![c] = p]
    /\ IF m_hThread
         THEN /\ m_AccessLock' = c /\ cpc' = [cpc EXCEPT ![c] = "param"]
              /\ UNCHANGED result
         ELSE /\ result' = [result EXCEPT ![c] = "E_FAIL"]
              /\ UNCHANGED <<m_AccessLock, cpc>>
    /\ UNCHANGED <<m_hThread, events, values, workerVars>>

\* Mutant: the worker is signalled before the parameter is there.
SignalFirst(c) ==
    \/ /\ cpc[c] = "param" /\ m_EventSend' = TRUE
       /\ cpc' = [cpc EXCEPT ![c] = "send"]
       /\ UNCHANGED <<m_dwParam, m_EventComplete>>
    \/ /\ cpc[c] = "send" /\ m_dwParam' = arg[c]
       /\ cpc' = [cpc EXCEPT ![c] = "wait"]
       /\ UNCHANGED events

\* The parameter first, then m_EventSend.Set().
Send(c) ==
    \/ /\ cpc[c] = "param" /\ m_dwParam' = arg[c]
       /\ cpc' = [cpc EXCEPT ![c] = "send"]
       /\ UNCHANGED events
    \/ /\ cpc[c] = "send" /\ m_EventSend' = TRUE
       /\ cpc' = [cpc EXCEPT ![c] = "wait"]
       /\ UNCHANGED <<m_dwParam, m_EventComplete>>

\* m_EventComplete.Wait() ends and resets the event.
WaitComplete(c) ==
    /\ cpc[c] = "wait" /\ m_EventComplete
    /\ m_EventComplete' = FALSE
    /\ cpc' = [cpc EXCEPT ![c] = "return"]
    /\ UNCHANGED <<m_EventSend, m_dwParam>>

\* The reply is read, still under the lock, and the lock released.
ReturnReply(c) ==
    /\ cpc[c] = "return"
    /\ result' = [result EXCEPT ![c] = m_dwReturnVal]
    /\ cpc' = [cpc EXCEPT ![c] = "idle"] /\ m_AccessLock' = Nobody
    /\ UNCHANGED <<events, m_dwParam, arg>>

\* A step of a client inside CallWorker.
InCall(c) ==
    /\ \/ (Send(c) \/ WaitComplete(c)) /\ UNCHANGED <<m_AccessLock, arg, result>>
       \/ ReturnReply(c)
    /\ UNCHANGED <<m_hThread, m_dwReturnVal, workerVars>>
-----------------------------------------------------------------------------
\* GetRequest and a successful CheckRequest: the worker copies the request and
\* leaves the event signalled until it replies.
TakeRequest(from, to) ==
    /\ wpc = from /\ m_EventSend
    /\ com' = m_dwParam /\ wpc' = to
    /\ UNCHANGED <<m_hThread, m_AccessLock, events, values, clientVars, wnext>>

\* Reply(dw) begins with the return value; the worker goes on at "next" after it.
Reply(dw, next) ==
    /\ m_dwReturnVal' = dw /\ wpc' = "reset" /\ wnext' = next
    /\ UNCHANGED <<m_hThread, m_AccessLock, events, m_dwParam, clientVars, com>>

\* Mutant: the client is told before the request is withdrawn.
CompleteFirst ==
    \/ wpc = "reset" /\ m_EventComplete' = TRUE /\ wpc' = "complete" /\ UNCHANGED m_EventSend
    \/ wpc = "complete" /\ m_EventSend' = FALSE /\ wpc' = wnext /\ UNCHANGED m_EventComplete

\* Then m_EventSend.Reset() and m_EventComplete.Set(), in this order.
ResetThenComplete ==
    \/ wpc = "reset" /\ m_EventSend' = FALSE /\ wpc' = "complete" /\ UNCHANGED m_EventComplete
    \/ wpc = "complete" /\ m_EventComplete' = TRUE /\ wpc' = wnext /\ UNCHANGED m_EventSend

InReply ==
    /\ ResetThenComplete
    /\ UNCHANGED <<m_hThread, m_AccessLock, values, clientVars, com, wnext>>
-----------------------------------------------------------------------------
\* A ThreadProc that takes a request, looks at it as often as it likes, and
\* answers it.
Serve ==
    \/ TakeRequest("request", "serve")
    \/ TakeRequest("serve", "serve")
    \/ wpc = "serve" /\ Reply(com, "request")
    \/ InReply

Call(c) ==
    \/ \E ok \in BOOLEAN : Create(c, "request", ok)
    \/ \E p \in Params : CallWorker(c, p)

Next == Serve \/ \E c \in Clients : InCall(c) \/ Call(c)

Spec == Init /\ [][Next]_vars

\* The worker and the clients inside a call are scheduled; the worker does not
\* look at a request for ever.
FairSpec ==
    /\ Spec
    /\ WF_vars(TakeRequest("request", "serve"))
    /\ WF_vars(wpc = "serve" /\ Reply(com, "request")) /\ WF_vars(InReply)
    /\ \A c \in Clients : WF_vars(InCall(c))
-----------------------------------------------------------------------------
ClientPCs == {"idle", "param", "send", "wait", "return"}
WorkerPCs == {"none", "request", "serve", "reset", "complete"}

\* The values of the variables; the access lock is owned by the client that is
\* inside a call, so at most one is.
TypeOK ==
    /\ m_hThread \in BOOLEAN /\ m_AccessLock \in Clients \cup {Nobody}
    /\ {m_dwParam, m_dwReturnVal, com} \subseteq Params \cup {"unset"}
    /\ m_EventSend \in BOOLEAN /\ m_EventComplete \in BOOLEAN
    /\ cpc \in [Clients -> ClientPCs] /\ arg \in [Clients -> Params \cup {"unset"}]
    /\ result \in [Clients -> Params \cup {"none", "E_FAIL"}]
    /\ wpc \in WorkerPCs /\ wnext \in {"none", "request"}
    /\ \A c \in Clients : cpc[c] # "idle" <=> m_AccessLock = c
    /\ \A c \in Clients : cpc[c] # "idle" => arg[c] \in Params

\* A call returns the worker's answer to its own request, not to that of an
\* earlier call, although one parameter, one return value and two events are
\* shared by all of them (wxutil.cpp:158-179).
OwnReply ==
    \A c \in Clients : cpc[c] = "idle" /\ result[c] \notin {"none", "E_FAIL"}
                          => result[c] = arg[c]

\* The worker sees a request only while its caller waits for the answer: once
\* the client has been told, CheckRequest fails (wxutil.cpp:209-214).
RequestOnlyWhileCalled ==
    /\ m_EventSend => \E c \in Clients : cpc[c] = "wait"
    /\ m_EventComplete => ~m_EventSend

\* Every call returns.
CallReturns == \A c \in Clients : cpc[c] # "idle" ~> cpc[c] = "idle"

\* Where a client is in the abstract call: its answer exists once the worker
\* has begun to reply.
Phase(c) ==
    CASE cpc[c] = "idle" -> "idle"
      [] cpc[c] = "return" \/ (cpc[c] = "wait"
            /\ (m_EventComplete \/ wpc \in {"reset", "complete"})) -> "answered"
      [] OTHER -> "asked"

Rpc == INSTANCE WorkerCall WITH
          phase <- [c \in Clients |-> Phase(c)], request <- arg, answer <- result

\* The protocol implements the abstract call.
ImplementsCall == Rpc!CallSpec
=============================================================================
