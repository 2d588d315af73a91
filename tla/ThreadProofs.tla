---------------------------- MODULE ThreadProofs ----------------------------
(***************************************************************************)
(* Proofs about the two threads of the base classes: CAMThread's worker,   *)
(* for any number of clients and any requests, and the reference clock's   *)
(* advise thread, for any packets, times, periods and deltas.              *)
(*                                                                         *)
(* A call of the worker returns the answer to its own request.  The        *)
(* clock's chains are a list in the order of its times and a cache, no     *)
(* advise is slept through, and the two make an alarm clock.               *)
(***************************************************************************)
EXTENDS CAMThread, ReferenceClock, SequenceTheorems, FiniteSetTheorems, WellFoundedInduction, TLAPS

-----------------------------------------------------------------------------
(* CAMThread.                                                               *)

\* The hand-over in progress.  A client past "param" has its request in
\* m_dwParam; the worker deals with a request only while its client waits with
\* the request signalled and not answered; a signalled completion and a client
\* about to return go with the answer to the request in m_dwParam.
Handover ==
    /\ \A c \in Clients : cpc[c] \in {"send", "wait", "return"} => m_dwParam = arg[c]
    /\ m_EventSend \/ m_EventComplete => \E c \in Clients : cpc[c] = "wait"
    /\ m_EventSend => ~m_EventComplete
    /\ wpc = "serve" => m_EventSend /\ com = m_dwParam
    /\ wpc = "reset" => m_EventSend /\ m_dwReturnVal = m_dwParam
    /\ wpc = "complete" => /\ ~m_EventSend /\ ~m_EventComplete
                           /\ m_dwReturnVal = m_dwParam
                           /\ \E c \in Clients : cpc[c] = "wait"
    /\ wpc \in {"reset", "complete"} => wnext = "request"
    /\ m_EventComplete => m_dwReturnVal = m_dwParam /\ wpc \in {"none", "request"}
    /\ \A c \in Clients : cpc[c] = "return" =>
            m_dwReturnVal = arg[c] /\ ~m_EventSend /\ ~m_EventComplete

CallInv == TypeOK /\ Handover /\ OwnReply

\* Nothing is in progress at the start.
LEMMA InitCall == Init => CallInv
BY CAMThreadAssumption
   DEF Init, CallInv, TypeOK, Handover, OwnReply, ClientPCs, WorkerPCs

\* The access lock has one owner, so one client at a time is inside a call.
LEMMA OneCall ==
    ASSUME TypeOK, NEW c \in Clients, NEW d \in Clients, cpc[c] # "idle", cpc[d] # "idle"
    PROVE  c = d
BY DEF TypeOK

\* Every step keeps the hand-over in order.
LEMMA NextCall == CallInv /\ [Next]_vars => CallInv'
<1> SUFFICES ASSUME CallInv, [Next]_vars PROVE CallInv'
  OBVIOUS
<1> USE CAMThreadAssumption DEF CallInv, ClientPCs, WorkerPCs
<1>1. CASE UNCHANGED vars
  BY <1>1 DEF vars, events, values, clientVars, workerVars, TypeOK, Handover, OwnReply
<1>2. ASSUME NEW c \in Clients, NEW ok \in BOOLEAN, Create(c, "request", ok)
      PROVE  CallInv'
  BY <1>2 DEF Create, events, values, clientVars, TypeOK, Handover, OwnReply
<1>3. ASSUME NEW c \in Clients, NEW p \in Params, CallWorker(c, p) PROVE CallInv'
  BY <1>3 DEF CallWorker, LockFree, events, values, workerVars, TypeOK, Handover, OwnReply
<1>4. ASSUME NEW c \in Clients, InCall(c), Send(c) PROVE CallInv'
  <2>1. /\ UNCHANGED <<m_hThread, m_AccessLock, arg, result, m_dwReturnVal, wpc, com, wnext>>
        /\ cpc[c] \in {"param", "send"}
    BY <1>4 DEF InCall, Send, WaitComplete, ReturnReply, workerVars
  <2>2. /\ \A d \in Clients : cpc[d] # "idle" => d = c
        /\ ~m_EventSend /\ ~m_EventComplete /\ wpc \in {"none", "request"}
    BY <2>1, OneCall DEF Handover, TypeOK
  <2>3. CASE cpc[c] = "param"
    <3>1. m_dwParam' = arg[c] /\ cpc' = [cpc EXCEPT ![c] = "send"] /\ UNCHANGED events
      BY <1>4, <2>3 DEF Send
    <3> QED BY <2>1, <2>2, <2>3, <3>1 DEF events, TypeOK, Handover, OwnReply
  <2>4. CASE cpc[c] = "send"
    <3>1. /\ m_EventSend' = TRUE /\ cpc' = [cpc EXCEPT ![c] = "wait"]
          /\ UNCHANGED <<m_dwParam, m_EventComplete>>
      BY <1>4, <2>4 DEF Send
    <3> QED BY <2>1, <2>2, <2>4, <3>1 DEF TypeOK, Handover, OwnReply
  <2> QED BY <2>1, <2>3, <2>4
<1>5. ASSUME NEW c \in Clients, InCall(c), WaitComplete(c) PROVE CallInv'
  <2>1. /\ UNCHANGED <<m_hThread, m_AccessLock, arg, result, m_dwReturnVal, wpc, com, wnext>>
        /\ cpc[c] = "wait" /\ cpc' = [cpc EXCEPT ![c] = "return"]
        /\ m_EventComplete /\ m_EventComplete' = FALSE /\ UNCHANGED <<m_EventSend, m_dwParam>>
    BY <1>5 DEF InCall, Send, WaitComplete, ReturnReply, workerVars
  <2>2. \A d \in Clients : cpc[d] # "idle" => d = c
    BY <2>1, OneCall
  <2>3. TypeOK'
    BY <2>1 DEF TypeOK
  <2>4. Handover' /\ OwnReply'
    BY <2>1, <2>2 DEF TypeOK, Handover, OwnReply
  <2> QED BY <2>3, <2>4
<1>6. ASSUME NEW c \in Clients, InCall(c), ReturnReply(c) PROVE CallInv'
  <2>1. /\ UNCHANGED <<m_hThread, events, m_dwParam, arg, m_dwReturnVal, wpc, com, wnext>>
        /\ cpc[c] = "return" /\ cpc' = [cpc EXCEPT ![c] = "idle"]
        /\ result' = [result EXCEPT ![c] = m_dwReturnVal] /\ m_AccessLock' = Nobody
    BY <1>6 DEF InCall, Send, WaitComplete, ReturnReply, workerVars
  <2>2. \A d \in Clients : cpc[d] # "idle" => d = c
    BY <2>1, OneCall
  <2> QED BY <2>1, <2>2 DEF events, TypeOK, Handover, OwnReply
<1>7. ASSUME TakeRequest("request", "serve") \/ TakeRequest("serve", "serve")
      PROVE  CallInv'
  BY <1>7 DEF TakeRequest, events, values, clientVars, TypeOK, Handover, OwnReply
<1>8. ASSUME wpc = "serve", Reply(com, "request") PROVE CallInv'
  BY <1>8 DEF Reply, events, clientVars, TypeOK, Handover, OwnReply
<1>9. ASSUME InReply PROVE CallInv'
  <2>1. UNCHANGED <<m_hThread, m_AccessLock, values, clientVars, com, wnext>>
    BY <1>9 DEF InReply
  <2>2. CASE wpc = "reset" /\ m_EventSend' = FALSE /\ wpc' = "complete" /\ UNCHANGED m_EventComplete
    BY <2>1, <2>2 DEF values, clientVars, TypeOK, Handover, OwnReply
  <2>3. CASE wpc = "complete" /\ m_EventComplete' = TRUE /\ wpc' = wnext /\ UNCHANGED m_EventSend
    BY <2>1, <2>3 DEF values, clientVars, TypeOK, Handover, OwnReply
  <2> QED BY <1>9, <2>2, <2>3 DEF InReply, ResetThenComplete
<1> QED
  BY <1>1, <1>2, <1>3, <1>4, <1>5, <1>6, <1>7, <1>8, <1>9 DEF Next, Serve, Call, InCall

\* A call returns the answer to its own request.
THEOREM CallersGetTheirOwnReply == Spec => []OwnReply
<1>1. CallInv => OwnReply
  BY DEF CallInv
<1> QED BY <1>1, InitCall, NextCall, PTL DEF Spec

\* The variables have their types and one client at a time is inside a call.
THEOREM CAMThreadTypeCorrect == Spec => []TypeOK
<1>1. CallInv => TypeOK
  BY DEF CallInv
<1> QED BY <1>1, InitCall, NextCall, PTL DEF Spec

\* The worker sees a request only while its client waits, and never after the
\* client has been told.
THEOREM NoRequestAfterReply == Spec => []RequestOnlyWhileCalled
<1>1. CallInv => RequestOnlyWhileCalled
  BY DEF CallInv, Handover, RequestOnlyWhileCalled
<1> QED BY <1>1, InitCall, NextCall, PTL DEF Spec
-----------------------------------------------------------------------------
\* The phase of a client in the abstract call, by where it is in the protocol.
LEMMA PhaseIs ==
    ASSUME NEW c \in Clients, CallInv
    PROVE  /\ cpc[c] = "idle" => Phase(c) = "idle"
           /\ cpc[c] \in {"param", "send"} => Phase(c) = "asked"
           /\ cpc[c] = "return" => Phase(c) = "answered"
           /\ cpc[c] = "wait" /\ (m_EventComplete \/ wpc \in {"reset", "complete"})
                => Phase(c) = "answered"
           /\ cpc[c] = "wait" /\ ~m_EventComplete /\ wpc \notin {"reset", "complete"}
                => Phase(c) = "asked"
  BY DEF Phase

\* The same in the next state.
LEMMA PhaseWillBe ==
    ASSUME NEW c \in Clients, CallInv'
    PROVE  /\ cpc'[c] = "idle" => Phase(c)' = "idle"
           /\ cpc'[c] \in {"param", "send"} => Phase(c)' = "asked"
           /\ cpc'[c] = "return" => Phase(c)' = "answered"
           /\ cpc'[c] = "wait" /\ (m_EventComplete' \/ wpc' \in {"reset", "complete"})
                => Phase(c)' = "answered"
           /\ cpc'[c] = "wait" /\ ~m_EventComplete' /\ wpc' \notin {"reset", "complete"}
                => Phase(c)' = "asked"
  BY DEF Phase

\* A step that leaves every phase, request and answer alone is a stutter of the
\* abstract call.
LEMMA CallStutters ==
    ASSUME \A c \in Clients : Phase(c)' = Phase(c), UNCHANGED <<arg, result>>
    PROVE  UNCHANGED Rpc!callVars
  BY DEF Rpc!callVars

\* Every step of the protocol is a step of the abstract call, or none.
LEMMA StepImplements ==
    CallInv /\ CallInv' /\ [Next]_vars => [Rpc!CallNext]_(Rpc!callVars)
<1> SUFFICES ASSUME CallInv, CallInv', [Next]_vars
             PROVE  Rpc!CallNext \/ UNCHANGED Rpc!callVars
  BY DEF Rpc!callVars
<1>0. /\ cpc \in [Clients -> ClientPCs] /\ arg \in [Clients -> Params \cup {"unset"}]
      /\ result \in [Clients -> Params \cup {"none", "E_FAIL"}]
  BY DEF CallInv, TypeOK
<1>1. CASE UNCHANGED vars
  <2>1. \A c \in Clients : Phase(c)' = Phase(c)
    BY <1>1 DEF vars, events, clientVars, workerVars, Phase
  <2> QED BY <1>1, <2>1, CallStutters DEF vars, clientVars
<1>2. ASSUME NEW c \in Clients, NEW ok \in BOOLEAN, Create(c, "request", ok)
      PROVE  UNCHANGED Rpc!callVars
  <2>1. \A d \in Clients : Phase(d)' = Phase(d)
    BY <1>2 DEF Create, events, clientVars, CallInv, Handover, Phase
  <2> QED BY <1>2, <2>1, CallStutters DEF Create, clientVars
<1>3. ASSUME NEW c \in Clients, NEW p \in Params, CallWorker(c, p)
      PROVE  Rpc!CallNext
  <2>1. \A d \in Clients : cpc[d] = "idle" /\ Phase(d) = "idle"
    BY <1>3, PhaseIs, CAMThreadAssumption DEF CallWorker, LockFree, CallInv, TypeOK
  <2>2. CASE m_hThread
    <3>1. cpc' = [cpc EXCEPT ![c] = "param"] /\ arg' = [arg EXCEPT ![c] = p]
          /\ UNCHANGED result
      BY <1>3, <2>2 DEF CallWorker
    <3>2. \A d \in Clients : Phase(d)' = IF d = c THEN "asked" ELSE "idle"
      BY <1>0, <2>1, <3>1, PhaseWillBe
    <3>3. Rpc!Ask(c, p)
      BY <2>1, <3>1, <3>2 DEF Rpc!Ask
    <3> QED BY <3>3 DEF Rpc!CallNext
  <2>3. CASE ~m_hThread
    <3>1. result' = [result EXCEPT ![c] = "E_FAIL"] /\ arg' = [arg EXCEPT ![c] = p]
          /\ UNCHANGED cpc
      BY <1>3, <2>3 DEF CallWorker
    <3>2. \A d \in Clients : Phase(d)' = Phase(d)
      BY <2>1, <3>1, PhaseWillBe
    <3>3. Rpc!Fail(c, p)
      BY <2>1, <3>1, <3>2 DEF Rpc!Fail
    <3> QED BY <3>3 DEF Rpc!CallNext
  <2> QED BY <2>2, <2>3
<1>4. ASSUME NEW c \in Clients, InCall(c), Send(c) PROVE UNCHANGED Rpc!callVars
  <2>1. /\ cpc[c] \in {"param", "send"} /\ UNCHANGED <<arg, result, wpc, m_EventComplete>>
        /\ cpc' = [cpc EXCEPT ![c] = IF cpc[c] = "param" THEN "send" ELSE "wait"]
    BY <1>4 DEF InCall, Send, WaitComplete, ReturnReply, workerVars, events
  <2>2. \A d \in Clients : d # c => cpc[d] = "idle" /\ cpc'[d] = "idle"
    BY <1>0, <2>1, OneCall DEF CallInv
  <2>3. ~m_EventComplete /\ wpc \notin {"reset", "complete"}
    BY <2>1, <2>2 DEF CallInv, Handover, TypeOK
  <2>4. Phase(c) = "asked" /\ Phase(c)' = "asked"
    BY <1>0, <2>1, <2>3, PhaseIs, PhaseWillBe
  <2>5. \A d \in Clients : Phase(d)' = Phase(d)
    BY <2>2, <2>4, PhaseIs, PhaseWillBe
  <2> QED BY <2>1, <2>5, CallStutters
<1>5. ASSUME NEW c \in Clients, InCall(c), WaitComplete(c) PROVE UNCHANGED Rpc!callVars
  <2>1. /\ cpc[c] = "wait" /\ m_EventComplete /\ UNCHANGED <<arg, result>>
        /\ cpc' = [cpc EXCEPT ![c] = "return"]
    BY <1>5 DEF InCall, Send, WaitComplete, ReturnReply
  <2>2. \A d \in Clients : d # c => cpc[d] = "idle" /\ cpc'[d] = "idle"
    BY <1>0, <2>1, OneCall DEF CallInv
  <2>3. \A d \in Clients : Phase(d)' = Phase(d)
    BY <1>0, <2>1, <2>2, PhaseIs, PhaseWillBe
  <2> QED BY <2>1, <2>3, CallStutters
<1>6. ASSUME NEW c \in Clients, InCall(c), ReturnReply(c) PROVE Rpc!CallNext
  <2>1. /\ cpc[c] = "return" /\ cpc' = [cpc EXCEPT ![c] = "idle"] /\ UNCHANGED arg
        /\ result' = [result EXCEPT ![c] = m_dwReturnVal]
    BY <1>6 DEF InCall, Send, WaitComplete, ReturnReply
  <2>2. \A d \in Clients : d # c => cpc[d] = "idle" /\ cpc'[d] = "idle"
    BY <1>0, <2>1, OneCall DEF CallInv
  <2>3. m_dwReturnVal = arg[c]
    BY <2>1 DEF CallInv, Handover
  <2>4. \A d \in Clients : /\ Phase(d) = IF d = c THEN "answered" ELSE "idle"
                           /\ Phase(d)' = "idle"
    BY <1>0, <2>1, <2>2, PhaseIs, PhaseWillBe
  <2>5. Rpc!Return(c)
    BY <2>1, <2>3, <2>4 DEF Rpc!Return
  <2> QED BY <2>5 DEF Rpc!CallNext
<1>7. ASSUME TakeRequest("request", "serve") \/ TakeRequest("serve", "serve")
      PROVE  UNCHANGED Rpc!callVars
  <2>1. \A d \in Clients : Phase(d)' = Phase(d)
    BY <1>7 DEF TakeRequest, events, clientVars, Phase
  <2> QED BY <1>7, <2>1, CallStutters DEF TakeRequest, clientVars
<1>8. ASSUME wpc = "serve", Reply(com, "request") PROVE Rpc!CallNext
  <2>1. wpc' = "reset" /\ UNCHANGED <<cpc, arg, result, m_EventComplete>>
    BY <1>8 DEF Reply, clientVars, events
  <2>2. PICK c \in Clients : cpc[c] = "wait"
    BY <1>8 DEF CallInv, Handover
  <2>3. ~m_EventComplete /\ \A d \in Clients : d # c => cpc[d] = "idle"
    BY <1>8, <2>2, OneCall DEF CallInv, Handover
  <2>4. \A d \in Clients :
           /\ Phase(d) = IF d = c THEN "asked" ELSE "idle"
           /\ Phase(d)' = IF d = c THEN "answered" ELSE "idle"
    BY <1>8, <2>1, <2>2, <2>3, PhaseIs, PhaseWillBe
  <2>5. Rpc!Answer(c)
    BY <2>1, <2>4 DEF Rpc!Answer
  <2> QED BY <2>5 DEF Rpc!CallNext
<1>9. ASSUME InReply PROVE UNCHANGED Rpc!callVars
  <2>1. /\ wpc \in {"reset", "complete"} /\ UNCHANGED <<cpc, arg, result>>
        /\ wpc' = "complete" \/ m_EventComplete'
    BY <1>9 DEF InReply, ResetThenComplete, clientVars
  <2>2. \A d \in Clients : Phase(d)' = Phase(d)
    BY <1>0, <2>1, PhaseIs, PhaseWillBe DEF ClientPCs
  <2> QED BY <2>1, <2>2, CallStutters
<1> QED
  BY <1>1, <1>2, <1>3, <1>4, <1>5, <1>6, <1>7, <1>8, <1>9 DEF Next, Serve, Call, InCall

\* CAMThread implements the abstract call: for any clients and requests, each
\* request is answered once and its caller returns with the answer to it.
THEOREM ProtocolImplementsCall == Spec => ImplementsCall
<1>1. Init => Rpc!CallInit
  BY DEF Init, Rpc!CallInit, Phase
<1> QED BY <1>1, InitCall, NextCall, StepImplements, PTL
        DEF Spec, ImplementsCall, Rpc!CallSpec

-----------------------------------------------------------------------------
(* The reference clock: its two chains as functions.                        *)

\* f leads from "head" along the list L of n packets to "z", and from first along
\* the cache C of c packets to the end of it.  No packet is on either twice or on
\* both; those of X are on none, and the others lead nowhere.
Linked(f, n, L, first, c, C, X) ==
    /\ n \in Nat /\ c \in Nat /\ X \subseteq Packets
    /\ f \in [Nodes -> Nodes \cup {"null"}]
    /\ L \in [0 .. n + 1 -> Nodes] /\ C \in [1 .. c + 1 -> Packets \cup {"null"}]
    /\ L[0] = "head" /\ L[n + 1] = "z" /\ C[1] = first /\ C[c + 1] = "null"
    /\ \A i \in 1 .. n : L[i] \in Packets \ X
    /\ \A i \in 1 .. c : C[i] \in Packets \ X
    /\ \A i, j \in 1 .. n : L[i] = L[j] => i = j
    /\ \A i, j \in 1 .. c : C[i] = C[j] => i = j
    /\ \A i \in 1 .. n, j \in 1 .. c : L[i] # C[j]
    /\ \A i \in 0 .. n : f[L[i]] = L[i + 1]
    /\ \A i \in 1 .. c : f[C[i]] = C[i + 1]
    /\ f["z"] = "null"
    /\ \A p \in Packets \ X : (\A i \in 1 .. n : L[i] # p) /\ (\A i \in 1 .. c : C[i] # p)
                                => f[p] = "null"

\* A list with a packet more, behind its k-th node, and one without that behind it.
Longer(n, L, k, p) ==
    [i \in 0 .. n + 2 |-> IF i <= k THEN L[i] ELSE IF i = k + 1 THEN p ELSE L[i - 1]]

Shorter(n, L, k) == [i \in 0 .. n |-> IF i <= k THEN L[i] ELSE L[i + 1]]

\* A cache with a packet in front, and one without its first.
Pushed(c, C, p) == [i \in 1 .. c + 2 |-> IF i = 1 THEN p ELSE C[i - 1]]

Popped(c, C) == [i \in 1 .. c |-> C[i + 1]]

\* The ends of the chains are no packets.
LEMMA NodesApart ==
    /\ "head" \notin Packets /\ "z" \notin Packets /\ "null" \notin Packets /\ "null" \notin Nodes
    /\ Packets \subseteq Nodes /\ "head" \in Nodes /\ "z" \in Nodes
    /\ \A q \in Nodes : q \in Packets \/ q = "head" \/ q = "z"
  BY ReferenceClockAssumption DEF Nodes

\* The nodes of the list are different.
LEMMA NodesOnce ==
    ASSUME NEW f, NEW n, NEW L, NEW first, NEW c, NEW C, NEW X,
           Linked(f, n, L, first, c, C, X), NEW i \in 0 .. n + 1, NEW j \in 0 .. n + 1, L[i] = L[j]
    PROVE  i = j
<1>1. n \in Nat /\ (i \in 1 .. n \/ i = 0 \/ i = n + 1) /\ (j \in 1 .. n \/ j = 0 \/ j = n + 1)
  BY DEF Linked
<1>2. L[0] = "head" /\ L[n + 1] = "z" /\ \A k \in 1 .. n : L[k] # "head" /\ L[k] # "z"
  BY NodesApart DEF Linked
<1>3. "head" # "z"
  OBVIOUS
<1>4. CASE i \in 1 .. n /\ j \in 1 .. n
  BY <1>4 DEF Linked
<1> QED BY <1>1, <1>2, <1>3, <1>4

\* InsertAfter of a packet that is on neither chain.
LEMMA Inserting ==
    ASSUME NEW f, NEW n, NEW L, NEW first, NEW c, NEW C, NEW p \in Packets,
           Linked(f, n, L, first, c, C, {p}), NEW k \in 0 .. n
    PROVE  Linked([f EXCEPT ![p] = f[L[k]], ![L[k]] = p], n + 1, Longer(n, L, k, p),
                  first, c, C, {})
<1> DEFINE g == [f EXCEPT ![p] = f[L[k]], ![L[k]] = p]
           M == Longer(n, L, k, p)
<1>1. /\ n \in Nat /\ c \in Nat /\ k \in Nat /\ k <= n
      /\ f \in [Nodes -> Nodes \cup {"null"}]
      /\ L \in [0 .. n + 1 -> Nodes] /\ C \in [1 .. c + 1 -> Packets \cup {"null"}]
      /\ L[0] = "head" /\ L[n + 1] = "z" /\ C[1] = first /\ C[c + 1] = "null"
  BY DEF Linked
<1>2. \A i \in 0 .. n + 1 : L[i] # p /\ L[i] \in Nodes
  <2>1. ASSUME NEW i \in 0 .. n + 1 PROVE L[i] # p /\ L[i] \in Nodes
    <3>1. i = 0 \/ i = n + 1 \/ i \in 1 .. n
      BY <1>1
    <3> QED BY <3>1, <1>1, NodesApart DEF Linked
  <2> QED BY <2>1
<1>3. \A i \in 0 .. n + 1 : L[i] = L[k] => i = k
  <2>1. k \in 0 .. n + 1
    BY <1>1
  <2> QED BY <2>1, NodesOnce
<1>4. /\ M \in [0 .. n + 2 -> Nodes]
      /\ \A i \in 0 .. n + 2 : /\ i <= k => M[i] = L[i] /\ i \in 0 .. n + 1
                               /\ i = k + 1 => M[i] = p
                               /\ i > k + 1 => M[i] = L[i - 1] /\ i - 1 \in 0 .. n + 1
  <2>1. ASSUME NEW i \in 0 .. n + 2
        PROVE  /\ i <= k => M[i] = L[i] /\ i \in 0 .. n + 1
               /\ i = k + 1 => M[i] = p
               /\ i > k + 1 => M[i] = L[i - 1] /\ i - 1 \in 0 .. n + 1
    BY <1>1 DEF Longer
  <2>2. \A i \in 0 .. n + 2 : M[i] \in Nodes
    <3>1. ASSUME NEW i \in 0 .. n + 2 PROVE M[i] \in Nodes
      <4>1. i <= k \/ i = k + 1 \/ i > k + 1
        BY <1>1
      <4> QED BY <4>1, <2>1, <1>2, NodesApart
    <3> QED BY <3>1
  <2>3. M = [i \in 0 .. n + 2 |-> M[i]]
    BY DEF Longer
  <2> QED BY <2>1, <2>2, <2>3
<1>5. /\ g \in [Nodes -> Nodes \cup {"null"}] /\ g[p] = L[k + 1] /\ g[L[k]] = p
      /\ \A q \in Nodes : q # p /\ q # L[k] => g[q] = f[q]
  <2>1. L[k] \in Nodes /\ L[k] # p /\ p \in Nodes /\ f[L[k]] = L[k + 1] /\ L[k + 1] \in Nodes
    <3>1. k \in 0 .. n /\ k \in 0 .. n + 1 /\ k + 1 \in 0 .. n + 1
      BY <1>1
    <3> QED BY <3>1, <1>2, NodesApart DEF Linked
  <2> QED BY <1>1, <2>1
<1> HIDE DEF g, M
<1>6. \A i \in 1 .. n + 1 : M[i] \in Packets
  <2>1. ASSUME NEW i \in 1 .. n + 1 PROVE M[i] \in Packets
    <3>1. /\ i \in 0 .. n + 2 /\ (i <= k \/ i = k + 1 \/ i > k + 1)
          /\ (i <= k => i \in 1 .. n) /\ (i > k + 1 => i - 1 \in 1 .. n)
      BY <1>1
    <3>2. \A j \in 1 .. n : L[j] \in Packets
      BY DEF Linked
    <3> QED BY <3>1, <3>2, <1>4
  <2> QED BY <2>1
<1>7. \A i, j \in 1 .. n + 1 : M[i] = M[j] => i = j
  <2>1. ASSUME NEW i \in 1 .. n + 1, NEW j \in 1 .. n + 1, M[i] = M[j] PROVE i = j
    <3>1. /\ i \in 0 .. n + 2 /\ (i <= k \/ i = k + 1 \/ i > k + 1)
          /\ j \in 0 .. n + 2 /\ (j <= k \/ j = k + 1 \/ j > k + 1)
      BY <1>1
    <3>2. \A a, b \in 0 .. n + 1 : L[a] = L[b] => a = b
      BY NodesOnce
    <3>3. CASE i <= k
      <4>1. M[i] = L[i] /\ i \in 0 .. n + 1
        BY <1>4, <3>1, <3>3
      <4>2. CASE j <= k
        BY <1>4, <2>1, <3>1, <3>2, <4>1, <4>2
      <4>3. CASE j = k + 1
        BY <1>2, <1>4, <2>1, <3>1, <4>1, <4>3
      <4>4. CASE j > k + 1
        <5>1. M[j] = L[j - 1] /\ j - 1 \in 0 .. n + 1
          BY <1>4, <3>1, <4>4
        <5>2. i = j - 1
          BY <2>1, <3>2, <4>1, <5>1
        <5> QED BY <1>1, <3>3, <4>4, <5>2
      <4> QED BY <3>1, <4>2, <4>3, <4>4
    <3>4. CASE i = k + 1
      BY <1>2, <1>4, <2>1, <3>1, <3>4
    <3>5. CASE i > k + 1
      <4>1. M[i] = L[i - 1] /\ i - 1 \in 0 .. n + 1
        BY <1>4, <3>1, <3>5
      <4>2. CASE j <= k
        <5>1. M[j] = L[j] /\ j \in 0 .. n + 1
          BY <1>4, <3>1, <4>2
        <5>2. j = i - 1
          BY <2>1, <3>2, <4>1, <5>1
        <5> QED BY <1>1, <3>5, <4>2, <5>2
      <4>3. CASE j = k + 1
        BY <1>2, <1>4, <2>1, <3>1, <4>1, <4>3
      <4>4. CASE j > k + 1
        <5>1. M[j] = L[j - 1] /\ j - 1 \in 0 .. n + 1
          BY <1>4, <3>1, <4>4
        <5>2. i - 1 = j - 1
          BY <2>1, <3>2, <4>1, <5>1
        <5> QED BY <5>2
      <4> QED BY <3>1, <4>2, <4>3, <4>4
    <3> QED BY <3>1, <3>3, <3>4, <3>5
  <2> QED BY <2>1
<1>8. \A i \in 1 .. c : C[i] \in Packets /\ C[i] # p /\ g[C[i]] = C[i + 1]
  <2>1. ASSUME NEW i \in 1 .. c PROVE C[i] \in Packets /\ C[i] # p /\ g[C[i]] = C[i + 1]
    <3>1. C[i] \in Packets /\ C[i] # p /\ f[C[i]] = C[i + 1]
      BY DEF Linked
    <3>2. C[i] # L[k]
      <4>1. k = 0 \/ k \in 1 .. n
        BY <1>1
      <4> QED BY <4>1, <3>1, <1>1, NodesApart DEF Linked
    <3> QED BY <3>1, <3>2, <1>5, NodesApart
  <2> QED BY <2>1
<1>9. \A i \in 1 .. n + 1, j \in 1 .. c : M[i] # C[j]
  <2>1. ASSUME NEW i \in 1 .. n + 1, NEW j \in 1 .. c PROVE M[i] # C[j]
    <3>1. /\ i \in 0 .. n + 2 /\ (i <= k \/ i = k + 1 \/ i > k + 1)
          /\ (i <= k => i \in 1 .. n) /\ (i > k + 1 => i - 1 \in 1 .. n)
      BY <1>1
    <3>2. \A l \in 1 .. n : L[l] # C[j]
      BY DEF Linked
    <3> QED BY <3>1, <3>2, <1>4, <1>8
  <2> QED BY <2>1
<1>10. \A i \in 0 .. n + 1 : g[M[i]] = M[i + 1]
  <2>1. ASSUME NEW i \in 0 .. n + 1 PROVE g[M[i]] = M[i + 1]
    <3>1. /\ i \in 0 .. n + 2 /\ i + 1 \in 0 .. n + 2
          /\ (i < k \/ i = k \/ i = k + 1 \/ i > k + 1)
      BY <1>1
    <3>2. CASE i < k
      <4>1. /\ i <= k /\ i + 1 <= k /\ i \in 0 .. n /\ i \in 0 .. n + 1
        BY <1>1, <3>2
      <4>2. M[i] = L[i] /\ M[i + 1] = L[i + 1] /\ f[L[i]] = L[i + 1]
        BY <1>4, <3>1, <4>1 DEF Linked
      <4>3. L[i] # p /\ L[i] # L[k] /\ L[i] \in Nodes
        BY <1>2, <1>3, <3>2, <4>1
      <4> QED BY <1>5, <4>2, <4>3
    <3>3. CASE i = k
      <4>1. i <= k /\ i + 1 = k + 1
        BY <1>1, <3>3
      <4>2. M[i] = L[k] /\ M[i + 1] = p
        BY <1>4, <3>1, <3>3, <4>1
      <4> QED BY <1>5, <4>2
    <3>4. CASE i = k + 1
      <4>1. i + 1 > k + 1 /\ (i + 1) - 1 = k + 1
        BY <1>1, <3>4
      <4>2. M[i] = p /\ M[i + 1] = L[k + 1]
        BY <1>4, <3>1, <3>4, <4>1
      <4> QED BY <1>5, <4>2
    <3>5. CASE i > k + 1
      <4>1. /\ i + 1 > k + 1 /\ (i + 1) - 1 = (i - 1) + 1 /\ i - 1 \in 0 .. n
            /\ i - 1 \in 0 .. n + 1 /\ i - 1 # k
        BY <1>1, <3>5
      <4>2. M[i] = L[i - 1] /\ M[i + 1] = L[(i - 1) + 1] /\ f[L[i - 1]] = L[(i - 1) + 1]
        BY <1>4, <3>1, <3>5, <4>1 DEF Linked
      <4>3. L[i - 1] # p /\ L[i - 1] # L[k] /\ L[i - 1] \in Nodes
        BY <1>2, <1>3, <4>1
      <4> QED BY <1>5, <4>2, <4>3
    <3> QED BY <3>1, <3>2, <3>3, <3>4, <3>5
  <2> QED BY <2>1
<1>11. g["z"] = "null"
  <2>1. L[k] # "z" /\ p # "z"
    <3>1. k \in 0 .. n + 1 /\ n + 1 \in 0 .. n + 1 /\ k # n + 1
      BY <1>1
    <3> QED BY <1>1, <3>1, NodesOnce, NodesApart
  <2> QED BY <1>5, <2>1, NodesApart DEF Linked
<1>12. ASSUME NEW q \in Packets, \A i \in 1 .. n + 1 : M[i] # q, \A i \in 1 .. c : C[i] # q
       PROVE  g[q] = "null"
  <2>1. q # p
    <3>1. k + 1 \in 1 .. n + 1 /\ k + 1 \in 0 .. n + 2
      BY <1>1
    <3> QED BY <1>4, <1>12, <3>1
  <2>2. \A i \in 1 .. n : L[i] # q
    <3>1. ASSUME NEW i \in 1 .. n PROVE L[i] # q
      <4>1. /\ i \in 0 .. n + 2 /\ i + 1 \in 0 .. n + 2 /\ i \in 1 .. n + 1 /\ i + 1 \in 1 .. n + 1
            /\ (i <= k \/ i + 1 > k + 1) /\ (i + 1) - 1 = i
        BY <1>1
      <4> QED BY <1>4, <1>12, <4>1
    <3> QED BY <3>1
  <2>3. f[q] = "null"
    BY <1>12, <2>1, <2>2 DEF Linked
  <2>4. q # L[k]
    <3>1. k = 0 \/ k \in 1 .. n
      BY <1>1
    <3> QED BY <1>1, <2>2, <3>1, NodesApart
  <2> QED BY <1>5, <2>1, <2>3, <2>4, NodesApart
<1>13. M[0] = "head" /\ M[n + 2] = "z"
  <2>1. 0 \in 0 .. n + 2 /\ 0 <= k /\ n + 2 \in 0 .. n + 2 /\ n + 2 > k + 1 /\ (n + 2) - 1 = n + 1
    BY <1>1
  <2> QED BY <1>1, <1>4, <2>1
<1>14. (n + 1) + 1 = n + 2 /\ n + 1 \in Nat
  BY <1>1
<1>15. /\ M \in [0 .. (n + 1) + 1 -> Nodes] /\ M[(n + 1) + 1] = "z"
       /\ \A i, j \in 1 .. c : C[i] = C[j] => i = j
  BY <1>4, <1>13, <1>14 DEF Linked
<1>16. Linked(g, n + 1, M, first, c, C, {})
  BY <1>1, <1>5, <1>6, <1>7, <1>8, <1>9, <1>10, <1>11, <1>12, <1>13, <1>14, <1>15 DEF Linked
<1> QED BY <1>16 DEF g, M

\* RemoveNext: the packet behind the k-th node is on no chain then.
LEMMA Unlinking ==
    ASSUME NEW f, NEW n, NEW L, NEW first, NEW c, NEW C,
           Linked(f, n, L, first, c, C, {}), NEW k \in 0 .. n - 1
    PROVE  Linked([f EXCEPT ![L[k]] = f[L[k + 1]]], n - 1, Shorter(n, L, k),
                  first, c, C, {L[k + 1]})
<1> DEFINE p == L[k + 1]
           g == [f EXCEPT ![L[k]] = f[p]]
           M == Shorter(n, L, k)
<1>1. /\ n \in Nat /\ n - 1 \in Nat /\ c \in Nat /\ k \in Nat /\ k <= n - 1
      /\ f \in [Nodes -> Nodes \cup {"null"}]
      /\ L \in [0 .. n + 1 -> Nodes] /\ C \in [1 .. c + 1 -> Packets \cup {"null"}]
      /\ L[0] = "head" /\ L[n + 1] = "z" /\ C[1] = first /\ C[c + 1] = "null"
  BY DEF Linked
<1>2. /\ p \in Packets /\ L[k] \in Nodes /\ L[k] # "z" /\ f[p] = L[k + 2] /\ L[k + 2] \in Nodes
      /\ \A i \in 0 .. n + 1 : L[i] \in Nodes
  <2>1. /\ k + 1 \in 1 .. n /\ k \in 0 .. n + 1 /\ k + 1 \in 0 .. n /\ (k + 1) + 1 = k + 2
        /\ k + 2 \in 0 .. n + 1 /\ n + 1 \in 0 .. n + 1 /\ k # n + 1
    BY <1>1
  <2>2. \A i \in 0 .. n + 1 : L[i] \in Nodes
    BY <1>1
  <2>3. L[k + 1] \in Packets /\ f[L[k + 1]] = L[(k + 1) + 1]
    BY <2>1 DEF Linked
  <2>4. L[k] # "z"
    <3>1. L[k] = L[n + 1] => k = n + 1
      BY <2>1, NodesOnce
    <3> QED BY <1>1, <2>1, <3>1
  <2> QED BY <2>1, <2>2, <2>3, <2>4
<1>3. \A i, j \in 0 .. n + 1 : L[i] = L[j] => i = j
  BY NodesOnce
<1>4. /\ M \in [0 .. n -> Nodes]
      /\ \A i \in 0 .. n : /\ i <= k => M[i] = L[i] /\ i \in 0 .. n + 1
                           /\ i > k => M[i] = L[i + 1] /\ i + 1 \in 0 .. n + 1
  <2>1. ASSUME NEW i \in 0 .. n
        PROVE  /\ i <= k => M[i] = L[i] /\ i \in 0 .. n + 1
               /\ i > k => M[i] = L[i + 1] /\ i + 1 \in 0 .. n + 1
    BY <1>1 DEF Shorter
  <2>2. \A i \in 0 .. n : M[i] \in Nodes
    <3>1. ASSUME NEW i \in 0 .. n PROVE M[i] \in Nodes
      <4>1. i <= k \/ i > k
        BY <1>1
      <4> QED BY <4>1, <2>1, <1>2
    <3> QED BY <3>1
  <2>3. M = [i \in 0 .. n |-> M[i]]
    BY DEF Shorter
  <2> QED BY <2>1, <2>2, <2>3
<1>5. /\ g \in [Nodes -> Nodes \cup {"null"}] /\ g[L[k]] = L[k + 2]
      /\ \A q \in Nodes : q # L[k] => g[q] = f[q]
  BY <1>1, <1>2
<1> HIDE DEF g, M
\* Where the i-th node of the shorter list was.
<1>6. \A i \in 0 .. n : \E a \in 0 .. n + 1 :
          /\ M[i] = L[a] /\ (i <= k => a = i) /\ (i > k => a = i + 1) /\ a # k + 1
          /\ (i \in 1 .. n - 1 => a \in 1 .. n)
  <2>1. ASSUME NEW i \in 0 .. n
        PROVE  \E a \in 0 .. n + 1 :
                  /\ M[i] = L[a] /\ (i <= k => a = i) /\ (i > k => a = i + 1) /\ a # k + 1
                  /\ (i \in 1 .. n - 1 => a \in 1 .. n)
    <3>1. CASE i <= k
      <4>1. i \in 0 .. n + 1 /\ i # k + 1 /\ (i \in 1 .. n - 1 => i \in 1 .. n) /\ ~(i > k)
        BY <1>1, <3>1
      <4> QED BY <1>4, <3>1, <4>1
    <3>2. CASE i > k
      <4>1. /\ i + 1 \in 0 .. n + 1 /\ i + 1 # k + 1 /\ (i \in 1 .. n - 1 => i + 1 \in 1 .. n)
            /\ ~(i <= k)
        BY <1>1, <3>2
      <4> QED BY <1>4, <3>2, <4>1
    <3> QED BY <1>1, <3>1, <3>2
  <2> QED BY <2>1
<1>7. \A i \in 1 .. n - 1 : M[i] \in Packets \ {p}
  <2>1. ASSUME NEW i \in 1 .. n - 1 PROVE M[i] \in Packets \ {p}
    <3>1. i \in 0 .. n /\ k + 1 \in 0 .. n + 1
      BY <1>1
    <3>2. PICK a \in 0 .. n + 1 : M[i] = L[a] /\ a # k + 1 /\ a \in 1 .. n
      BY <1>6, <3>1
    <3> QED BY <1>3, <3>1, <3>2 DEF Linked
  <2> QED BY <2>1
<1>8. \A i, j \in 1 .. n - 1 : M[i] = M[j] => i = j
  <2>1. ASSUME NEW i \in 1 .. n - 1, NEW j \in 1 .. n - 1, M[i] = M[j] PROVE i = j
    <3>1. i \in 0 .. n /\ j \in 0 .. n
      BY <1>1
    <3>2. PICK a \in 0 .. n + 1 :
             M[i] = L[a] /\ (i <= k => a = i) /\ (i > k => a = i + 1)
      BY <1>6, <3>1
    <3>3. PICK b \in 0 .. n + 1 :
             M[j] = L[b] /\ (j <= k => b = j) /\ (j > k => b = j + 1)
      BY <1>6, <3>1
    <3>4. a = b
      BY <1>3, <2>1, <3>2, <3>3
    <3> QED BY <1>1, <3>2, <3>3, <3>4
  <2> QED BY <2>1
<1>9. \A i \in 1 .. c : C[i] \in Packets \ {p} /\ g[C[i]] = C[i + 1]
  <2>1. ASSUME NEW i \in 1 .. c PROVE C[i] \in Packets \ {p} /\ g[C[i]] = C[i + 1]
    <3>1. C[i] \in Packets /\ f[C[i]] = C[i + 1] /\ \A a \in 1 .. n : C[i] # L[a]
      BY DEF Linked
    <3>2. C[i] # L[k] /\ C[i] # p
      <4>1. (k = 0 \/ k \in 1 .. n) /\ k + 1 \in 1 .. n
        BY <1>1
      <4> QED BY <4>1, <3>1, <1>1, NodesApart
    <3> QED BY <3>1, <3>2, <1>5, NodesApart
  <2> QED BY <2>1
<1>10. \A i \in 1 .. n - 1, j \in 1 .. c : M[i] # C[j]
  <2>1. ASSUME NEW i \in 1 .. n - 1, NEW j \in 1 .. c PROVE M[i] # C[j]
    <3>1. i \in 0 .. n
      BY <1>1
    <3>2. PICK a \in 0 .. n + 1 : M[i] = L[a] /\ a \in 1 .. n
      BY <1>6, <3>1
    <3> QED BY <3>2 DEF Linked
  <2> QED BY <2>1
<1>11. \A i \in 0 .. n - 1 : g[M[i]] = M[i + 1]
  <2>1. ASSUME NEW i \in 0 .. n - 1 PROVE g[M[i]] = M[i + 1]
    <3>1. i \in 0 .. n /\ i + 1 \in 0 .. n /\ (i < k \/ i = k \/ i > k)
      BY <1>1
    <3>2. CASE i < k
      <4>1. i <= k /\ i + 1 <= k /\ i \in 0 .. n /\ i \in 0 .. n + 1 /\ k \in 0 .. n + 1 /\ i # k
        BY <1>1, <3>2
      <4>2. M[i] = L[i] /\ M[i + 1] = L[i + 1] /\ f[L[i]] = L[i + 1]
        BY <1>4, <3>1, <4>1 DEF Linked
      <4>3. L[i] # L[k] /\ L[i] \in Nodes
        BY <1>2, <1>3, <4>1
      <4> QED BY <1>5, <4>2, <4>3
    <3>3. CASE i = k
      <4>1. i <= k /\ i + 1 > k /\ (i + 1) + 1 = k + 2
        BY <1>1, <3>3
      <4>2. M[i] = L[k] /\ M[i + 1] = L[k + 2]
        BY <1>4, <3>1, <3>3, <4>1
      <4> QED BY <1>5, <4>2
    <3>4. CASE i > k
      <4>1. /\ i + 1 > k /\ i + 1 \in 0 .. n /\ i + 1 \in 0 .. n + 1 /\ k \in 0 .. n + 1
            /\ i + 1 # k
        BY <1>1, <3>4
      <4>2. M[i] = L[i + 1] /\ M[i + 1] = L[(i + 1) + 1] /\ f[L[i + 1]] = L[(i + 1) + 1]
        BY <1>4, <3>1, <3>4, <4>1 DEF Linked
      <4>3. L[i + 1] # L[k] /\ L[i + 1] \in Nodes
        BY <1>2, <1>3, <4>1
      <4> QED BY <1>5, <4>2, <4>3
    <3> QED BY <3>1, <3>2, <3>3, <3>4
  <2> QED BY <2>1
<1>12. g["z"] = "null"
  BY <1>2, <1>5, NodesApart DEF Linked
<1>13. ASSUME NEW q \in Packets \ {p}, \A i \in 1 .. n - 1 : M[i] # q, \A i \in 1 .. c : C[i] # q
       PROVE  g[q] = "null"
  <2>1. \A a \in 1 .. n : L[a] # q
    <3>1. ASSUME NEW a \in 1 .. n PROVE L[a] # q
      <4>1. a <= k \/ a = k + 1 \/ a > k + 1
        BY <1>1
      <4>2. CASE a <= k
        <5>1. a \in 0 .. n /\ a \in 1 .. n - 1
          BY <1>1, <4>2
        <5> QED BY <1>4, <1>13, <4>2, <5>1
      <4>3. CASE a > k + 1
        <5>1. a - 1 \in 0 .. n /\ a - 1 \in 1 .. n - 1 /\ a - 1 > k /\ (a - 1) + 1 = a
          BY <1>1, <4>3
        <5> QED BY <1>4, <1>13, <5>1
      <4> QED BY <1>13, <4>1, <4>2, <4>3
    <3> QED BY <3>1
  <2>2. f[q] = "null"
    BY <1>13, <2>1 DEF Linked
  <2>3. q # L[k]
    <3>1. k = 0 \/ k \in 1 .. n
      BY <1>1
    <3> QED BY <1>1, <2>1, <3>1, NodesApart
  <2> QED BY <1>5, <2>2, <2>3, NodesApart
<1>14. M[0] = "head" /\ M[n] = "z"
  <2>1. 0 \in 0 .. n /\ 0 <= k /\ n \in 0 .. n /\ n > k
    BY <1>1
  <2> QED BY <1>1, <1>4, <2>1
<1>15. /\ (n - 1) + 1 = n /\ {p} \subseteq Packets
       /\ \A i, j \in 1 .. c : C[i] = C[j] => i = j
  BY <1>1, <1>2 DEF Linked
<1>16. Linked(g, n - 1, M, first, c, C, {p})
  <2> HIDE DEF p
  <2> QED BY <1>1, <1>4, <1>5, <1>7, <1>8, <1>9, <1>10, <1>11, <1>12, <1>13, <1>14, <1>15
          DEF Linked
<1> QED BY <1>16 DEF g, M

\* Delete into the cache.
LEMMA Pushing ==
    ASSUME NEW f, NEW n, NEW L, NEW first, NEW c, NEW C, NEW p \in Packets,
           Linked(f, n, L, first, c, C, {p})
    PROVE  Linked([f EXCEPT ![p] = first], n, L, p, c + 1, Pushed(c, C, p), {})
<1> DEFINE g == [f EXCEPT ![p] = first]
           D == Pushed(c, C, p)
<1>1. /\ n \in Nat /\ c \in Nat
      /\ f \in [Nodes -> Nodes \cup {"null"}]
      /\ L \in [0 .. n + 1 -> Nodes] /\ C \in [1 .. c + 1 -> Packets \cup {"null"}]
      /\ L[0] = "head" /\ L[n + 1] = "z" /\ C[1] = first /\ C[c + 1] = "null"
      /\ \A i \in 1 .. n : L[i] \in Packets \ {p}
      /\ \A i \in 1 .. c : C[i] \in Packets \ {p}
  BY DEF Linked
<1>2. /\ first \in Nodes \cup {"null"} /\ g \in [Nodes -> Nodes \cup {"null"}] /\ g[p] = first
      /\ \A q \in Nodes : q # p => g[q] = f[q]
  <2>1. 1 \in 1 .. c + 1
    BY <1>1
  <2> QED BY <1>1, <2>1, NodesApart
<1>3. /\ D \in [1 .. c + 2 -> Packets \cup {"null"}] /\ D[1] = p
      /\ \A i \in 1 .. c + 1 : D[i + 1] = C[i] /\ i + 1 \in 1 .. c + 2
  <2>1. \A i \in 1 .. c + 2 : (i = 1 \/ i - 1 \in 1 .. c + 1) /\ D[i] = IF i = 1 THEN p ELSE C[i - 1]
    BY <1>1 DEF Pushed
  <2>2. \A i \in 1 .. c + 2 : D[i] \in Packets \cup {"null"}
    BY <1>1, <2>1
  <2>3. D = [i \in 1 .. c + 2 |-> D[i]]
    BY DEF Pushed
  <2>4. D[1] = p
    BY <1>1, <2>1
  <2>5. ASSUME NEW i \in 1 .. c + 1 PROVE D[i + 1] = C[i] /\ i + 1 \in 1 .. c + 2
    <3>1. i + 1 \in 1 .. c + 2 /\ i + 1 # 1 /\ (i + 1) - 1 = i
      BY <1>1
    <3> QED BY <2>1, <3>1
  <2> QED BY <2>2, <2>3, <2>4, <2>5
<1> HIDE DEF g, D
<1>4. \A i \in 1 .. c + 1 : D[i] \in Packets /\ (i # 1 => i - 1 \in 1 .. c /\ D[i] = C[i - 1])
  <2>1. ASSUME NEW i \in 1 .. c + 1
        PROVE  D[i] \in Packets /\ (i # 1 => i - 1 \in 1 .. c /\ D[i] = C[i - 1])
    <3>1. CASE i # 1
      <4>1. i - 1 \in 1 .. c /\ i - 1 \in 1 .. c + 1 /\ (i - 1) + 1 = i
        BY <1>1, <3>1
      <4> QED BY <1>1, <1>3, <4>1
    <3> QED BY <1>3, <3>1
  <2> QED BY <2>1
<1>5. \A i, j \in 1 .. c + 1 : D[i] = D[j] => i = j
  <2>1. ASSUME NEW i \in 1 .. c + 1, NEW j \in 1 .. c + 1, D[i] = D[j] PROVE i = j
    <3>1. CASE i = 1 \/ j = 1
      BY <1>1, <1>3, <1>4, <2>1, <3>1
    <3>2. CASE i # 1 /\ j # 1
      <4>1. i - 1 \in 1 .. c /\ j - 1 \in 1 .. c /\ C[i - 1] = C[j - 1]
        BY <1>4, <2>1, <3>2
      <4>2. i - 1 = j - 1
        BY <4>1 DEF Linked
      <4> QED BY <4>2
    <3> QED BY <3>1, <3>2
  <2> QED BY <2>1
<1>6. \A i \in 1 .. n, j \in 1 .. c + 1 : L[i] # D[j]
  <2>1. ASSUME NEW i \in 1 .. n, NEW j \in 1 .. c + 1 PROVE L[i] # D[j]
    <3>1. CASE j = 1
      BY <1>1, <1>3, <3>1
    <3>2. CASE j # 1
      BY <1>4, <3>2 DEF Linked
    <3> QED BY <3>1, <3>2
  <2> QED BY <2>1
<1>7. \A i \in 0 .. n : g[L[i]] = L[i + 1]
  <2>1. ASSUME NEW i \in 0 .. n PROVE g[L[i]] = L[i + 1]
    <3>1. (i = 0 \/ i \in 1 .. n) /\ i \in 0 .. n + 1
      BY <1>1
    <3>2. L[i] # p /\ L[i] \in Nodes /\ f[L[i]] = L[i + 1]
      BY <1>1, <3>1, NodesApart DEF Linked
    <3> QED BY <1>2, <3>2
  <2> QED BY <2>1
<1>8. \A i \in 1 .. c + 1 : g[D[i]] = D[i + 1]
  <2>1. ASSUME NEW i \in 1 .. c + 1 PROVE g[D[i]] = D[i + 1]
    <3>1. D[i + 1] = C[i]
      BY <1>3
    <3>2. CASE i = 1
      BY <1>1, <1>2, <1>3, <3>1, <3>2
    <3>3. CASE i # 1
      <4>1. i - 1 \in 1 .. c /\ D[i] = C[i - 1] /\ (i - 1) + 1 = i
        BY <1>4, <3>3
      <4>2. f[C[i - 1]] = C[(i - 1) + 1] /\ C[i - 1] # p /\ C[i - 1] \in Nodes
        BY <4>1, NodesApart DEF Linked
      <4> QED BY <1>2, <3>1, <4>1, <4>2
    <3> QED BY <3>2, <3>3
  <2> QED BY <2>1
<1>9. g["z"] = "null"
  BY <1>2, NodesApart DEF Linked
<1>10. ASSUME NEW q \in Packets, \A i \in 1 .. n : L[i] # q, \A i \in 1 .. c + 1 : D[i] # q
       PROVE  g[q] = "null"
  <2>1. q # p
    <3>1. 1 \in 1 .. c + 1
      BY <1>1
    <3> QED BY <1>3, <1>10, <3>1
  <2>2. \A i \in 1 .. c : C[i] # q
    <3>1. ASSUME NEW i \in 1 .. c PROVE C[i] # q
      <4>1. i \in 1 .. c + 1 /\ i + 1 \in 1 .. c + 1
        BY <1>1
      <4> QED BY <1>3, <1>10, <4>1
    <3> QED BY <3>1
  <2>3. f[q] = "null"
    BY <1>10, <2>1, <2>2 DEF Linked
  <2> QED BY <1>2, <2>1, <2>3, NodesApart
<1>11. (c + 1) + 1 = c + 2 /\ c + 1 \in Nat /\ D[c + 2] = "null"
  <2>1. c + 1 \in 1 .. c + 1 /\ (c + 1) + 1 = c + 2
    BY <1>1
  <2> QED BY <1>1, <1>3, <2>1
<1>12. \A i, j \in 1 .. n : L[i] = L[j] => i = j
  BY DEF Linked
<1>13. Linked(g, n, L, p, c + 1, D, {})
  BY <1>1, <1>2, <1>3, <1>4, <1>5, <1>6, <1>7, <1>8, <1>9, <1>10, <1>11, <1>12 DEF Linked
<1> QED BY <1>13 DEF g, D

\* Delete of a packet that is not kept.
LEMMA Dropping ==
    ASSUME NEW f, NEW n, NEW L, NEW first, NEW c, NEW C, NEW p \in Packets,
           Linked(f, n, L, first, c, C, {p})
    PROVE  Linked([f EXCEPT ![p] = "null"], n, L, first, c, C, {})
<1> DEFINE g == [f EXCEPT ![p] = "null"]
<1>1. /\ g \in [Nodes -> Nodes \cup {"null"}] /\ g[p] = "null"
      /\ \A q \in Nodes : q # p => g[q] = f[q]
  BY NodesApart DEF Linked
<1> HIDE DEF g
<1>2. \A i \in 0 .. n : L[i] # p /\ L[i] \in Nodes
  <2>1. ASSUME NEW i \in 0 .. n PROVE L[i] # p /\ L[i] \in Nodes
    <3>1. (i = 0 \/ i \in 1 .. n) /\ i \in 0 .. n + 1
      BY DEF Linked
    <3> QED BY <3>1, NodesApart DEF Linked
  <2> QED BY <2>1
<1>3. \A i \in 1 .. c : C[i] # p /\ C[i] \in Nodes
  BY NodesApart DEF Linked
<1>4. \A i \in 0 .. n : g[L[i]] = L[i + 1]
  BY <1>1, <1>2 DEF Linked
<1>5. \A i \in 1 .. c : g[C[i]] = C[i + 1]
  BY <1>1, <1>3 DEF Linked
<1>6. g["z"] = "null"
  BY <1>1, NodesApart DEF Linked
<1>7. ASSUME NEW q \in Packets, \A i \in 1 .. n : L[i] # q, \A i \in 1 .. c : C[i] # q
      PROVE  g[q] = "null"
  <2>1. CASE q # p
    <3>1. f[q] = "null"
      BY <1>7, <2>1 DEF Linked
    <3> QED BY <1>1, <2>1, <3>1, NodesApart
  <2> QED BY <1>1, <2>1
<1>8. Linked(g, n, L, first, c, C, {})
  BY <1>1, <1>4, <1>5, <1>6, <1>7 DEF Linked
<1> QED BY <1>8 DEF g

\* A packet is taken from the cache.
LEMMA Popping ==
    ASSUME NEW f, NEW n, NEW L, NEW first, NEW c, NEW C,
           Linked(f, n, L, first, c, C, {}), first # "null"
    PROVE  /\ first \in Packets /\ c > 0
           /\ Linked(f, n, L, f[first], c - 1, Popped(c, C), {first})
<1> DEFINE D == Popped(c, C)
<1>1. /\ n \in Nat /\ c \in Nat /\ c > 0 /\ c - 1 \in Nat
      /\ C \in [1 .. c + 1 -> Packets \cup {"null"}] /\ C[1] = first /\ C[c + 1] = "null"
  <2>1. c \in Nat /\ C[1] = first /\ C[c + 1] = "null"
    BY DEF Linked
  <2>2. c # 0
    BY <2>1
  <2> QED BY <2>1, <2>2 DEF Linked
<1>2. first \in Packets
  <2>1. 1 \in 1 .. c
    BY <1>1
  <2> QED BY <1>1, <2>1 DEF Linked
<1>3. D \in [1 .. c -> Packets \cup {"null"}] /\ \A i \in 1 .. c : D[i] = C[i + 1]
  <2>1. \A i \in 1 .. c : D[i] = C[i + 1] /\ i + 1 \in 1 .. c + 1
    BY <1>1 DEF Popped
  <2>2. \A i \in 1 .. c : D[i] \in Packets \cup {"null"}
    BY <1>1, <2>1
  <2>3. D = [i \in 1 .. c |-> D[i]]
    BY DEF Popped
  <2> QED BY <2>1, <2>2, <2>3
<1> HIDE DEF D
<1>4. D[1] = f[first] /\ D[c] = "null"
  <2>1. 1 \in 1 .. c /\ c \in 1 .. c
    BY <1>1
  <2> QED BY <1>1, <1>3, <2>1 DEF Linked
<1>5. \A i \in 1 .. c - 1 : /\ i \in 1 .. c /\ i + 1 \in 1 .. c /\ D[i] = C[i + 1]
                            /\ D[i + 1] = C[(i + 1) + 1] /\ D[i] \in Packets \ {first}
  <2>1. ASSUME NEW i \in 1 .. c - 1
        PROVE  /\ i \in 1 .. c /\ i + 1 \in 1 .. c /\ D[i] = C[i + 1]
               /\ D[i + 1] = C[(i + 1) + 1] /\ D[i] \in Packets \ {first}
    <3>1. i \in 1 .. c /\ i + 1 \in 1 .. c /\ 1 \in 1 .. c /\ i + 1 # 1
      BY <1>1
    <3>2. D[i] = C[i + 1] /\ D[i + 1] = C[(i + 1) + 1]
      BY <1>3, <3>1
    <3>3. C[i + 1] \in Packets /\ C[i + 1] # C[1]
      BY <3>1 DEF Linked
    <3> QED BY <1>1, <3>1, <3>2, <3>3
  <2> QED BY <2>1
<1>6. \A i, j \in 1 .. c - 1 : D[i] = D[j] => i = j
  <2>1. ASSUME NEW i \in 1 .. c - 1, NEW j \in 1 .. c - 1, D[i] = D[j] PROVE i = j
    <3>1. C[i + 1] = C[j + 1] /\ i + 1 \in 1 .. c /\ j + 1 \in 1 .. c
      BY <1>5, <2>1
    <3>2. i + 1 = j + 1
      BY <3>1 DEF Linked
    <3> QED BY <3>2
  <2> QED BY <2>1
<1>7. \A i \in 1 .. n : L[i] \in Packets \ {first} /\ \A j \in 1 .. c - 1 : L[i] # D[j]
  <2>1. ASSUME NEW i \in 1 .. n
        PROVE  L[i] \in Packets \ {first} /\ \A j \in 1 .. c - 1 : L[i] # D[j]
    <3>1. 1 \in 1 .. c
      BY <1>1
    <3>2. L[i] \in Packets /\ \A j \in 1 .. c : L[i] # C[j]
      BY DEF Linked
    <3> QED BY <1>1, <1>5, <3>1, <3>2
  <2> QED BY <2>1
<1>8. \A i \in 1 .. c - 1 : f[D[i]] = D[i + 1]
  BY <1>5 DEF Linked
<1>9. ASSUME NEW q \in Packets \ {first}, \A i \in 1 .. n : L[i] # q, \A i \in 1 .. c - 1 : D[i] # q
      PROVE  f[q] = "null"
  <2>1. ASSUME NEW i \in 1 .. c PROVE C[i] # q
    <3>1. CASE i = 1
      BY <1>1, <1>9, <3>1
    <3>2. CASE i # 1
      <4>1. i - 1 \in 1 .. c - 1 /\ (i - 1) + 1 = i
        BY <1>1, <3>2
      <4> QED BY <1>5, <1>9, <4>1
    <3> QED BY <3>1, <3>2
  <2> QED BY <1>9, <2>1 DEF Linked
<1>10. (c - 1) + 1 = c
  BY <1>1
<1>11. Linked(f, n, L, f[first], c - 1, D, {first})
  BY <1>1, <1>2, <1>3, <1>4, <1>5, <1>6, <1>7, <1>8, <1>9, <1>10 DEF Linked
<1> QED BY <1>1, <1>2, <1>11 DEF D

\* A packet that is on neither chain is a new one.
LEMMA Creating ==
    ASSUME NEW f, NEW n, NEW L, NEW first, NEW c, NEW C,
           Linked(f, n, L, first, c, C, {}), first = "null",
           NEW p \in Packets, \A i \in 1 .. n : L[i] # p
    PROVE  c = 0 /\ Linked(f, n, L, first, c, C, {p})
<1>1. c = 0
  <2>1. c \in Nat /\ (c > 0 => 1 \in 1 .. c)
    BY DEF Linked
  <2>2. c > 0 => C[1] \in Packets /\ C[1] = first
    BY <2>1 DEF Linked
  <2> QED BY <2>1, <2>2, NodesApart
<1> QED BY <1>1 DEF Linked

-----------------------------------------------------------------------------
(* What Chain computes.                                                     *)

\* A set of numbers that has no least number without its successor has them all.
LEMMA FromZero ==
    ASSUME NEW T, 0 \in T, \A n \in Nat : n \in T => n + 1 \in T
    PROVE  \A n \in Nat : n \in T
<1> DEFINE Rest == {n \in Nat : n \notin T}
<1> SUFFICES ASSUME Rest # {} PROVE FALSE
  OBVIOUS
<1>1. IsWellFoundedOn(OpToRel(<, Nat), Nat)
  BY NatLessThanWellFounded
<1>2. Rest \subseteq Nat
  OBVIOUS
<1>3. PICK x \in Rest : \A y \in Rest : ~(<<y, x>> \in OpToRel(<, Nat))
  <2> HIDE DEF Rest
  <2> QED BY <1>1, <1>2, WFMin
<1>4. x \in Nat /\ x \notin T /\ x # 0
  BY <1>3
<1>5. x - 1 \in Nat /\ x - 1 < x /\ (x - 1) + 1 = x
  BY <1>4
<1>6. x - 1 \notin Rest
  BY <1>3, <1>4, <1>5 DEF OpToRel
<1> QED BY <1>4, <1>5, <1>6

\* The recursive function of Chain.
Reaches(from) ==
    from = [p \in Nodes \cup {"null"} |->
                IF p \in {"z", "null"} THEN <<>> ELSE <<p>> \o from[m_next[p]]]

\* The rest of a chain of n packets, from the i-th.
Suffix(n, M, i) == [j \in 1 .. (n + 1) - i |-> M[(i + j) - 1]]

\* A longer rest has one packet more in front.
LEMMA SuffixStep ==
    ASSUME NEW n \in Nat, NEW i \in 0 .. n, NEW M, \A j \in i .. n : M[j] \in Nodes
    PROVE  <<M[i]>> \o Suffix(n, M, i + 1) = Suffix(n, M, i)
<1> DEFINE s == <<M[i]>>
           t == Suffix(n, M, i + 1)
           u == Suffix(n, M, i)
<1>1. /\ n - i \in Nat /\ (n + 1) - (i + 1) = n - i /\ (n + 1) - i = (n - i) + 1
  OBVIOUS
<1>2. t \in Seq(Nodes) /\ Len(t) = n - i /\ \A j \in 1 .. n - i : t[j] = M[((i + 1) + j) - 1]
  <2>1. ASSUME NEW j \in 1 .. n - i PROVE M[((i + 1) + j) - 1] \in Nodes
    <3>1. ((i + 1) + j) - 1 \in i .. n
      BY <1>1
    <3> QED BY <3>1
  <2>2. t = [j \in 1 .. n - i |-> M[((i + 1) + j) - 1]]
    BY <1>1 DEF Suffix
  <2> HIDE DEF t
  <2> QED BY <1>1, <2>1, <2>2
<1>3. u \in Seq(Nodes) /\ Len(u) = (n - i) + 1 /\ \A j \in 1 .. (n - i) + 1 : u[j] = M[(i + j) - 1]
  <2>1. ASSUME NEW j \in 1 .. (n - i) + 1 PROVE M[(i + j) - 1] \in Nodes
    <3>1. (i + j) - 1 \in i .. n
      BY <1>1
    <3> QED BY <3>1
  <2>2. u = [j \in 1 .. (n - i) + 1 |-> M[(i + j) - 1]]
    BY <1>1 DEF Suffix
  <2> HIDE DEF u
  <2> QED BY <1>1, <2>1, <2>2
<1>4. s \in Seq(Nodes) /\ Len(s) = 1 /\ s[1] = M[i]
  <2>1. i \in i .. n
    OBVIOUS
  <2> QED BY <2>1
<1> HIDE DEF s, t, u
<1>5. /\ s \o t \in Seq(Nodes) /\ Len(s \o t) = 1 + (n - i)
      /\ \A j \in 1 .. 1 + (n - i) :
            (s \o t)[j] = IF j <= 1 THEN s[j] ELSE t[j - 1]
  <2>1. s \in Seq(Nodes) /\ t \in Seq(Nodes)
    BY <1>2, <1>4
  <2>2. /\ s \o t \in Seq(Nodes) /\ Len(s \o t) = Len(s) + Len(t)
        /\ \A j \in 1 .. Len(s) + Len(t) :
              (s \o t)[j] = IF j <= Len(s) THEN s[j] ELSE t[j - Len(s)]
    BY <2>1, ConcatProperties
  <2> QED BY <1>2, <1>4, <2>2
<1>6. ASSUME NEW j \in 1 .. (n - i) + 1 PROVE (s \o t)[j] = u[j]
  <2>1. CASE j = 1
    <3>1. (i + 1) - 1 = i /\ j \in 1 .. 1 + (n - i)
      BY <1>1
    <3> QED BY <1>3, <1>4, <1>5, <2>1, <3>1
  <2>2. CASE j # 1
    <3>1. /\ j - 1 \in 1 .. n - i /\ ~(j <= 1) /\ j \in 1 .. 1 + (n - i)
          /\ ((i + 1) + (j - 1)) - 1 = (i + j) - 1
      BY <1>1, <2>2
    <3> QED BY <1>2, <1>3, <1>5, <3>1
  <2> QED BY <2>1, <2>2
<1>7. s \o t = u
  <2>1. Len(s \o t) = Len(u) /\ Len(s \o t) = (n - i) + 1
    BY <1>1, <1>3, <1>5
  <2>2. \A j \in 1 .. Len(s \o t) : (s \o t)[j] = u[j]
    BY <1>6, <2>1
  <2>3. s \o t \in Seq(Nodes) /\ u \in Seq(Nodes)
    BY <1>3, <1>5
  <2> QED BY <2>1, <2>2, <2>3, SeqEqual
<1> QED BY <1>7 DEF s, t, u

\* The rest behind the last packet is empty.
LEMMA SuffixEnd ==
    ASSUME NEW n \in Nat, NEW M
    PROVE  /\ Suffix(n, M, n + 1) = <<>>
           /\ Suffix(n, M, 1) = [j \in 1 .. n |-> M[j]]
<1>1. (n + 1) - (n + 1) = 0 /\ (n + 1) - 1 = n /\ \A j \in 1 .. n : (1 + j) - 1 = j
  OBVIOUS
<1>2. Suffix(n, M, n + 1) = [j \in 1 .. 0 |-> M[((n + 1) + j) - 1]]
  BY <1>1 DEF Suffix
<1>3. 1 .. 0 = {}
  OBVIOUS
<1>4. [j \in {} |-> M[((n + 1) + j) - 1]] = <<>>
  OBVIOUS
<1> QED BY <1>1, <1>2, <1>3, <1>4 DEF Suffix

\* The recursive function exists for a chain that ends.
LEMMA ReachesExists ==
    ASSUME NEW n, NEW L, NEW first, NEW c, NEW C, Linked(m_next, n, L, first, c, C, {})
    PROVE  \E from : Reaches(from)
<1> DEFINE On(q) == \E i \in 0 .. n : L[i] = q
           In(q) == \E i \in 1 .. c : C[i] = q
           At(q) == CHOOSE i \in 0 .. n : L[i] = q
           Pos(q) == CHOOSE i \in 1 .. c : C[i] = q
           G == [q \in Nodes \cup {"null"} |->
                    IF On(q) THEN Suffix(n, L, At(q))
                    ELSE IF In(q) THEN Suffix(c, C, Pos(q))
                    ELSE IF q \in {"z", "null"} THEN <<>> ELSE <<q>>]
<1>1. /\ n \in Nat /\ c \in Nat /\ m_next \in [Nodes -> Nodes \cup {"null"}]
      /\ L[0] = "head" /\ L[n + 1] = "z" /\ C[c + 1] = "null"
      /\ \A i \in 0 .. n + 1 : L[i] \in Nodes
      /\ \A i \in 1 .. c + 1 : C[i] \in Nodes \cup {"null"}
  BY NodesApart DEF Linked
<1>2. \A i \in 0 .. n : /\ L[i] \in Nodes /\ L[i] # "z" /\ L[i] # "null" /\ m_next[L[i]] = L[i + 1]
                        /\ ~In(L[i])
  <2>1. ASSUME NEW i \in 0 .. n
        PROVE  L[i] \in Nodes /\ L[i] # "z" /\ L[i] # "null" /\ m_next[L[i]] = L[i + 1] /\ ~In(L[i])
    <3>1. i \in 0 .. n + 1 /\ n + 1 \in 0 .. n + 1 /\ i # n + 1 /\ (i = 0 \/ i \in 1 .. n)
      BY <1>1
    <3>2. L[i] \in Nodes /\ L[i] # "z" /\ L[i] # "null"
      BY <1>1, <3>1, NodesOnce, NodesApart
    <3>3. m_next[L[i]] = L[i + 1]
      BY DEF Linked
    <3>4. ASSUME NEW j \in 1 .. c PROVE C[j] # L[i]
      <4>1. C[j] \in Packets
        BY DEF Linked
      <4>2. CASE i = 0
        BY <1>1, <4>1, <4>2, NodesApart
      <4>3. CASE i \in 1 .. n
        BY <4>3 DEF Linked
      <4> QED BY <3>1, <4>2, <4>3
    <3> QED BY <3>2, <3>3, <3>4
  <2> QED BY <2>1
<1>3. \A i \in 1 .. c : C[i] \in Packets /\ m_next[C[i]] = C[i + 1] /\ ~On(C[i])
  <2>1. \A i \in 1 .. c : C[i] \in Packets /\ m_next[C[i]] = C[i + 1]
    BY DEF Linked
  <2> QED BY <1>2, <2>1
<1>4. ~On("z") /\ ~On("null") /\ ~In("z") /\ ~In("null")
  BY <1>2, <1>3, NodesApart
<1>5. \A i \in 0 .. n + 1 : G[L[i]] = Suffix(n, L, i)
  <2>1. ASSUME NEW i \in 0 .. n PROVE G[L[i]] = Suffix(n, L, i)
    <3>1. \A j \in 0 .. n : L[j] = L[i] => j = i
      <4>1. ASSUME NEW j \in 0 .. n, L[j] = L[i] PROVE j = i
        <5>1. i \in 0 .. n + 1 /\ j \in 0 .. n + 1
          BY <1>1
        <5> QED BY <4>1, <5>1, NodesOnce
      <4> QED BY <4>1
    <3>2. At(L[i]) = i /\ On(L[i])
      BY <3>1
    <3> QED BY <1>2, <3>2
  <2>2. G[L[n + 1]] = Suffix(n, L, n + 1)
    <3>1. G["z"] = <<>>
      BY <1>4, NodesApart
    <3> QED BY <1>1, <3>1, SuffixEnd
  <2>3. \A i \in 0 .. n + 1 : i \in 0 .. n \/ i = n + 1
    BY <1>1
  <2> HIDE DEF G
  <2> QED BY <2>1, <2>2, <2>3
<1>6. \A i \in 1 .. c + 1 : G[C[i]] = Suffix(c, C, i)
  <2>1. ASSUME NEW i \in 1 .. c PROVE G[C[i]] = Suffix(c, C, i)
    <3>1. \A j \in 1 .. c : C[j] = C[i] => j = i
      BY DEF Linked
    <3>2. Pos(C[i]) = i /\ In(C[i])
      BY <3>1
    <3> QED BY <1>3, <3>2, NodesApart
  <2>2. G[C[c + 1]] = Suffix(c, C, c + 1)
    <3>1. G["null"] = <<>>
      BY <1>4
    <3> QED BY <1>1, <3>1, SuffixEnd
  <2>3. \A i \in 1 .. c + 1 : i \in 1 .. c \/ i = c + 1
    BY <1>1
  <2> HIDE DEF G
  <2> QED BY <2>1, <2>2, <2>3
<1>7. ASSUME NEW q \in Nodes \cup {"null"}
      PROVE  G[q] = IF q \in {"z", "null"} THEN <<>> ELSE <<q>> \o G[m_next[q]]
  <2>1. CASE q \in {"z", "null"}
    BY <1>4, <2>1
  <2>2. CASE On(q)
    <3>1. PICK i \in 0 .. n : L[i] = q
      BY <2>2
    <3>2. i \in 0 .. n + 1 /\ i + 1 \in 0 .. n + 1 /\ \A j \in i .. n : j \in 0 .. n + 1
      BY <1>1
    <3>3. G[L[i]] = Suffix(n, L, i) /\ G[L[i + 1]] = Suffix(n, L, i + 1)
      <4> HIDE DEF G
      <4> QED BY <1>5, <3>2
    <3>4. <<L[i]>> \o Suffix(n, L, i + 1) = Suffix(n, L, i)
      <4> HIDE DEF G
      <4> QED BY <1>1, <3>2, SuffixStep
    <3> HIDE DEF G
    <3> QED BY <1>2, <3>1, <3>3, <3>4
  <2>3. CASE In(q)
    <3>1. PICK i \in 1 .. c : C[i] = q
      BY <2>3
    <3>2. i \in 0 .. c /\ i \in 1 .. c + 1 /\ i + 1 \in 1 .. c + 1 /\ \A j \in i .. c : j \in 1 .. c
      BY <1>1
    <3>3. G[C[i]] = Suffix(c, C, i) /\ G[C[i + 1]] = Suffix(c, C, i + 1)
      <4> HIDE DEF G
      <4> QED BY <1>6, <3>2
    <3>4. <<C[i]>> \o Suffix(c, C, i + 1) = Suffix(c, C, i)
      <4>1. \A j \in i .. c : C[j] \in Nodes
        BY <1>3, <3>2, NodesApart
      <4> HIDE DEF G
      <4> QED BY <1>1, <3>2, <4>1, SuffixStep
    <3>5. C[i] # "z" /\ C[i] # "null" /\ m_next[C[i]] = C[i + 1]
      BY <1>3, NodesApart
    <3> HIDE DEF G
    <3> QED BY <3>1, <3>3, <3>4, <3>5
  <2>4. CASE ~(q \in {"z", "null"}) /\ ~On(q) /\ ~In(q)
    <3>1. G[q] = <<q>>
      BY <2>4
    <3>2. q \in Packets
      <4>1. q # "head"
        <5>1. 0 \in 0 .. n
          BY <1>1
        <5> QED BY <1>1, <2>4, <5>1
      <4> QED BY <2>4, <4>1, NodesApart
    <3>3. m_next[q] = "null"
      <4>1. (\A i \in 1 .. n : L[i] # q) /\ (\A i \in 1 .. c : C[i] # q)
        <5>1. \A i \in 1 .. n : i \in 0 .. n
          BY <1>1
        <5> QED BY <2>4, <5>1
      <4> QED BY <3>2, <4>1 DEF Linked
    <3>4. G["null"] = <<>>
      BY <1>4
    <3>5. <<q>> \o <<>> = <<q>>
      <4>1. <<q>> \in Seq({q})
        OBVIOUS
      <4> QED BY <4>1, ConcatEmptySeq
    <3> HIDE DEF G
    <3> QED BY <2>4, <3>1, <3>3, <3>4, <3>5
  <2> QED BY <2>1, <2>2, <2>3, <2>4
<1>8. G = [q \in Nodes \cup {"null"} |-> G[q]]
  OBVIOUS
<1>9. Reaches(G)
  <2> HIDE DEF G
  <2> QED BY <1>7, <1>8 DEF Reaches
<1> QED BY <1>9

\* Chain of the first of n packets that lead to an end are these packets.
LEMMA ChainIs ==
    ASSUME NEW n \in Nat, NEW M, \E from : Reaches(from),
           \A i \in 1 .. n : M[i] \in Packets /\ m_next[M[i]] = M[i + 1],
           M[n + 1] \in {"z", "null"}
    PROVE  Chain(M[1]) = [i \in 1 .. n |-> M[i]]
<1> DEFINE from == CHOOSE from : Reaches(from)
<1>1. Chain(M[1]) = from[M[1]]
  BY DEF Chain, Reaches
<1>2. Reaches(from)
  OBVIOUS
<1> HIDE DEF from
<1>3. \A p \in Nodes \cup {"null"} :
         from[p] = IF p \in {"z", "null"} THEN <<>> ELSE <<p>> \o from[m_next[p]]
  <2> DEFINE F(p) == IF p \in {"z", "null"} THEN <<>> ELSE <<p>> \o from[m_next[p]]
  <2>1. from = [p \in Nodes \cup {"null"} |-> F(p)]
    BY <1>2 DEF Reaches
  <2> HIDE DEF F
  <2>2. \A p \in Nodes \cup {"null"} : from[p] = F(p)
    BY <2>1
  <2> QED BY <2>2 DEF F
<1> DEFINE T == {j \in Nat : j <= n => from[M[(n + 1) - j]] = Suffix(n, M, (n + 1) - j)}
<1>4. 0 \in T
  <2>1. (n + 1) - 0 = n + 1
    OBVIOUS
  <2>2. from[M[n + 1]] = Suffix(n, M, n + 1)
    BY <1>3, NodesApart, SuffixEnd
  <2> QED BY <2>1, <2>2
<1>5. ASSUME NEW j \in Nat, j \in T PROVE j + 1 \in T
  <2> SUFFICES ASSUME j + 1 <= n
               PROVE  from[M[(n + 1) - (j + 1)]] = Suffix(n, M, (n + 1) - (j + 1))
    OBVIOUS
  <2> DEFINE i == (n + 1) - (j + 1)
  <2>1. /\ i \in 1 .. n /\ i \in 0 .. n /\ i + 1 = (n + 1) - j /\ j <= n
        /\ \A a \in i .. n : a \in 1 .. n
    OBVIOUS
  <2>2. from[M[i + 1]] = Suffix(n, M, i + 1)
    BY <1>5, <2>1
  <2> HIDE DEF i, T
  <2>3. M[i] \in Nodes /\ M[i] \notin {"z", "null"} /\ m_next[M[i]] = M[i + 1]
    BY <2>1, NodesApart
  <2>4. <<M[i]>> \o Suffix(n, M, i + 1) = Suffix(n, M, i)
    <3>1. \A a \in i .. n : M[a] \in Nodes
      BY <2>1, NodesApart
    <3> QED BY <2>1, <3>1, SuffixStep
  <2>5. from[M[i]] = Suffix(n, M, i)
    <3>1. from[M[i]] = <<M[i]>> \o from[m_next[M[i]]]
      BY <1>3, <2>3
    <3> QED BY <2>2, <2>3, <2>4, <3>1
  <2> QED BY <2>5 DEF i
<1>6. n \in T
  <2> HIDE DEF T
  <2> QED BY <1>4, <1>5, FromZero
<1>7. (n + 1) - n = 1
  OBVIOUS
<1>8. from[M[1]] = Suffix(n, M, 1)
  BY <1>6, <1>7
<1> QED BY <1>1, <1>8, SuffixEnd

-----------------------------------------------------------------------------
(* The packets in the order of their times.                                 *)

\* The packets of the list are in the order of their times, which are those of
\* advises, and each has a cookie of its own, of those up to m.
Ordered(n, L, T, P, K, m) ==
    /\ \A i \in 1 .. n : T[L[i]] \in 1 .. MAX_TIME - 1 /\ P[L[i]] \in 0 .. Horizon - 1
                         /\ K[L[i]] \in 1 .. m
    /\ \A i, j \in 1 .. n : i < j => T[L[i]] <= T[L[j]]
    /\ \A i, j \in 1 .. n : K[L[i]] = K[L[j]] => i = j

\* The packets at these places have the same alarms before and after.
Same(S, L, T, P, K, T2, P2, K2) ==
    \A i \in S : T2[L[i]] = T[L[i]] /\ P2[L[i]] = P[L[i]] /\ K2[L[i]] = K[L[i]]

\* A packet with this time and this cookie can go behind the k-th node.
Fits(n, L, k, T, K, time, cookie) ==
    /\ \A i \in 1 .. n : i <= k => T[L[i]] <= time
    /\ \A i \in 1 .. n : i > k => time <= T[L[i]]
    /\ \A i \in 1 .. n : K[L[i]] # cookie

\* The nodes of the longer list.
LEMMA LongerIs ==
    ASSUME NEW n \in Nat, NEW L, NEW k \in 0 .. n, NEW p, NEW i \in 1 .. n + 1
    PROVE  \/ i <= k /\ i \in 1 .. n /\ Longer(n, L, k, p)[i] = L[i]
           \/ i = k + 1 /\ Longer(n, L, k, p)[i] = p
           \/ i > k + 1 /\ i - 1 \in 1 .. n /\ Longer(n, L, k, p)[i] = L[i - 1]
<1>1. i \in 0 .. n + 2 /\ (i <= k \/ i = k + 1 \/ i > k + 1)
  OBVIOUS
<1>2. CASE i <= k
  BY <1>1, <1>2 DEF Longer
<1>3. CASE i = k + 1
  BY <1>1, <1>3 DEF Longer
<1>4. CASE i > k + 1
  BY <1>1, <1>4 DEF Longer
<1> QED BY <1>1, <1>2, <1>3, <1>4

\* The nodes of the shorter list.
LEMMA ShorterIs ==
    ASSUME NEW n \in Nat, NEW L, NEW k \in 0 .. n - 1, NEW i \in 1 .. n - 1
    PROVE  \/ i <= k /\ i \in 1 .. n /\ Shorter(n, L, k)[i] = L[i]
           \/ i > k /\ i + 1 \in 1 .. n /\ Shorter(n, L, k)[i] = L[i + 1]
<1>1. i \in 0 .. n /\ (i <= k \/ i > k)
  OBVIOUS
<1>2. CASE i <= k
  BY <1>1, <1>2 DEF Shorter
<1>3. CASE i > k
  BY <1>1, <1>3 DEF Shorter
<1> QED BY <1>1, <1>2, <1>3

\* A packet that fits behind the k-th node keeps the order there.
LEMMA OrderedInsert ==
    ASSUME NEW n \in Nat, NEW L, NEW T, NEW P, NEW K, NEW m \in Nat,
           Ordered(n, L, T, P, K, m), NEW k \in 0 .. n, NEW p,
           NEW T2, NEW P2, NEW K2, NEW m2 \in Nat, m <= m2,
           Same(1 .. n, L, T, P, K, T2, P2, K2), Fits(n, L, k, T, K, T2[p], K2[p]),
           T2[p] \in 1 .. MAX_TIME - 1, P2[p] \in 0 .. Horizon - 1, K2[p] \in 1 .. m2
    PROVE  Ordered(n + 1, Longer(n, L, k, p), T2, P2, K2, m2)
<1> USE DEF Same, Fits
<1> DEFINE M == Longer(n, L, k, p)
<1>1. \A i \in 1 .. n + 1 :
         \/ i <= k /\ i \in 1 .. n /\ M[i] = L[i]
         \/ i = k + 1 /\ M[i] = p
         \/ i > k + 1 /\ i - 1 \in 1 .. n /\ M[i] = L[i - 1]
  BY LongerIs
<1> HIDE DEF M
<1>2. /\ \A i \in 1 .. n : T[L[i]] \in 1 .. MAX_TIME - 1 /\ P[L[i]] \in 0 .. Horizon - 1
                           /\ K[L[i]] \in 1 .. m
      /\ \A i, j \in 1 .. n : i < j => T[L[i]] <= T[L[j]]
      /\ \A i, j \in 1 .. n : K[L[i]] = K[L[j]] => i = j
  BY DEF Ordered
<1>3. ASSUME NEW i \in 1 .. n + 1
      PROVE  T2[M[i]] \in 1 .. MAX_TIME - 1 /\ P2[M[i]] \in 0 .. Horizon - 1 /\ K2[M[i]] \in 1 .. m2
  <2>1. \A x \in 1 .. m : x \in 1 .. m2
    OBVIOUS
  <2>2. CASE i <= k /\ i \in 1 .. n /\ M[i] = L[i]
    BY <1>2, <2>1, <2>2
  <2>3. CASE i = k + 1 /\ M[i] = p
    BY <2>3
  <2>4. CASE i > k + 1 /\ i - 1 \in 1 .. n /\ M[i] = L[i - 1]
    BY <1>2, <2>1, <2>4
  <2> QED BY <1>1, <2>2, <2>3, <2>4
<1>4. ASSUME NEW i \in 1 .. n + 1, NEW j \in 1 .. n + 1, i < j PROVE T2[M[i]] <= T2[M[j]]
  <2>1. \/ i <= k /\ i \in 1 .. n /\ M[i] = L[i]
        \/ i = k + 1 /\ M[i] = p
        \/ i > k + 1 /\ i - 1 \in 1 .. n /\ M[i] = L[i - 1]
    BY <1>1
  <2>2. \/ j <= k /\ j \in 1 .. n /\ M[j] = L[j]
        \/ j = k + 1 /\ M[j] = p
        \/ j > k + 1 /\ j - 1 \in 1 .. n /\ M[j] = L[j - 1]
    BY <1>1
  <2>3. CASE i <= k /\ i \in 1 .. n /\ M[i] = L[i]
    <3>1. CASE j <= k /\ j \in 1 .. n /\ M[j] = L[j]
      BY <1>2, <1>4, <2>3, <3>1
    <3>2. CASE j = k + 1 /\ M[j] = p
      BY <2>3, <3>2
    <3>3. CASE j > k + 1 /\ j - 1 \in 1 .. n /\ M[j] = L[j - 1]
      <4>1. i < j - 1
        BY <2>3, <3>3
      <4> QED BY <1>2, <2>3, <3>3, <4>1
    <3> QED BY <2>2, <3>1, <3>2, <3>3
  <2>4. CASE i = k + 1 /\ M[i] = p
    <3>1. j > k + 1 /\ j - 1 \in 1 .. n /\ M[j] = L[j - 1] /\ j - 1 > k
      BY <1>4, <2>2, <2>4
    <3> QED BY <2>4, <3>1
  <2>5. CASE i > k + 1 /\ i - 1 \in 1 .. n /\ M[i] = L[i - 1]
    <3>1. j > k + 1 /\ j - 1 \in 1 .. n /\ M[j] = L[j - 1] /\ i - 1 < j - 1
      BY <1>4, <2>2, <2>5
    <3> QED BY <1>2, <2>5, <3>1
  <2> QED BY <2>1, <2>3, <2>4, <2>5
<1>5. ASSUME NEW i \in 1 .. n + 1, NEW j \in 1 .. n + 1, K2[M[i]] = K2[M[j]] PROVE i = j
  <2>1. \/ i <= k /\ i \in 1 .. n /\ M[i] = L[i]
        \/ i = k + 1 /\ M[i] = p
        \/ i > k + 1 /\ i - 1 \in 1 .. n /\ M[i] = L[i - 1]
    BY <1>1
  <2>2. \/ j <= k /\ j \in 1 .. n /\ M[j] = L[j]
        \/ j = k + 1 /\ M[j] = p
        \/ j > k + 1 /\ j - 1 \in 1 .. n /\ M[j] = L[j - 1]
    BY <1>1
  <2>3. CASE i <= k /\ i \in 1 .. n /\ M[i] = L[i]
    <3>1. CASE j <= k /\ j \in 1 .. n /\ M[j] = L[j]
      BY <1>2, <1>5, <2>3, <3>1
    <3>2. CASE j = k + 1 /\ M[j] = p
      BY <1>5, <2>3, <3>2
    <3>3. CASE j > k + 1 /\ j - 1 \in 1 .. n /\ M[j] = L[j - 1]
      <4>1. i = j - 1
        BY <1>2, <1>5, <2>3, <3>3
      <4> QED BY <2>3, <3>3, <4>1
    <3> QED BY <2>2, <3>1, <3>2, <3>3
  <2>4. CASE i = k + 1 /\ M[i] = p
    BY <1>5, <2>2, <2>4
  <2>5. CASE i > k + 1 /\ i - 1 \in 1 .. n /\ M[i] = L[i - 1]
    <3>1. CASE j <= k /\ j \in 1 .. n /\ M[j] = L[j]
      <4>1. j = i - 1
        BY <1>2, <1>5, <2>5, <3>1
      <4> QED BY <2>5, <3>1, <4>1
    <3>2. CASE j = k + 1 /\ M[j] = p
      BY <1>5, <2>5, <3>2
    <3>3. CASE j > k + 1 /\ j - 1 \in 1 .. n /\ M[j] = L[j - 1]
      <4>1. i - 1 = j - 1
        BY <1>2, <1>5, <2>5, <3>3
      <4> QED BY <4>1
    <3> QED BY <2>2, <3>1, <3>2, <3>3
  <2> QED BY <2>1, <2>3, <2>4, <2>5
<1>6. Ordered(n + 1, M, T2, P2, K2, m2)
  BY <1>3, <1>4, <1>5 DEF Ordered
<1> QED BY <1>6 DEF M

\* A list without one of its packets stays in order.
LEMMA OrderedRemove ==
    ASSUME NEW n \in Nat, NEW L, NEW T, NEW P, NEW K, NEW m,
           Ordered(n, L, T, P, K, m), NEW k \in 0 .. n - 1, NEW T2, NEW P2, NEW K2,
           Same((1 .. n) \ {k + 1}, L, T, P, K, T2, P2, K2)
    PROVE  Ordered(n - 1, Shorter(n, L, k), T2, P2, K2, m)
<1> USE DEF Same
<1> DEFINE M == Shorter(n, L, k)
<1>1. \A i \in 1 .. n - 1 : \E a \in 1 .. n :
         M[i] = L[a] /\ a # k + 1 /\ (i <= k => a = i) /\ (i > k => a = i + 1)
  <2>1. ASSUME NEW i \in 1 .. n - 1
        PROVE  \E a \in 1 .. n :
                  M[i] = L[a] /\ a # k + 1 /\ (i <= k => a = i) /\ (i > k => a = i + 1)
    <3>1. CASE i <= k /\ i \in 1 .. n /\ M[i] = L[i]
      <4>1. i # k + 1 /\ ~(i > k)
        BY <3>1
      <4> QED BY <3>1, <4>1
    <3>2. CASE i > k /\ i + 1 \in 1 .. n /\ M[i] = L[i + 1]
      <4>1. i + 1 # k + 1 /\ ~(i <= k)
        BY <3>2
      <4> QED BY <3>2, <4>1
    <3> QED BY <3>1, <3>2, ShorterIs
  <2> QED BY <2>1
<1> HIDE DEF M
<1>2. /\ \A i \in 1 .. n : T[L[i]] \in 1 .. MAX_TIME - 1 /\ P[L[i]] \in 0 .. Horizon - 1
                           /\ K[L[i]] \in 1 .. m
      /\ \A i, j \in 1 .. n : i < j => T[L[i]] <= T[L[j]]
      /\ \A i, j \in 1 .. n : K[L[i]] = K[L[j]] => i = j
  BY DEF Ordered
<1>3. ASSUME NEW i \in 1 .. n - 1
      PROVE  T2[M[i]] \in 1 .. MAX_TIME - 1 /\ P2[M[i]] \in 0 .. Horizon - 1 /\ K2[M[i]] \in 1 .. m
  BY <1>1, <1>2
<1>4. ASSUME NEW i \in 1 .. n - 1, NEW j \in 1 .. n - 1
      PROVE  (i < j => T2[M[i]] <= T2[M[j]]) /\ (K2[M[i]] = K2[M[j]] => i = j)
  <2>1. PICK a \in 1 .. n :
           M[i] = L[a] /\ a # k + 1 /\ (i <= k => a = i) /\ (i > k => a = i + 1)
    BY <1>1
  <2>2. PICK b \in 1 .. n :
           M[j] = L[b] /\ b # k + 1 /\ (j <= k => b = j) /\ (j > k => b = j + 1)
    BY <1>1
  <2>3. (i < j => a < b) /\ (a = b => i = j)
    BY <2>1, <2>2
  <2> QED BY <1>2, <2>1, <2>2, <2>3
<1>5. Ordered(n - 1, M, T2, P2, K2, m)
  BY <1>3, <1>4 DEF Ordered
<1> QED BY <1>5 DEF M

-----------------------------------------------------------------------------
(* The list of a state.                                                     *)

\* List and Cache are the packets of a shape.
LEMMA TheChains ==
    ASSUME NEW n, NEW L, NEW c, NEW C, Linked(m_next, n, L, m_pAdviseCache, c, C, {})
    PROVE  /\ List = [i \in 1 .. n |-> L[i]] /\ Cache = [i \in 1 .. c |-> C[i]]
           /\ m_next["head"] = L[1]
           /\ DOMAIN ListNodes = 1 .. n + 1
           /\ \A i \in 1 .. n + 1 : ListNodes[i] = L[i - 1]
<1>1. \E from : Reaches(from)
  BY ReachesExists
<1>2. /\ n \in Nat /\ c \in Nat /\ L[n + 1] \in {"z", "null"} /\ C[c + 1] \in {"z", "null"}
      /\ L[0] = "head" /\ C[1] = m_pAdviseCache
      /\ \A i \in 1 .. c : C[i] \in Packets /\ m_next[C[i]] = C[i + 1]
  BY DEF Linked
<1>3. \A i \in 1 .. n : L[i] \in Packets /\ m_next[L[i]] = L[i + 1]
  <2>1. \A i \in 1 .. n : i \in 0 .. n
    BY <1>2
  <2> QED BY <2>1 DEF Linked
<1>4. m_next["head"] = L[1]
  <2>1. 0 \in 0 .. n /\ 0 + 1 = 1
    BY <1>2
  <2>2. m_next[L[0]] = L[0 + 1]
    BY <2>1 DEF Linked
  <2> QED BY <1>2, <2>1, <2>2
<1>5. List = [i \in 1 .. n |-> L[i]]
  <2>1. Chain(L[1]) = [i \in 1 .. n |-> L[i]]
    BY <1>1, <1>2, <1>3, ChainIs
  <2> QED BY <1>4, <2>1 DEF List
<1>6. Cache = [i \in 1 .. c |-> C[i]]
  <2>1. Chain(C[1]) = [i \in 1 .. c |-> C[i]]
    BY <1>1, <1>2, ChainIs
  <2> QED BY <1>2, <2>1 DEF Cache
<1>7. /\ List \in Seq(Nodes) /\ Len(List) = n /\ <<"head">> \in Seq(Nodes)
      /\ Len(<<"head">>) = 1 /\ <<"head">>[1] = "head"
  BY <1>2, <1>3, <1>5, NodesApart
<1>8. /\ ListNodes \in Seq(Nodes) /\ Len(ListNodes) = Len(<<"head">>) + Len(List)
      /\ \A i \in 1 .. Len(<<"head">>) + Len(List) :
            ListNodes[i] = IF i <= Len(<<"head">>) THEN <<"head">>[i] ELSE List[i - Len(<<"head">>)]
  <2>1. List \in Seq(Nodes) /\ <<"head">> \in Seq(Nodes)
    BY <1>7
  <2> QED BY <2>1, ConcatProperties DEF ListNodes
<1>9. Len(ListNodes) = n + 1 /\ DOMAIN ListNodes = 1 .. n + 1
  BY <1>2, <1>7, <1>8
<1>10. ASSUME NEW i \in 1 .. n + 1 PROVE ListNodes[i] = L[i - 1]
  <2>1. i \in 1 .. Len(<<"head">>) + Len(List)
    BY <1>2, <1>7
  <2>2. CASE i = 1
    BY <1>2, <1>7, <1>8, <2>1, <2>2
  <2>3. CASE i # 1
    <3>1. i - 1 \in 1 .. n /\ ~(i <= 1)
      BY <1>2, <2>3
    <3>2. ListNodes[i] = List[i - 1]
      BY <1>7, <1>8, <2>1, <3>1
    <3> QED BY <1>5, <3>1, <3>2
  <2> QED BY <2>2, <2>3
<1> QED BY <1>4, <1>5, <1>6, <1>9, <1>10

\* Min of a set of numbers with a least one.
LEMMA MinIs ==
    ASSUME NEW S, S \subseteq Nat, S # {}
    PROVE  Min(S) \in S /\ \A x \in S : Min(S) <= x
<1>1. IsWellFoundedOn(OpToRel(<, Nat), Nat)
  BY NatLessThanWellFounded
<1>2. PICK x \in S : \A y \in S : ~(<<y, x>> \in OpToRel(<, Nat))
  BY <1>1, WFMin
<1>3. \A y \in S : x <= y
  <2>1. ASSUME NEW y \in S PROVE x <= y
    <3>1. ~(y < x)
      BY <1>2 DEF OpToRel
    <3>2. x \in Nat /\ y \in Nat
      OBVIOUS
    <3> QED BY <3>1, <3>2
  <2> QED BY <2>1
<1> QED BY <1>3 DEF Min

\* A walk along the list ends in front of the first node with a property.
LEMMA Walking ==
    ASSUME NEW n, NEW L, NEW c, NEW C, Linked(m_next, n, L, m_pAdviseCache, c, C, {}),
           NEW S, S \subseteq 1 .. n + 1, n + 1 \in S
    PROVE  /\ Min(S) \in S /\ \A x \in S : Min(S) <= x
           /\ ListNodes[Min(S)] = L[Min(S) - 1]
<1>1. n \in Nat /\ S \subseteq Nat /\ S # {}
  BY DEF Linked
<1>2. Min(S) \in S /\ \A x \in S : Min(S) <= x
  BY <1>1, MinIs
<1>3. Min(S) \in 1 .. n + 1
  BY <1>2
<1> QED BY <1>2, <1>3, TheChains

\* AddAdvisePacket's walk: behind the packets that are earlier.
LEMMA InsertPlace ==
    ASSUME NEW n, NEW L, NEW c, NEW C, Linked(m_next, n, L, m_pAdviseCache, c, C, {}),
           NEW P, NEW K, NEW m, Ordered(n, L, m_rtEventTime, P, K, m),
           m_rtEventTime["z"] = MAX_TIME, NEW t \in Int, t <= MAX_TIME
    PROVE  \E k \in 0 .. n : /\ InsertAfter(t) = L[k]
                             /\ \A i \in 1 .. n : i <= k => m_rtEventTime[L[i]] <= t
                             /\ \A i \in 1 .. n : i > k => t <= m_rtEventTime[L[i]]
<1> DEFINE S == {i \in DOMAIN ListNodes : m_rtEventTime[m_next[ListNodes[i]]] >= t}
<1>0. PICK U : U = {i \in 1 .. n + 1 : m_rtEventTime[L[i]] >= t}
  OBVIOUS
<1>1. n \in Nat /\ L[n + 1] = "z" /\ \A i \in 0 .. n : m_next[L[i]] = L[i + 1]
  BY DEF Linked
<1>2. /\ DOMAIN ListNodes = 1 .. n + 1
      /\ \A i \in 1 .. n + 1 : m_next[ListNodes[i]] = L[i]
  <2>1. DOMAIN ListNodes = 1 .. n + 1 /\ \A i \in 1 .. n + 1 : ListNodes[i] = L[i - 1]
    BY TheChains
  <2>2. \A i \in 1 .. n + 1 : i - 1 \in 0 .. n /\ (i - 1) + 1 = i
    BY <1>1
  <2> QED BY <1>1, <2>1, <2>2
<1>3. S = U
  BY <1>0, <1>2
<1>4. n + 1 \in U
  <2>1. MAX_TIME \in Int /\ n + 1 \in 1 .. n + 1
    BY <1>1, ReferenceClockAssumption DEF MAX_TIME, Ms
  <2> QED BY <1>0, <1>1, <2>1
<1>5. InsertAfter(t) = WalkEnd(U)
  BY <1>3 DEF InsertAfter
<1>6. U \subseteq 1 .. n + 1 /\ \A i \in 1 .. n + 1 : i \in U <=> m_rtEventTime[L[i]] >= t
  BY <1>0
<1> HIDE DEF S
<1>7. PICK k \in 0 .. n : WalkEnd(U) = L[k] /\ k + 1 \in U /\ \A i \in 1 .. k : i \notin U
  <2>1. U \subseteq 1 .. n + 1 /\ n + 1 \in U
    BY <1>4, <1>6
  <2>2. Linked(m_next, n, L, m_pAdviseCache, c, C, {})
    OBVIOUS
  <2>3. Min(U) \in U /\ (\A x \in U : Min(U) <= x) /\ ListNodes[Min(U)] = L[Min(U) - 1]
    BY <2>1, <2>2, Walking
  <2> DEFINE j == Min(U)
  <2>4. j \in U /\ (\A x \in U : j <= x) /\ ListNodes[j] = L[j - 1] /\ WalkEnd(U) = ListNodes[j]
    BY <2>3 DEF WalkEnd
  <2> HIDE DEF j
  <2>5. j \in 1 .. n + 1 /\ j - 1 \in 0 .. n /\ (j - 1) + 1 = j /\ \A i \in 1 .. j - 1 : i \notin U
    BY <1>1, <2>1, <2>4
  <2> QED BY <2>4, <2>5
<1>8. \A i \in 1 .. n : m_rtEventTime[L[i]] \in Int
  BY DEF Ordered
<1>9. ASSUME NEW i \in 1 .. n, i <= k PROVE m_rtEventTime[L[i]] <= t
  <2>1. i \in 1 .. k /\ i \in 1 .. n + 1
    BY <1>1, <1>9
  <2> QED BY <1>6, <1>7, <1>8, <2>1
<1>10. ASSUME NEW i \in 1 .. n, i > k PROVE t <= m_rtEventTime[L[i]]
  <2>1. k + 1 \in 1 .. n /\ k + 1 \in 1 .. n + 1 /\ (k + 1 < i \/ k + 1 = i)
    BY <1>1, <1>10
  <2>2. m_rtEventTime[L[k + 1]] >= t
    BY <1>6, <1>7, <2>1
  <2>3. m_rtEventTime[L[k + 1]] <= m_rtEventTime[L[i]]
    BY <1>8, <2>1 DEF Ordered
  <2> QED BY <1>8, <2>1, <2>2, <2>3
<1> QED BY <1>5, <1>7, <1>9, <1>10

\* ShuntHead's walk, when the time of the first packet is t: behind those that are
\* not later, itself one of them.
LEMMA ShuntPlace ==
    ASSUME NEW n, NEW L, NEW c, NEW C, Linked(m_next, n, L, m_pAdviseCache, c, C, {}),
           NEW P, NEW K, NEW m, Ordered(n, L, m_rtEventTime, P, K, m), n > 0,
           m_rtEventTime["z"] = MAX_TIME, NEW t \in Int, t < MAX_TIME
    PROVE  \E k \in 1 .. n : /\ ShuntBehind(t) = L[k]
                             /\ \A i \in 2 .. n : i <= k => m_rtEventTime[L[i]] <= t
                             /\ \A i \in 2 .. n : i > k => t <= m_rtEventTime[L[i]]
<1> DEFINE S == {i \in DOMAIN ListNodes :
                    LET next == m_next[ListNodes[i]]
                    IN (IF next = m_next["head"] THEN t ELSE m_rtEventTime[next]) > t}
<1>0. PICK U : U = {i \in 2 .. n + 1 : m_rtEventTime[L[i]] > t}
  OBVIOUS
<1>1. /\ n \in Nat /\ L[n + 1] = "z" /\ \A i \in 0 .. n : m_next[L[i]] = L[i + 1]
  BY DEF Linked
<1>2. /\ DOMAIN ListNodes = 1 .. n + 1 /\ m_next["head"] = L[1]
      /\ \A i \in 1 .. n + 1 : m_next[ListNodes[i]] = L[i]
  <2>1. /\ DOMAIN ListNodes = 1 .. n + 1 /\ \A i \in 1 .. n + 1 : ListNodes[i] = L[i - 1]
        /\ m_next["head"] = L[1]
    BY TheChains
  <2>2. \A i \in 1 .. n + 1 : i - 1 \in 0 .. n /\ (i - 1) + 1 = i
    BY <1>1
  <2> QED BY <1>1, <2>1, <2>2
<1>3. \A i \in 1 .. n + 1 : L[i] = L[1] <=> i = 1
  <2>1. \A i \in 1 .. n + 1 : i \in 0 .. n + 1 /\ 1 \in 0 .. n + 1
    BY <1>1
  <2> QED BY <2>1, NodesOnce
<1>4. S = {i \in 1 .. n + 1 : (IF i = 1 THEN t ELSE m_rtEventTime[L[i]]) > t}
  BY <1>2, <1>3
<1>5. ~(t > t) /\ \A i \in 1 .. n + 1 : i = 1 \/ i \in 2 .. n + 1
  BY <1>1
<1>6. \A i \in 2 .. n + 1 : i \in 1 .. n + 1 /\ i # 1
  BY <1>1
<1>7. S = U
  BY <1>0, <1>4, <1>5, <1>6
<1>8. n + 1 \in U
  <2>1. MAX_TIME \in Int /\ n + 1 \in 2 .. n + 1
    BY <1>1, ReferenceClockAssumption DEF MAX_TIME, Ms
  <2> QED BY <1>0, <1>1, <2>1
<1>9. ShuntBehind(t) = WalkEnd(U)
  BY <1>7 DEF ShuntBehind, ShuntAfter
<1>10. U \subseteq 1 .. n + 1 /\ \A i \in 1 .. n + 1 : i \in U <=> i \in 2 .. n + 1 /\ m_rtEventTime[L[i]] > t
  BY <1>0, <1>6
<1> HIDE DEF S
<1>11. PICK k \in 0 .. n : WalkEnd(U) = L[k] /\ k + 1 \in U /\ \A i \in 1 .. k : i \notin U
  <2>1. U \subseteq 1 .. n + 1 /\ n + 1 \in U
    BY <1>8, <1>10
  <2>2. Linked(m_next, n, L, m_pAdviseCache, c, C, {})
    OBVIOUS
  <2>3. Min(U) \in U /\ (\A x \in U : Min(U) <= x) /\ ListNodes[Min(U)] = L[Min(U) - 1]
    BY <2>1, <2>2, Walking
  <2> DEFINE j == Min(U)
  <2>4. j \in U /\ (\A x \in U : j <= x) /\ ListNodes[j] = L[j - 1] /\ WalkEnd(U) = ListNodes[j]
    BY <2>3 DEF WalkEnd
  <2> HIDE DEF j
  <2>5. j \in 1 .. n + 1 /\ j - 1 \in 0 .. n /\ (j - 1) + 1 = j /\ \A i \in 1 .. j - 1 : i \notin U
    BY <1>1, <2>1, <2>4
  <2> QED BY <2>4, <2>5
<1>12. k \in 1 .. n /\ m_rtEventTime[L[k + 1]] > t
  <2>1. k + 1 \in 2 .. n + 1 /\ m_rtEventTime[L[k + 1]] > t
    <3>1. k + 1 \in 1 .. n + 1
      BY <1>1
    <3> QED BY <1>10, <1>11, <3>1
  <2> QED BY <1>1, <2>1
<1>13. \A i \in 1 .. n : m_rtEventTime[L[i]] \in Int
  BY DEF Ordered
<1>14. ASSUME NEW i \in 2 .. n, i <= k PROVE m_rtEventTime[L[i]] <= t
  <2>1. i \in 1 .. k /\ i \in 1 .. n + 1 /\ i \in 2 .. n + 1 /\ i \in 1 .. n
    BY <1>1, <1>14
  <2>2. ~(m_rtEventTime[L[i]] > t) /\ m_rtEventTime[L[i]] \in Int
    BY <1>10, <1>11, <1>13, <2>1
  <2> QED BY <2>2
<1>15. ASSUME NEW i \in 2 .. n, i > k PROVE t <= m_rtEventTime[L[i]]
  <2>1. k + 1 \in 1 .. n /\ i \in 1 .. n /\ (k + 1 < i \/ k + 1 = i)
    BY <1>1, <1>15
  <2>2. m_rtEventTime[L[k + 1]] <= m_rtEventTime[L[i]]
    BY <1>13, <2>1 DEF Ordered
  <2> QED BY <1>12, <1>13, <2>1, <2>2
<1> QED BY <1>9, <1>11, <1>12, <1>14, <1>15

-----------------------------------------------------------------------------
(* The invariant.                                                           *)

\* The list and the cache are those of L and C.
Shape(n, L, c, C) ==
    /\ Linked(m_next, n, L, m_pAdviseCache, c, C, {})
    /\ Ordered(n, L, m_rtEventTime, m_rtPeriod, m_dwAdviseCookie, m_dwNextCookie)
    /\ m_dwAdviseCount = n /\ m_dwCacheCount = c /\ c <= CacheMax

\* The values of the variables.
Types ==
    /\ m_rtEventTime \in [Nodes -> Nat] /\ m_rtPeriod \in [Nodes -> Nat]
    /\ m_dwAdviseCookie \in [Nodes -> Nat] /\ m_rtEventTime["z"] = MAX_TIME
    /\ m_dwNextCookie \in 0 .. MaxAdvises /\ m_dwAdviseCount <= m_dwNextCookie
    /\ m_ev \in BOOLEAN /\ m_rtPrivateTime \in 0 .. Horizon /\ rtNow \in 0 .. Horizon
    /\ tpc \in {"wait", "woken", "advise", "exit"}
    /\ apc \in {"idle", "trigger", "join", "destroyed"}
    /\ dwWait \in Nat \cup {INFINITE} /\ late \in Nat
    /\ rung \in [Cookies -> Nat] /\ \A k \in Cookies : k > m_dwNextCookie => rung[k] = 0

\* While the thread works off the list it knows of the time that has passed since
\* it read the clock, unless it is told to look again.
KnowsTime ==
    tpc = "advise" /\ ~m_ev /\ apc # "trigger" /\ m_next["head"] # "z" =>
        m_rtPrivateTime <= rtNow + late

ClockInv == Types /\ KnowsTime /\ WakesInTime /\ \E n, L, c, C : Shape(n, L, c, C)

\* What a shape says of the ends of the list.
LEMMA ShapeFacts ==
    ASSUME NEW n, NEW L, NEW c, NEW C, Shape(n, L, c, C)
    PROVE  /\ n \in Nat /\ c \in Nat /\ Linked(m_next, n, L, m_pAdviseCache, c, C, {})
           /\ L[0] = "head" /\ L[n + 1] = "z" /\ m_next["head"] = L[1]
           /\ \A i \in 1 .. n : L[i] \in Packets
           /\ \A i \in 0 .. n + 1 : L[i] \in Nodes
           /\ \A i \in 0 .. n : m_next[L[i]] = L[i + 1]
           /\ (m_next["head"] = "z") = (n = 0)
           /\ n > 0 => L[1] \in Packets
<1>1. /\ n \in Nat /\ c \in Nat /\ Linked(m_next, n, L, m_pAdviseCache, c, C, {})
      /\ L[0] = "head" /\ L[n + 1] = "z"
      /\ \A i \in 1 .. n : L[i] \in Packets
      /\ \A i \in 0 .. n + 1 : L[i] \in Nodes
      /\ \A i \in 0 .. n : m_next[L[i]] = L[i + 1]
  BY DEF Shape, Linked
<1>2. m_next["head"] = L[1]
  BY <1>1, TheChains
<1>3. (n = 0 => n + 1 = 1) /\ (n > 0 => 1 \in 1 .. n) /\ (n = 0 \/ n > 0)
  BY <1>1
<1> QED BY <1>1, <1>2, <1>3, NodesApart

\* At first the list and the cache are empty.
LEMMA InitClock == ClockInit => ClockInv
<1> SUFFICES ASSUME ClockInit PROVE ClockInv
  OBVIOUS
<1> USE DEF ClockInit
<1> DEFINE L == [i \in 0 .. 0 + 1 |-> IF i = 0 THEN "head" ELSE "z"]
           C == [i \in 1 .. 0 + 1 |-> "null"]
<1>1. Types
  <2>1. MAX_TIME \in Nat
    BY ReferenceClockAssumption DEF MAX_TIME, Ms
  <2>2. /\ m_rtEventTime \in [Nodes -> Nat] /\ m_rtPeriod \in [Nodes -> Nat]
        /\ m_dwAdviseCookie \in [Nodes -> Nat] /\ m_rtEventTime["z"] = MAX_TIME
    BY <2>1, NodesApart
  <2>3. MaxAdvises \in Nat /\ 0 \in 0 .. MaxAdvises /\ 0 \in 0 .. Horizon
    BY ReferenceClockAssumption
  <2>4. rung \in [Cookies -> Nat] /\ \A k \in Cookies : rung[k] = 0
    OBVIOUS
  <2>5. /\ m_dwNextCookie = 0 /\ m_dwAdviseCount = 0 /\ m_ev = FALSE /\ m_rtPrivateTime = 0
        /\ rtNow = 0 /\ tpc = "wait" /\ apc = "idle" /\ dwWait = INFINITE /\ late = 0
    OBVIOUS
  <2> HIDE DEF ClockInit
  <2>6. \A k \in Cookies : k > m_dwNextCookie => rung[k] = 0
    BY <2>4
  <2>7. m_dwNextCookie \in 0 .. MaxAdvises /\ m_dwAdviseCount <= m_dwNextCookie
    BY <2>3, <2>5
  <2>8. m_rtPrivateTime \in 0 .. Horizon /\ rtNow \in 0 .. Horizon /\ late \in Nat
    BY <2>3, <2>5
  <2>9. m_ev \in BOOLEAN /\ tpc \in {"wait", "woken", "advise", "exit"}
        /\ apc \in {"idle", "trigger", "join", "destroyed"} /\ dwWait \in Nat \cup {INFINITE}
    BY <2>5
  <2> QED BY <2>2, <2>4, <2>6, <2>7, <2>8, <2>9 DEF Types
<1>2. Linked(m_next, 0, L, m_pAdviseCache, 0, C, {})
  <2>1. m_next \in [Nodes -> Nodes \cup {"null"}]
    BY NodesApart
  <2>2. L \in [0 .. 0 + 1 -> Nodes]
    BY NodesApart
  <2>3. m_next["head"] = "z" /\ m_next["z"] = "null" /\ \A p \in Packets : m_next[p] = "null"
    BY NodesApart
  <2>4. /\ L[0] = "head" /\ L[0 + 1] = "z" /\ \A i \in 0 .. 0 : i = 0
        /\ C \in [1 .. 0 + 1 -> Packets \cup {"null"}] /\ C[1] = "null" /\ C[0 + 1] = "null"
        /\ m_pAdviseCache = "null"
    OBVIOUS
  <2>5. 1 .. 0 = {}
    OBVIOUS
  <2>6. m_next[L[0]] = L[0 + 1]
    BY <2>3, <2>4
  <2> HIDE DEF L, C, ClockInit
  <2> QED BY <2>1, <2>2, <2>3, <2>4, <2>5, <2>6 DEF Linked
<1>3. Ordered(0, L, m_rtEventTime, m_rtPeriod, m_dwAdviseCookie, m_dwNextCookie)
  <2> HIDE DEF L, ClockInit
  <2> QED BY DEF Ordered
<1>4. Shape(0, L, 0, C)
  <2> HIDE DEF L, C
  <2> QED BY <1>2, <1>3, ReferenceClockAssumption DEF Shape
<1>5. KnowsTime /\ WakesInTime
  BY NodesApart DEF KnowsTime, WakesInTime
<1> HIDE DEF L, C
<1> QED BY <1>1, <1>4, <1>5 DEF ClockInv

\* There is always a packet that is not on the list.
LEMMA PacketLeft ==
    ASSUME NEW n, NEW L, NEW c, NEW C, Shape(n, L, c, C), Types, m_dwNextCookie < MaxAdvises
    PROVE  \E q \in Packets : q \notin InChain(List)
<1> DEFINE T == InChain(List)
           f == [i \in 1 .. n |-> L[i]]
<1>1. n \in Nat /\ List = f /\ T = {L[i] : i \in 1 .. n}
  BY ShapeFacts, TheChains DEF InChain
<1>2. f \in Surjection(1 .. n, T)
  BY <1>1 DEF Surjection
<1>3. IsFiniteSet(1 .. n) /\ Cardinality(1 .. n) = n
  <2>1. 1 \in Int /\ n \in Int /\ (1 > n => n = 0)
    BY <1>1
  <2>2. IsFiniteSet(1 .. n) /\ Cardinality(1 .. n) = IF 1 > n THEN 0 ELSE n - 1 + 1
    BY <2>1, FS_Interval
  <2> QED BY <1>1, <2>1, <2>2
<1> HIDE DEF T, f
<1>4. IsFiniteSet(T) /\ Cardinality(T) <= n
  <2>1. IsFiniteSet(T) /\ Cardinality(T) <= Cardinality(1 .. n)
    BY <1>2, <1>3, FS_Surjection
  <2> QED BY <1>3, <2>1
<1>5. n < MaxAdvises /\ MaxAdvises + CacheMax <= Cardinality(Packets)
  BY <1>1, ReferenceClockAssumption DEF Shape, Types
<1>6. ASSUME Packets \subseteq T PROVE FALSE
  <2>1. Packets \in SUBSET T
    BY <1>6
  <2>2. Cardinality(Packets) <= Cardinality(T)
    BY <1>4, <2>1, FS_Subset
  <2>3. Cardinality(Packets) \in Nat /\ Cardinality(T) \in Nat
    BY <1>4, ReferenceClockAssumption, FS_CardinalityType
  <2> QED BY <1>1, <1>4, <1>5, <2>2, <2>3, ReferenceClockAssumption
<1> QED BY <1>6 DEF T

-----------------------------------------------------------------------------
(* What the steps do to the list.                                           *)

\* AddAdvisePacket puts a packet behind the k-th node.
LEMMA Adding ==
    ASSUME NEW n, NEW L, NEW c, NEW C, Shape(n, L, c, C), Types,
           NEW time \in Times, NEW period \in Periods, AddAdvisePacket(time, period)
    PROVE  \E k, p, d, D :
              /\ k \in 0 .. n /\ p \in Packets
              /\ Shape(n + 1, Longer(n, L, k, p), d, D)'
              /\ \A i \in 1 .. n : L[i] # p
              /\ m_rtEventTime' = [m_rtEventTime EXCEPT ![p] = time]
              /\ m_rtPeriod' = [m_rtPeriod EXCEPT ![p] = period]
              /\ m_dwAdviseCookie' = [m_dwAdviseCookie EXCEPT ![p] = m_dwNextCookie + 1]
              /\ m_ev' = (m_ev \/ k = 0)
<1>1. /\ n \in Nat /\ c \in Nat /\ Linked(m_next, n, L, m_pAdviseCache, c, C, {})
      /\ L[0] = "head"
      /\ Ordered(n, L, m_rtEventTime, m_rtPeriod, m_dwAdviseCookie, m_dwNextCookie)
      /\ m_dwAdviseCount = n /\ m_dwCacheCount = c /\ c <= CacheMax
  BY ShapeFacts DEF Shape
<1>2. PICK p \in Packets :
          /\ IF m_pAdviseCache # "null"
               THEN /\ p = m_pAdviseCache /\ m_pAdviseCache' = m_next[p]
                    /\ m_dwCacheCount' = m_dwCacheCount - 1
               ELSE /\ p = CHOOSE q \in Packets : q \notin InChain(List)
                    /\ UNCHANGED cacheVars
          /\ m_next' = [m_next EXCEPT ![p] = m_next[InsertAfter(time)], ![InsertAfter(time)] = p]
          /\ m_ev' = (m_ev \/ FirstToFire(InsertAfter(time)))
          /\ m_rtEventTime' = [m_rtEventTime EXCEPT ![p] = time]
          /\ m_rtPeriod' = [m_rtPeriod EXCEPT ![p] = period]
          /\ m_dwAdviseCookie' = [m_dwAdviseCookie EXCEPT ![p] = m_dwNextCookie + 1]
  BY DEF AddAdvisePacket
<1>3. \E d, D : /\ Linked(m_next, n, L, m_pAdviseCache', d, D, {p})
                /\ m_dwCacheCount' = d /\ d <= CacheMax
  <2>1. CASE m_pAdviseCache # "null"
    <3>1. c > 0 /\ Linked(m_next, n, L, m_next[m_pAdviseCache], c - 1, Popped(c, C), {m_pAdviseCache})
      BY <1>1, <2>1, Popping
    <3>2. c - 1 <= CacheMax
      BY <1>1, ReferenceClockAssumption
    <3> QED BY <1>1, <1>2, <2>1, <3>1, <3>2
  <2>2. CASE m_pAdviseCache = "null"
    <3>1. p = (CHOOSE q \in Packets : q \notin InChain(List)) /\ UNCHANGED cacheVars
      BY <1>2, <2>2
    <3>2. m_dwNextCookie < MaxAdvises
      BY DEF AddAdvisePacket
    <3>3. p \notin InChain(List)
      BY <3>1, <3>2, PacketLeft
    <3>4. \A i \in 1 .. n : L[i] # p
      BY <1>1, <3>3, TheChains DEF InChain
    <3>5. Linked(m_next, n, L, m_pAdviseCache, c, C, {p})
      BY <1>1, <2>2, <3>4, Creating
    <3> QED BY <1>1, <3>1, <3>5 DEF cacheVars
  <2> QED BY <2>1, <2>2
<1>4. PICK d, D : /\ Linked(m_next, n, L, m_pAdviseCache', d, D, {p})
                  /\ m_dwCacheCount' = d /\ d <= CacheMax
  BY <1>3
<1>5. \A i \in 1 .. n : L[i] # p /\ L[i] \in Nodes
  BY <1>4, NodesApart DEF Linked
<1>6. time \in 1 .. MAX_TIME - 1 /\ time \in Int /\ time <= MAX_TIME /\ period \in 0 .. Horizon - 1
  <2>1. time \in 1 .. Horizon - 1 /\ period \in 0 .. Horizon - 1 /\ Horizon \in Nat
    BY ReferenceClockAssumption
  <2> QED BY <2>1, ReferenceClockAssumption DEF MAX_TIME, Ms
<1>7. PICK k \in 0 .. n : /\ InsertAfter(time) = L[k]
                          /\ \A i \in 1 .. n : i <= k => m_rtEventTime[L[i]] <= time
                          /\ \A i \in 1 .. n : i > k => time <= m_rtEventTime[L[i]]
  BY <1>1, <1>6, InsertPlace DEF Types
<1>8. Linked(m_next', n + 1, Longer(n, L, k, p), m_pAdviseCache', d, D, {})
  <2>1. Linked([m_next EXCEPT ![p] = m_next[L[k]], ![L[k]] = p], n + 1, Longer(n, L, k, p),
               m_pAdviseCache', d, D, {})
    BY <1>4, Inserting
  <2>2. m_next' = [m_next EXCEPT ![p] = m_next[L[k]], ![L[k]] = p]
    BY <1>2, <1>7
  <2> QED BY <2>1, <2>2
<1>9. /\ m_dwNextCookie \in Nat /\ m_dwNextCookie' = m_dwNextCookie + 1 /\ m_dwAdviseCount' = n + 1
      /\ m_dwNextCookie' \in Nat /\ m_dwNextCookie <= m_dwNextCookie'
      /\ m_dwNextCookie + 1 \in 1 .. m_dwNextCookie'
  BY <1>1 DEF Types, AddAdvisePacket
<1>10. /\ m_rtEventTime'[p] = time /\ m_rtPeriod'[p] = period
       /\ m_dwAdviseCookie'[p] = m_dwNextCookie + 1
       /\ \A i \in 1 .. n : /\ m_rtEventTime'[L[i]] = m_rtEventTime[L[i]]
                            /\ m_rtPeriod'[L[i]] = m_rtPeriod[L[i]]
                            /\ m_dwAdviseCookie'[L[i]] = m_dwAdviseCookie[L[i]]
  BY <1>2, <1>5, NodesApart DEF Types
<1>11. \A i \in 1 .. n : m_dwAdviseCookie[L[i]] # m_dwNextCookie + 1
  BY <1>1, <1>9 DEF Ordered
<1>12. Ordered(n + 1, Longer(n, L, k, p), m_rtEventTime', m_rtPeriod', m_dwAdviseCookie',
               m_dwNextCookie')
  <2>1. /\ m_rtEventTime'[p] \in 1 .. MAX_TIME - 1 /\ m_rtPeriod'[p] \in 0 .. Horizon - 1
        /\ m_dwAdviseCookie'[p] \in 1 .. m_dwNextCookie'
        /\ \A i \in 1 .. n : m_dwAdviseCookie[L[i]] # m_dwAdviseCookie'[p]
    BY <1>6, <1>9, <1>10, <1>11
  <2>2. /\ \A i \in 1 .. n : i <= k => m_rtEventTime[L[i]] <= m_rtEventTime'[p]
        /\ \A i \in 1 .. n : i > k => m_rtEventTime'[p] <= m_rtEventTime[L[i]]
    BY <1>7, <1>10
  <2>3. /\ n \in Nat /\ m_dwNextCookie \in Nat /\ m_dwNextCookie' \in Nat
        /\ m_dwNextCookie <= m_dwNextCookie'
        /\ Ordered(n, L, m_rtEventTime, m_rtPeriod, m_dwAdviseCookie, m_dwNextCookie)
    BY <1>1, <1>9
  <2>4. \A i \in 1 .. n : m_rtEventTime'[L[i]] = m_rtEventTime[L[i]]
                           /\ m_rtPeriod'[L[i]] = m_rtPeriod[L[i]]
                           /\ m_dwAdviseCookie'[L[i]] = m_dwAdviseCookie[L[i]]
    BY <1>10
  <2>5. PICK T, P, K, T2, P2, K2, m, m2 :
           /\ T = m_rtEventTime /\ P = m_rtPeriod /\ K = m_dwAdviseCookie /\ m = m_dwNextCookie
           /\ T2 = m_rtEventTime' /\ P2 = m_rtPeriod' /\ K2 = m_dwAdviseCookie' /\ m2 = m_dwNextCookie'
    OBVIOUS
  <2>7. /\ n \in Nat /\ m \in Nat /\ Ordered(n, L, T, P, K, m) /\ k \in 0 .. n
        /\ m2 \in Nat /\ m <= m2
        /\ T2[p] \in 1 .. MAX_TIME - 1 /\ P2[p] \in 0 .. Horizon - 1 /\ K2[p] \in 1 .. m2
    BY <2>1, <2>3, <2>5
  <2>8. Same(1 .. n, L, T, P, K, T2, P2, K2)
    BY <2>4, <2>5 DEF Same
  <2>9. Fits(n, L, k, T, K, T2[p], K2[p])
    BY <2>1, <2>2, <2>5 DEF Fits
  <2>6. Ordered(n + 1, Longer(n, L, k, p), T2, P2, K2, m2)
    BY <2>7, <2>8, <2>9, OrderedInsert
  <2> QED BY <2>5, <2>6
<1>13. Shape(n + 1, Longer(n, L, k, p), d, D)'
  BY <1>4, <1>8, <1>9, <1>12 DEF Shape
<1>14. FirstToFire(InsertAfter(time)) = (k = 0)
  <2>1. k \in 0 .. n + 1 /\ 0 \in 0 .. n + 1
    BY <1>1
  <2>2. L[k] = "head" => k = 0
    BY <1>1, <2>1, NodesOnce
  <2> QED BY <1>1, <1>7, <2>2 DEF FirstToFire
<1> QED BY <1>2, <1>5, <1>13, <1>14

\* Remove takes the packet behind the k-th node.
LEMMA Removing ==
    ASSUME NEW n, NEW L, NEW c, NEW C, Shape(n, L, c, C), Types, NEW k \in 0 .. n - 1,
           Remove(L[k]), UNCHANGED m_dwNextCookie
    PROVE  /\ \E d, D : Shape(n - 1, Shorter(n, L, k), d, D)'
           /\ m_rtEventTime' = [m_rtEventTime EXCEPT ![L[k + 1]] = 0]
           /\ m_rtPeriod' = [m_rtPeriod EXCEPT ![L[k + 1]] = 0]
           /\ m_dwAdviseCookie' = [m_dwAdviseCookie EXCEPT ![L[k + 1]] = 0]
<1>1. /\ n \in Nat /\ c \in Nat /\ Linked(m_next, n, L, m_pAdviseCache, c, C, {})
      /\ Ordered(n, L, m_rtEventTime, m_rtPeriod, m_dwAdviseCookie, m_dwNextCookie)
      /\ m_dwAdviseCount = n /\ m_dwCacheCount = c /\ c <= CacheMax
  BY ShapeFacts DEF Shape
<1> DEFINE p == L[k + 1]
           g == [m_next EXCEPT ![L[k]] = m_next[p]]
<1>2. k + 1 \in 1 .. n /\ k \in 0 .. n /\ k \in 0 .. n + 1
  BY <1>1
<1>3. m_next[L[k]] = p /\ p \in Packets /\ p \in Nodes /\ L[k] \in Nodes
  BY <1>2, ShapeFacts, NodesApart
<1>4. Linked(g, n - 1, Shorter(n, L, k), m_pAdviseCache, c, C, {p})
  BY <1>1, Unlinking
<1>5. /\ m_next' = [m_next EXCEPT ![L[k]] = m_next[p],
                                  ![p] = IF MayCache THEN m_pAdviseCache ELSE "null"]
      /\ m_pAdviseCache' = (IF MayCache THEN p ELSE m_pAdviseCache)
      /\ m_dwCacheCount' = (IF MayCache THEN m_dwCacheCount + 1 ELSE m_dwCacheCount)
      /\ m_dwAdviseCount' = m_dwAdviseCount - 1
      /\ m_rtEventTime' = [m_rtEventTime EXCEPT ![p] = 0]
      /\ m_rtPeriod' = [m_rtPeriod EXCEPT ![p] = 0]
      /\ m_dwAdviseCookie' = [m_dwAdviseCookie EXCEPT ![p] = 0]
  BY <1>3 DEF Remove
<1>6. m_next' = [g EXCEPT ![p] = IF MayCache THEN m_pAdviseCache ELSE "null"]
  BY <1>5
<1> HIDE DEF g
<1>7. \E d, D : /\ Linked(m_next', n - 1, Shorter(n, L, k), m_pAdviseCache', d, D, {})
                /\ m_dwCacheCount' = d /\ d <= CacheMax
  <2>1. CASE MayCache
    <3>1. Linked([g EXCEPT ![p] = m_pAdviseCache], n - 1, Shorter(n, L, k), p, c + 1,
                 Pushed(c, C, p), {})
      BY <1>3, <1>4, Pushing
    <3>2. c + 1 <= CacheMax
      BY <1>1, <2>1, ReferenceClockAssumption DEF MayCache
    <3>3. m_next' = [g EXCEPT ![p] = m_pAdviseCache] /\ m_pAdviseCache' = p /\ m_dwCacheCount' = c + 1
      BY <1>1, <1>5, <1>6, <2>1
    <3> QED BY <3>1, <3>2, <3>3
  <2>2. CASE ~MayCache
    <3>1. Linked([g EXCEPT ![p] = "null"], n - 1, Shorter(n, L, k), m_pAdviseCache, c, C, {})
      BY <1>3, <1>4, Dropping
    <3>2. m_next' = [g EXCEPT ![p] = "null"] /\ m_pAdviseCache' = m_pAdviseCache /\ m_dwCacheCount' = c
      BY <1>1, <1>5, <1>6, <2>2
    <3> QED BY <1>1, <3>1, <3>2
  <2> QED BY <2>1, <2>2
<1>8. PICK d, D : /\ Linked(m_next', n - 1, Shorter(n, L, k), m_pAdviseCache', d, D, {})
                  /\ m_dwCacheCount' = d /\ d <= CacheMax
  BY <1>7
<1>9. ASSUME NEW i \in 1 .. n, i # k + 1
      PROVE  /\ m_rtEventTime'[L[i]] = m_rtEventTime[L[i]]
             /\ m_rtPeriod'[L[i]] = m_rtPeriod[L[i]]
             /\ m_dwAdviseCookie'[L[i]] = m_dwAdviseCookie[L[i]]
  <2>1. i \in 0 .. n + 1 /\ k + 1 \in 0 .. n + 1
    BY <1>1, <1>2
  <2>2. L[i] # p /\ L[i] \in Nodes
    BY <1>1, <1>9, <2>1, NodesOnce, ShapeFacts
  <2> HIDE DEF p
  <2> QED BY <1>3, <1>5, <2>2 DEF Types
<1>10. Ordered(n - 1, Shorter(n, L, k), m_rtEventTime', m_rtPeriod', m_dwAdviseCookie',
               m_dwNextCookie')
  <2>1. PICK T, P, K, T2, P2, K2, m :
           /\ T = m_rtEventTime /\ P = m_rtPeriod /\ K = m_dwAdviseCookie /\ m = m_dwNextCookie
           /\ T2 = m_rtEventTime' /\ P2 = m_rtPeriod' /\ K2 = m_dwAdviseCookie'
    OBVIOUS
  <2>2. Ordered(n, L, T, P, K, m) /\ n \in Nat
    BY <1>1, <2>1
  <2>3. Same((1 .. n) \ {k + 1}, L, T, P, K, T2, P2, K2)
    BY <1>9, <2>1 DEF Same
  <2>4. Ordered(n - 1, Shorter(n, L, k), T2, P2, K2, m)
    BY <2>2, <2>3, OrderedRemove
  <2> QED BY <2>1, <2>4
<1>11. Shape(n - 1, Shorter(n, L, k), d, D)'
  BY <1>1, <1>5, <1>8, <1>10 DEF Shape
<1> QED BY <1>5, <1>11

\* AdvisePeriodic moves the first packet behind the k-th node of the others.
LEMMA Shunting ==
    ASSUME NEW n, NEW L, NEW c, NEW C, Shape(n, L, c, C), Types, AdvisePeriodic
    PROVE  /\ n > 0
           /\ \E k \in 0 .. n - 1 : Shape(n, Longer(n - 1, Shorter(n, L, 0), k, L[1]), c, C)'
           /\ m_rtEventTime' = [m_rtEventTime EXCEPT ![L[1]] = @ + m_rtPeriod[L[1]]]
           /\ UNCHANGED <<m_rtPeriod, m_dwAdviseCookie>>
<1> DEFINE p == L[1]
           t == m_rtEventTime[p] + m_rtPeriod[p]
           M == Shorter(n, L, 0)
           g == [m_next EXCEPT !["head"] = m_next[p]]
<1>1. /\ n \in Nat /\ c \in Nat /\ Linked(m_next, n, L, m_pAdviseCache, c, C, {})
      /\ L[0] = "head" /\ m_next["head"] = p /\ n > 0
      /\ Ordered(n, L, m_rtEventTime, m_rtPeriod, m_dwAdviseCookie, m_dwNextCookie)
      /\ m_dwAdviseCount = n /\ m_dwCacheCount = c /\ c <= CacheMax
  <2>1. m_next["head"] # "z"
    BY DEF AdvisePeriodic, HeadExpired
  <2> QED BY <2>1, ShapeFacts DEF Shape
<1>2. p \in Packets /\ p \in Nodes /\ p # "head"
  BY <1>1, ShapeFacts, NodesApart
<1>3. /\ m_rtEventTime' = [m_rtEventTime EXCEPT ![p] = t]
      /\ m_next' = IF ShuntBehind(t) = p THEN m_next
                   ELSE [m_next EXCEPT !["head"] = m_next[p], ![ShuntBehind(t)] = p,
                                       ![p] = m_next[ShuntBehind(t)]]
      /\ UNCHANGED <<m_rtPeriod, m_dwAdviseCookie, m_pAdviseCache, m_dwCacheCount,
                     m_dwNextCookie, m_dwAdviseCount>>
  BY <1>1 DEF AdvisePeriodic, cacheVars, countVars
<1>4. t \in 1 .. MAX_TIME - 1 /\ t \in Int /\ t < MAX_TIME
  <2>1. 1 \in 1 .. n
    BY <1>1
  <2>2. m_rtEventTime[p] \in 1 .. MAX_TIME - 1 /\ m_rtPeriod[p] \in 0 .. Horizon - 1
    BY <1>1, <2>1 DEF Ordered
  <2>3. rtNow + Resolution >= m_rtEventTime[p] /\ rtNow \in 0 .. Horizon
    BY <1>1 DEF AdvisePeriodic, HeadExpired, Types
  <2> HIDE DEF p
  <2> QED BY <2>2, <2>3, ReferenceClockAssumption DEF Resolution, MAX_TIME, Ms
<1>5. PICK k \in 1 .. n : /\ ShuntBehind(t) = L[k]
                          /\ \A i \in 2 .. n : i <= k => m_rtEventTime[L[i]] <= t
                          /\ \A i \in 2 .. n : i > k => t <= m_rtEventTime[L[i]]
  <2> HIDE DEF t
  <2> QED BY <1>1, <1>4, ShuntPlace DEF Types
<1>6. \A i \in 0 .. n + 1, j \in 0 .. n + 1 : L[i] = L[j] => i = j
  BY <1>1, NodesOnce
<1>7. /\ k - 1 \in 0 .. n - 1 /\ n - 1 \in Nat /\ 0 \in 0 .. n - 1 /\ (n - 1) + 1 = n /\ 0 + 1 = 1
      /\ k \in 0 .. n + 1 /\ 1 \in 0 .. n + 1 /\ k \in 1 .. n
  BY <1>1
<1>8. /\ M[0] = "head"
      /\ \A i \in 1 .. n - 1 : M[i] = L[i + 1] /\ i + 1 \in 1 .. n /\ i + 1 # 1 /\ i + 1 \in 2 .. n
  BY <1>1 DEF Shorter
<1>9. Linked(m_next', n, Longer(n - 1, M, k - 1, p), m_pAdviseCache, c, C, {})
  <2>1. CASE k = 1
    <3>1. m_next' = m_next
      BY <1>3, <1>5, <2>1
    <3>2. ASSUME NEW i \in 0 .. n + 1 PROVE L[i] = Longer(n - 1, M, k - 1, p)[i]
      <4>1. i \in 0 .. (n - 1) + 2
        BY <1>1
      <4>2. CASE i = 0
        BY <1>1, <1>8, <2>1, <4>1, <4>2 DEF Longer
      <4>3. CASE i = 1
        BY <2>1, <4>1, <4>3 DEF Longer
      <4>4. CASE i > 1
        <5>1. i - 1 \in 0 .. n /\ ~(i - 1 <= 0) /\ (i - 1) + 1 = i
          BY <1>1, <4>4
        <5>2. M[i - 1] = L[(i - 1) + 1]
          BY <5>1 DEF Shorter
        <5>3. Longer(n - 1, M, k - 1, p)[i] = M[i - 1]
          BY <2>1, <4>1, <4>4 DEF Longer
        <5> QED BY <5>1, <5>2, <5>3
      <4> QED BY <4>2, <4>3, <4>4
    <3>3. Longer(n - 1, M, k - 1, p) = [i \in 0 .. n + 1 |-> Longer(n - 1, M, k - 1, p)[i]]
      <4>1. (n - 1) + 2 = n + 1
        BY <1>1
      <4> QED BY <4>1 DEF Longer
    <3>4. L = [i \in 0 .. n + 1 |-> L[i]]
      BY <1>1 DEF Linked
    <3> HIDE DEF M, p
    <3>5. L = Longer(n - 1, M, k - 1, p)
      BY <3>2, <3>3, <3>4
    <3> QED BY <1>1, <3>1, <3>5
  <2>2. CASE k # 1
    <3>1. L[k] # p /\ L[k] # "head" /\ L[k] \in Nodes
      BY <1>1, <1>6, <1>7, <2>2, ShapeFacts, NodesApart
    <3>2. M[k - 1] = L[k]
      <4>1. k - 1 \in 1 .. n - 1 /\ (k - 1) + 1 = k
        BY <1>1, <2>2
      <4> QED BY <1>8, <4>1
    <3>3. Linked(g, n - 1, M, m_pAdviseCache, c, C, {p})
      <4>1. Linked([m_next EXCEPT ![L[0]] = m_next[L[0 + 1]]], n - 1, Shorter(n, L, 0),
                   m_pAdviseCache, c, C, {L[0 + 1]})
        BY <1>1, <1>7, Unlinking
      <4> QED BY <1>1, <1>7, <4>1
    <3>4. Linked([g EXCEPT ![p] = g[M[k - 1]], ![M[k - 1]] = p], (n - 1) + 1,
                 Longer(n - 1, M, k - 1, p), m_pAdviseCache, c, C, {})
      <4> HIDE DEF g, M, p
      <4> QED BY <1>2, <1>7, <3>3, Inserting
    <3>5. m_next' = [g EXCEPT ![p] = g[M[k - 1]], ![M[k - 1]] = p]
      <4>1. m_next' = [m_next EXCEPT !["head"] = m_next[p], ![L[k]] = p, ![p] = m_next[L[k]]]
        BY <1>3, <1>5, <3>1
      <4>2. g[L[k]] = m_next[L[k]] /\ m_next \in [Nodes -> Nodes \cup {"null"}]
        BY <1>1, <3>1 DEF Linked
      <4> HIDE DEF p
      <4>3. [m_next EXCEPT !["head"] = m_next[p], ![L[k]] = p, ![p] = m_next[L[k]]]
              = [m_next EXCEPT !["head"] = m_next[p], ![p] = m_next[L[k]], ![L[k]] = p]
        BY <1>2, <3>1, <4>2
      <4> QED BY <3>2, <4>1, <4>2, <4>3
    <3> HIDE DEF g, M, p
    <3> QED BY <1>7, <3>4, <3>5
  <2> QED BY <2>1, <2>2
<1>10. /\ \A i \in 1 .. n : i # 1 => m_rtEventTime'[L[i]] = m_rtEventTime[L[i]]
       /\ m_rtEventTime'[p] = t
  <2>1. \A i \in 1 .. n : i \in 0 .. n + 1
    BY <1>1
  <2>2. \A i \in 1 .. n : i # 1 => L[i] # p /\ L[i] \in Nodes
    BY <1>6, <1>7, <2>1, ShapeFacts
  <2> HIDE DEF p, t
  <2> QED BY <1>2, <1>3, <2>2 DEF Types
<1>11. Ordered(n, Longer(n - 1, M, k - 1, p), m_rtEventTime', m_rtPeriod', m_dwAdviseCookie',
               m_dwNextCookie')
  <2>1. PICK T, P, K, T2, m :
           /\ T = m_rtEventTime /\ P = m_rtPeriod /\ K = m_dwAdviseCookie /\ m = m_dwNextCookie
           /\ T2 = m_rtEventTime'
    OBVIOUS
  <2>2. Ordered(n, L, T, P, K, m) /\ m \in Nat /\ m <= m
    BY <1>1, <2>1, ReferenceClockAssumption DEF Types
  <2>3. Same((1 .. n) \ {0 + 1}, L, T, P, K, T2, P, K)
    BY <1>7, <1>10, <2>1 DEF Same
  <2>4. Ordered(n - 1, Shorter(n, L, 0), T2, P, K, m)
    BY <1>1, <1>7, <2>2, <2>3, OrderedRemove
  <2>5. T2[p] = t /\ T2[p] \in 1 .. MAX_TIME - 1
    BY <1>4, <1>10, <2>1
  <2>6. P[p] \in 0 .. Horizon - 1 /\ K[p] \in 1 .. m
    <3>1. 1 \in 1 .. n
      BY <1>1
    <3> QED BY <2>2, <3>1 DEF Ordered
  <2>7. \A i \in 1 .. n - 1 : K[M[i]] # K[p]
    <3>1. 1 \in 1 .. n
      BY <1>1
    <3>2. \A i, j \in 1 .. n : K[L[i]] = K[L[j]] => i = j
      BY <2>2 DEF Ordered
    <3> HIDE DEF M
    <3> QED BY <1>8, <3>1, <3>2
  <2>8. ASSUME NEW i \in 1 .. n - 1
        PROVE  (i <= k - 1 => T2[M[i]] <= T2[p]) /\ (i > k - 1 => T2[p] <= T2[M[i]])
    <3>1. /\ M[i] = L[i + 1] /\ i + 1 \in 2 .. n /\ i + 1 \in 1 .. n /\ i + 1 # 1
          /\ (i <= k - 1 => i + 1 <= k) /\ (i > k - 1 => i + 1 > k)
      BY <1>8
    <3>2. T2[L[i + 1]] = m_rtEventTime[L[i + 1]]
      BY <1>10, <2>1, <3>1
    <3> HIDE DEF M, p, t
    <3> QED BY <1>5, <2>5, <3>1, <3>2
  <2>9. Same(1 .. n - 1, M, T2, P, K, T2, P, K)
    BY DEF Same
  <2> HIDE DEF M, p, t
  <2>10. Ordered((n - 1) + 1, Longer(n - 1, M, k - 1, p), T2, P, K, m)
    <3>1. Ordered(n - 1, M, T2, P, K, m)
      BY <2>4 DEF M
    <3>2. Fits(n - 1, M, k - 1, T2, K, T2[p], K[p])
      BY <2>7, <2>8 DEF Fits
    <3>3. n - 1 \in Nat /\ k - 1 \in 0 .. n - 1
      BY <1>7
    <3> QED BY <2>2, <2>5, <2>6, <2>9, <3>1, <3>2, <3>3, OrderedInsert
  <2> QED BY <1>3, <1>7, <2>1, <2>10
<1>12. Shape(n, Longer(n - 1, M, k - 1, p), c, C)'
  <2> HIDE DEF M, p, t
  <2> QED BY <1>1, <1>3, <1>9, <1>11 DEF Shape
<1> QED BY <1>1, <1>3, <1>7, <1>12

-----------------------------------------------------------------------------
(* The steps.                                                               *)

\* The first packet, when there is one.
LEMMA HeadIs ==
    ASSUME NEW f, NEW n, NEW L, NEW first, NEW c, NEW C, NEW X, Linked(f, n, L, first, c, C, X)
    PROVE  n \in Nat /\ f["head"] = L[1] /\ (n = 0 => L[1] = "z") /\ (n > 0 => L[1] # "z")
<1>1. /\ n \in Nat /\ L[0] = "head" /\ L[n + 1] = "z"
      /\ \A i \in 0 .. n : f[L[i]] = L[i + 1]
      /\ \A i \in 1 .. n : L[i] \in Packets
  BY DEF Linked
<1>2. (n = 0 => n + 1 = 1) /\ (n > 0 => 1 \in 1 .. n) /\ 0 \in 0 .. n /\ 0 + 1 = 1
  BY <1>1
<1> QED BY <1>1, <1>2, NodesApart

\* AdviseTime and AdvisePeriodic.
LEMMA AdviseInv ==
    ASSUME ClockInv, NEW time \in Times, NEW period \in Periods, Advise(time, period)
    PROVE  ClockInv'
<1>1. PICK n, L, c, C : Shape(n, L, c, C)
  BY DEF ClockInv
<1>2. /\ Types /\ WakesInTime /\ AddAdvisePacket(time, period) /\ tpc # "advise"
      /\ UNCHANGED <<m_rtPrivateTime, m_bAbort, tpc, dwWait, rtNow, apc, rung, late, deltas>>
  BY DEF ClockInv, Advise, Unlocked, threadVars
<1>3. PICK k, p, d, D :
              /\ k \in 0 .. n /\ p \in Packets
              /\ Shape(n + 1, Longer(n, L, k, p), d, D)'
              /\ \A i \in 1 .. n : L[i] # p
              /\ m_rtEventTime' = [m_rtEventTime EXCEPT ![p] = time]
              /\ m_rtPeriod' = [m_rtPeriod EXCEPT ![p] = period]
              /\ m_dwAdviseCookie' = [m_dwAdviseCookie EXCEPT ![p] = m_dwNextCookie + 1]
              /\ m_ev' = (m_ev \/ k = 0)
  BY <1>1, <1>2, Adding
<1>4. /\ m_dwNextCookie < MaxAdvises /\ m_dwNextCookie' = m_dwNextCookie + 1
      /\ m_dwAdviseCount' = m_dwAdviseCount + 1
  BY <1>2 DEF AddAdvisePacket
<1>5. n \in Nat /\ m_dwAdviseCount = n
  BY <1>1, ShapeFacts DEF Shape
<1>6. Types'
  <2>1. time \in Nat /\ period \in Nat
    BY ReferenceClockAssumption
  <2>2. m_dwNextCookie' \in 0 .. MaxAdvises /\ m_dwAdviseCount' <= m_dwNextCookie'
        /\ m_dwNextCookie + 1 \in Nat
    BY <1>2, <1>4, <1>5, ReferenceClockAssumption DEF Types
  <2>3. /\ m_rtEventTime' \in [Nodes -> Nat] /\ m_rtPeriod' \in [Nodes -> Nat]
        /\ m_dwAdviseCookie' \in [Nodes -> Nat] /\ m_rtEventTime'["z"] = MAX_TIME
    BY <1>2, <1>3, <2>1, <2>2, NodesApart DEF Types
  <2>4. \A i \in Cookies : i > m_dwNextCookie' => rung'[i] = 0
    <3>1. m_dwNextCookie \in Nat /\ \A i \in Cookies : i \in Nat
      BY <1>2, ReferenceClockAssumption DEF Types, Cookies
    <3> QED BY <1>2, <1>4, <3>1 DEF Types
  <2>5. m_ev' \in BOOLEAN
    BY <1>3
  <2>6. /\ m_rtPrivateTime' \in 0 .. Horizon /\ rtNow' \in 0 .. Horizon
        /\ tpc' \in {"wait", "woken", "advise", "exit"}
        /\ apc' \in {"idle", "trigger", "join", "destroyed"}
        /\ dwWait' \in Nat \cup {INFINITE} /\ late' \in Nat /\ rung' \in [Cookies -> Nat]
    BY <1>2 DEF Types
  <2> QED BY <2>2, <2>3, <2>4, <2>5, <2>6 DEF Types
<1>7. KnowsTime'
  BY <1>2 DEF KnowsTime
<1>8. WakesInTime'
  <2>1. CASE k = 0
    BY <1>3, <2>1 DEF WakesInTime
  <2>2. CASE k # 0
    <3>1. n > 0 /\ 1 <= k /\ 1 \in 1 .. n /\ 1 \in 0 .. n + 2
      BY <1>3, <1>5, <2>2
    <3>2. m_next["head"] = L[1] /\ L[1] \in Packets /\ L[1] # "z"
      BY <1>1, <3>1, ShapeFacts, NodesApart
    <3>3. Linked(m_next', n + 1, Longer(n, L, k, p), m_pAdviseCache', d, D, {})
      BY <1>3 DEF Shape
    <3>4. m_next'["head"] = Longer(n, L, k, p)[1]
      BY <3>3, HeadIs
    <3>5. Longer(n, L, k, p)[1] = L[1]
      BY <3>1 DEF Longer
    <3>6. m_rtEventTime'[L[1]] = m_rtEventTime[L[1]] /\ m_ev' = m_ev
      BY <1>2, <1>3, <2>2, <3>1, <3>2, NodesApart DEF Types
    <3> QED BY <1>2, <3>2, <3>4, <3>5, <3>6 DEF WakesInTime, TooFar
  <2> QED BY <2>1, <2>2
<1> QED BY <1>3, <1>6, <1>7, <1>8 DEF ClockInv

\* What Remove leaves of the types.
LEMMA RemoveTypes ==
    ASSUME Types, NEW n, NEW L, NEW c, NEW C, Shape(n, L, c, C), NEW k \in 0 .. n - 1,
           Remove(L[k]), UNCHANGED m_dwNextCookie
    PROVE  /\ m_rtEventTime' \in [Nodes -> Nat] /\ m_rtPeriod' \in [Nodes -> Nat]
           /\ m_dwAdviseCookie' \in [Nodes -> Nat] /\ m_rtEventTime'["z"] = MAX_TIME
           /\ m_dwNextCookie' \in 0 .. MaxAdvises /\ m_dwAdviseCount' <= m_dwNextCookie'
<1>1. /\ m_rtEventTime' = [m_rtEventTime EXCEPT ![L[k + 1]] = 0]
      /\ m_rtPeriod' = [m_rtPeriod EXCEPT ![L[k + 1]] = 0]
      /\ m_dwAdviseCookie' = [m_dwAdviseCookie EXCEPT ![L[k + 1]] = 0]
  BY Removing
<1>2. n \in Nat /\ m_dwAdviseCount = n /\ m_dwAdviseCount' = m_dwAdviseCount - 1
  BY ShapeFacts DEF Shape, Remove
<1>3. L[k + 1] \in Packets
  <2>1. k + 1 \in 1 .. n
    BY <1>2
  <2> QED BY <2>1, ShapeFacts
<1>4. L[k + 1] # "z"
  BY <1>3, NodesApart
<1>5. m_dwNextCookie' \in 0 .. MaxAdvises /\ m_dwAdviseCount' <= m_dwNextCookie'
  BY <1>2, ReferenceClockAssumption DEF Types
<1> HIDE DEF Nodes
<1> QED BY <1>1, <1>4, <1>5, NodesApart DEF Types

\* Where Unadvise finds its packet.
LEMMA PrevOnList ==
    ASSUME NEW n, NEW L, NEW c, NEW C, Shape(n, L, c, C),
           NEW prev \in InChain(List) \cup {"head"}, m_next[prev] # "z"
    PROVE  \E k \in 0 .. n - 1 : prev = L[k]
<1>1. /\ n \in Nat /\ L[0] = "head" /\ L[n + 1] = "z" /\ \A i \in 0 .. n : m_next[L[i]] = L[i + 1]
  BY ShapeFacts
<1>2. InChain(List) = {L[i] : i \in 1 .. n}
  <2>1. List = [i \in 1 .. n |-> L[i]]
    BY ShapeFacts, TheChains
  <2> QED BY <2>1 DEF InChain
<1>3. PICK i \in 0 .. n : prev = L[i]
  BY <1>1, <1>2
<1>4. i # n
  BY <1>1, <1>3
<1>5. i \in 0 .. n - 1
  BY <1>1, <1>4
<1> QED BY <1>3, <1>5

\* Unadvise.
LEMMA UnadviseInv ==
    ASSUME ClockInv, NEW cookie \in Cookies, Unadvise(cookie)
    PROVE  ClockInv'
<1>1. PICK n, L, c, C : Shape(n, L, c, C)
  BY DEF ClockInv
<1>2. /\ Types /\ WakesInTime /\ tpc # "advise"
      /\ UNCHANGED <<m_dwNextCookie, m_ev, m_rtPrivateTime, m_bAbort, tpc, dwWait, rtNow, apc,
                     rung, late, deltas>>
  BY DEF ClockInv, Unadvise, Unlocked, threadVars
<1>3. PICK prev \in InChain(List) \cup {"head"} : m_next[prev] # "z" /\ Remove(prev)
  BY DEF Unadvise
<1>4. PICK k \in 0 .. n - 1 : prev = L[k]
  BY <1>1, <1>3, PrevOnList
<1>5. Remove(L[k])
  BY <1>3, <1>4
<1>6. /\ \E d, D : Shape(n - 1, Shorter(n, L, k), d, D)'
      /\ m_rtEventTime' = [m_rtEventTime EXCEPT ![L[k + 1]] = 0]
  BY <1>1, <1>2, <1>5, Removing
<1>7. Types'
  <2>1. /\ m_rtEventTime' \in [Nodes -> Nat] /\ m_rtPeriod' \in [Nodes -> Nat]
        /\ m_dwAdviseCookie' \in [Nodes -> Nat] /\ m_rtEventTime'["z"] = MAX_TIME
        /\ m_dwNextCookie' \in 0 .. MaxAdvises /\ m_dwAdviseCount' <= m_dwNextCookie'
    BY <1>1, <1>2, <1>5, RemoveTypes
  <2> QED BY <1>2, <2>1 DEF Types
<1>8. KnowsTime'
  BY <1>2 DEF KnowsTime
<1>9. WakesInTime'
  <2> DEFINE M == Shorter(n, L, k)
  <2>1. PICK d, D : Shape(n - 1, M, d, D)'
    BY <1>6
  <2>2. n - 1 \in Nat /\ m_next'["head"] = M[1] /\ (n - 1 = 0 => M[1] = "z")
    <3>1. Linked(m_next', n - 1, M, m_pAdviseCache', d, D, {})
      BY <2>1 DEF Shape
    <3> HIDE DEF M
    <3> QED BY <3>1, HeadIs
  <2>3. n \in Nat /\ \A i \in 0 .. n + 1 : L[i] \in Nodes
    BY <1>1, ShapeFacts
  <2>4. CASE n - 1 = 0
    BY <2>2, <2>4 DEF WakesInTime
  <2>5. CASE n - 1 # 0
    <3>1. 1 \in 1 .. n - 1 /\ 1 \in 1 .. n
      BY <2>2, <2>3, <2>5
    <3>2. PICK a \in 1 .. n : M[1] = L[a] /\ a # k + 1
      <4>1. CASE 1 <= k /\ 1 \in 1 .. n /\ M[1] = L[1]
        <5>1. 1 # k + 1
          BY <4>1
        <5> QED BY <3>1, <4>1, <5>1
      <4>2. CASE 1 > k /\ 1 + 1 \in 1 .. n /\ M[1] = L[1 + 1]
        <5>1. 1 + 1 # k + 1
          BY <4>2
        <5> QED BY <4>2, <5>1
      <4> HIDE DEF M
      <4>3. \/ 1 <= k /\ 1 \in 1 .. n /\ M[1] = L[1]
            \/ 1 > k /\ 1 + 1 \in 1 .. n /\ M[1] = L[1 + 1]
        BY <2>3, <3>1, ShorterIs DEF M
      <4> QED BY <4>1, <4>2, <4>3
    <3>3. m_rtEventTime'[M[1]] = m_rtEventTime[L[a]]
      <4>1. a \in 0 .. n + 1 /\ k + 1 \in 0 .. n + 1
        BY <2>3
      <4>2. L[a] # L[k + 1] /\ L[a] \in Nodes
        BY <1>1, <2>3, <3>2, <4>1, NodesOnce, ShapeFacts
      <4> HIDE DEF M
      <4> QED BY <1>2, <1>6, <3>2, <4>2 DEF Types
    <3>4. m_rtEventTime[L[1]] <= m_rtEventTime[L[a]]
      <4>1. 1 = a \/ 1 < a
        OBVIOUS
      <4>2. Ordered(n, L, m_rtEventTime, m_rtPeriod, m_dwAdviseCookie, m_dwNextCookie)
        BY <1>1 DEF Shape
      <4>3. m_rtEventTime[L[1]] \in Int
        BY <3>1, <4>2 DEF Ordered
      <4> QED BY <3>1, <4>1, <4>2, <4>3 DEF Ordered
    <3>5. /\ m_rtEventTime[L[1]] \in Nat /\ m_rtEventTime[L[a]] \in Nat
          /\ m_rtPrivateTime \in Nat /\ late \in Nat /\ dwWait \in Int
          /\ rtNow \in Int /\ UintMax \in Nat
      <4>1. 1 \in 0 .. n + 1 /\ a \in 0 .. n + 1 /\ INFINITE \in Int
        BY <2>3 DEF INFINITE
      <4> QED BY <1>2, <2>3, <4>1, ReferenceClockAssumption DEF Types
    <3>6. m_next["head"] = L[1] /\ m_next["head"] # "z"
      BY <1>1, <2>3, <3>1, ShapeFacts, NodesApart
    <3> HIDE DEF M
    <3>7. tpc = "wait" /\ ~m_ev /\ apc # "trigger" =>
             \/ dwWait = INFINITE /\ m_rtEventTime[L[a]] - rtNow >= UintMax * Ms
             \/ dwWait = 0
             \/ dwWait > 0 /\ m_rtPrivateTime + dwWait * Ms <= m_rtEventTime[L[a]] + late
      BY <1>2, <3>4, <3>5, <3>6 DEF WakesInTime, TooFar, Ms
    <3> QED BY <1>2, <2>2, <3>3, <3>7 DEF WakesInTime, TooFar
  <2> QED BY <2>4, <2>5
<1> QED BY <1>6, <1>7, <1>8, <1>9 DEF ClockInv

\* The thread notifies a single advise.
LEMMA AdviseOnceInv ==
    ASSUME ClockInv, AdviseOnce
    PROVE  ClockInv'
<1>1. PICK n, L, c, C : Shape(n, L, c, C)
  BY DEF ClockInv
<1>2. /\ Types /\ KnowsTime /\ tpc = "advise" /\ m_next["head"] # "z" /\ Remove("head")
      /\ rung' = [rung EXCEPT ![m_dwAdviseCookie[m_next["head"]]] = @ + 1]
      /\ UNCHANGED <<m_dwNextCookie, m_ev, m_rtPrivateTime, m_bAbort, tpc, dwWait, rtNow, apc,
                     late, deltas>>
  BY DEF ClockInv, AdviseOnce, HeadExpired, SetNotify, threadVars
<1>3. n \in Nat /\ n > 0 /\ 0 \in 0 .. n - 1 /\ L[0] = "head" /\ Remove(L[0])
      /\ m_next["head"] = L[1] /\ 1 \in 1 .. n
  BY <1>1, <1>2, ShapeFacts
<1>4. \E d, D : Shape(n - 1, Shorter(n, L, 0), d, D)'
  BY <1>1, <1>2, <1>3, Removing
<1>5. Types'
  <2>1. /\ m_rtEventTime' \in [Nodes -> Nat] /\ m_rtPeriod' \in [Nodes -> Nat]
        /\ m_dwAdviseCookie' \in [Nodes -> Nat] /\ m_rtEventTime'["z"] = MAX_TIME
        /\ m_dwNextCookie' \in 0 .. MaxAdvises /\ m_dwAdviseCount' <= m_dwNextCookie'
    BY <1>1, <1>2, <1>3, RemoveTypes
  <2>2. m_dwAdviseCookie[L[1]] \in 1 .. m_dwNextCookie
    BY <1>1, <1>3 DEF Shape, Ordered
  <2>3. m_dwNextCookie \in Nat /\ \A i \in Cookies : i \in Nat
    BY <1>2, ReferenceClockAssumption DEF Types, Cookies
  <2>4. \A i \in Cookies : i > m_dwNextCookie' => rung'[i] = 0
    BY <1>2, <1>3, <2>2, <2>3 DEF Types
  <2>5. rung' \in [Cookies -> Nat]
    <3>1. m_dwAdviseCookie[m_next["head"]] \in Cookies
      BY <1>2, <1>3, <2>2, ReferenceClockAssumption DEF Types, Cookies
    <3> DEFINE k == m_dwAdviseCookie[m_next["head"]]
    <3>2. rung' = [rung EXCEPT ![k] = @ + 1] /\ k \in Cookies /\ rung \in [Cookies -> Nat]
      BY <1>2, <3>1 DEF Types
    <3> HIDE DEF k
    <3> QED BY <3>2
  <2> QED BY <1>2, <2>1, <2>4, <2>5 DEF Types
<1>6. KnowsTime'
  BY <1>2 DEF KnowsTime
<1>7. WakesInTime'
  BY <1>2 DEF WakesInTime
<1> QED BY <1>4, <1>5, <1>6, <1>7 DEF ClockInv

\* The thread notifies a periodic advise.
LEMMA AdvisePeriodicInv ==
    ASSUME ClockInv, AdvisePeriodic
    PROVE  ClockInv'
<1>1. PICK n, L, c, C : Shape(n, L, c, C)
  BY DEF ClockInv
<1>2. /\ Types /\ KnowsTime /\ tpc = "advise" /\ m_next["head"] # "z"
      /\ rung' = [rung EXCEPT ![m_dwAdviseCookie[m_next["head"]]] = @ + 1]
      /\ UNCHANGED <<m_rtPeriod, m_dwAdviseCookie, m_dwNextCookie, m_dwAdviseCount, m_ev,
                     m_rtPrivateTime, m_bAbort, tpc, dwWait, rtNow, apc, late, deltas>>
  BY DEF ClockInv, AdvisePeriodic, HeadExpired, SetNotify, threadVars, countVars
<1>3. /\ n > 0 /\ \E k \in 0 .. n - 1 : Shape(n, Longer(n - 1, Shorter(n, L, 0), k, L[1]), c, C)'
      /\ m_rtEventTime' = [m_rtEventTime EXCEPT ![L[1]] = @ + m_rtPeriod[L[1]]]
  BY <1>1, <1>2, Shunting
<1>4. n \in Nat /\ L[1] \in Packets /\ L[1] \in Nodes /\ m_next["head"] = L[1] /\ 1 \in 1 .. n
  BY <1>1, <1>3, ShapeFacts, NodesApart
<1>5. Types'
  <2>1. m_rtEventTime' \in [Nodes -> Nat] /\ m_rtEventTime'["z"] = MAX_TIME
    <3>1. m_rtEventTime[L[1]] + m_rtPeriod[L[1]] \in Nat
      BY <1>2, <1>4 DEF Types
    <3> QED BY <1>2, <1>3, <1>4, <3>1, NodesApart DEF Types
  <2>2. m_dwAdviseCookie[L[1]] \in 1 .. m_dwNextCookie
    BY <1>1, <1>4 DEF Shape, Ordered
  <2>3. m_dwNextCookie \in Nat /\ \A i \in Cookies : i \in Nat
    BY <1>2, ReferenceClockAssumption DEF Types, Cookies
  <2>4. \A i \in Cookies : i > m_dwNextCookie' => rung'[i] = 0
    BY <1>2, <1>4, <2>2, <2>3 DEF Types
  <2>5. rung' \in [Cookies -> Nat]
    <3>1. m_dwAdviseCookie[m_next["head"]] \in Cookies
      BY <1>2, <1>4, <2>2, ReferenceClockAssumption DEF Types, Cookies
    <3> DEFINE k == m_dwAdviseCookie[m_next["head"]]
    <3>2. rung' = [rung EXCEPT ![k] = @ + 1] /\ k \in Cookies /\ rung \in [Cookies -> Nat]
      BY <1>2, <3>1 DEF Types
    <3> HIDE DEF k
    <3> QED BY <3>2
  <2> QED BY <1>2, <2>1, <2>4, <2>5 DEF Types
<1>6. KnowsTime'
  BY <1>2 DEF KnowsTime
<1>7. WakesInTime'
  BY <1>2 DEF WakesInTime
<1> QED BY <1>3, <1>5, <1>6, <1>7 DEF ClockInv

\* A step that leaves the list alone.
LEMMA ListStays ==
    ASSUME ClockInv, UNCHANGED <<listVars, cacheVars, countVars>>
    PROVE  /\ (\E n, L, c, C : Shape(n, L, c, C))'
           /\ \A x \in Nodes : m_rtEventTime[x] \in Nat
           /\ m_next["head"] # "z" => m_next["head"] \in Packets /\ m_dwAdviseCount > 0
<1>1. PICK n, L, c, C : Shape(n, L, c, C)
  BY DEF ClockInv
<1>2. Shape(n, L, c, C)'
  BY <1>1 DEF Shape, listVars, cacheVars, countVars
<1>3. m_next["head"] # "z" => m_next["head"] \in Packets /\ m_dwAdviseCount > 0
  <2>1. n \in Nat /\ m_dwAdviseCount = n
    BY <1>1, ShapeFacts DEF Shape
  <2> QED BY <1>1, <2>1, ShapeFacts
<1> QED BY <1>2, <1>3 DEF ClockInv, Types

\* The steps that leave the chains alone.
LEMMA OthersInv ==
    ASSUME ClockInv, UNCHANGED <<listVars, cacheVars, countVars>>,
           \/ \E d \in Deltas : SetTimeDelta(d)
           \/ SetTimeDeltaTrigger \/ Abort \/ Joined \/ Tick
           \/ ThreadWakes \/ ThreadReadsTime \/ AdviseEnds
    PROVE  ClockInv'
<1>1. /\ (\E n, L, c, C : Shape(n, L, c, C))'
      /\ \A x \in Nodes : m_rtEventTime[x] \in Nat
      /\ m_next["head"] # "z" => m_next["head"] \in Nodes /\ m_dwAdviseCount > 0
  BY ListStays, NodesApart
<1>2. Types /\ KnowsTime /\ WakesInTime
  BY DEF ClockInv
<1>3. UNCHANGED <<m_next, m_rtEventTime, m_rtPeriod, m_dwAdviseCookie, m_dwNextCookie,
                  m_dwAdviseCount, rung>>
  BY DEF listVars, countVars, SetTimeDelta, SetTimeDeltaTrigger, Abort, Joined, Tick, ThreadWakes,
         ThreadReadsTime, AdviseEnds
<1>4. /\ m_rtPrivateTime \in Nat /\ m_rtPrivateTime <= Horizon /\ rtNow \in 0 .. Horizon
      /\ Horizon \in Nat /\ UintMax \in Nat
      /\ late \in Nat /\ dwWait \in Nat \cup {INFINITE} /\ INFINITE = -1
      /\ dwWait \in Int /\ m_ev \in BOOLEAN
  BY <1>2, ReferenceClockAssumption DEF Types, INFINITE
<1>5. SUFFICES /\ KnowsTime' /\ WakesInTime'
               /\ m_ev' \in BOOLEAN /\ m_rtPrivateTime' \in 0 .. Horizon /\ rtNow' \in 0 .. Horizon
               /\ tpc' \in {"wait", "woken", "advise", "exit"}
               /\ apc' \in {"idle", "trigger", "join", "destroyed"}
               /\ dwWait' \in Nat \cup {INFINITE} /\ late' \in Nat
  BY <1>1, <1>2, <1>3 DEF ClockInv, Types
<1>6. ASSUME NEW d \in Deltas, SetTimeDelta(d)
      PROVE  /\ KnowsTime' /\ WakesInTime'
             /\ m_ev' \in BOOLEAN /\ m_rtPrivateTime' \in 0 .. Horizon /\ rtNow' \in 0 .. Horizon
             /\ tpc' \in {"wait", "woken", "advise", "exit"}
             /\ apc' \in {"idle", "trigger", "join", "destroyed"}
             /\ dwWait' \in Nat \cup {INFINITE} /\ late' \in Nat
  <2>1. /\ apc = "idle" /\ m_rtPrivateTime' = m_rtPrivateTime + d /\ m_rtPrivateTime + d \in 0 .. Horizon
        /\ apc' = (IF d > HalfMs THEN "trigger" ELSE "idle")
        /\ late' = (IF d > 0 /\ d <= HalfMs THEN late + d ELSE late)
        /\ UNCHANGED <<m_ev, tpc, dwWait, rtNow>> /\ d \in Int
    BY <1>6, ReferenceClockAssumption DEF SetTimeDelta, threadVars
  <2>2. late' \in Nat /\ (d <= HalfMs => m_rtPrivateTime' - late' <= m_rtPrivateTime - late)
    BY <1>4, <2>1 DEF HalfMs
  <2>3. KnowsTime'
    <3>1. CASE d > HalfMs
      BY <2>1, <3>1 DEF KnowsTime
    <3>2. CASE ~(d > HalfMs)
      BY <1>2, <1>3, <1>4, <2>1, <3>2 DEF KnowsTime, HalfMs
    <3> QED BY <3>1, <3>2
  <2>4. WakesInTime'
    <3>1. CASE d > HalfMs
      BY <2>1, <3>1 DEF WakesInTime
    <3>2. CASE ~(d > HalfMs)
      <4>1. m_next["head"] # "z" => m_rtEventTime[m_next["head"]] \in Nat
        BY <1>1
      <4> QED BY <1>2, <1>3, <1>4, <2>1, <3>2, <4>1 DEF WakesInTime, TooFar, HalfMs, Ms
    <3> QED BY <3>1, <3>2
  <2> QED BY <1>2, <2>1, <2>2, <2>3, <2>4 DEF Types
<1>7. CASE SetTimeDeltaTrigger
  <2>1. /\ m_ev' = (m_ev \/ AnyAdvise) /\ apc' = "idle"
        /\ UNCHANGED <<m_rtPrivateTime, tpc, dwWait, rtNow, late>>
    BY <1>7 DEF SetTimeDeltaTrigger, threadVars
  <2>2. m_next["head"] # "z" => m_ev'
    BY <1>1, <2>1 DEF AnyAdvise
  <2> QED BY <1>2, <1>3, <2>1, <2>2 DEF Types, KnowsTime, WakesInTime, TooFar
<1>8. CASE Abort
  <2>1. m_ev' = TRUE /\ apc' = "join" /\ UNCHANGED <<m_rtPrivateTime, tpc, dwWait, rtNow, late>>
    BY <1>8 DEF Abort, threadVars
  <2> QED BY <1>2, <1>3, <2>1 DEF Types, KnowsTime, WakesInTime, TooFar
<1>9. CASE Joined
  <2>1. tpc = "exit" /\ apc' = "destroyed"
        /\ UNCHANGED <<m_ev, m_rtPrivateTime, tpc, dwWait, rtNow, late>>
    BY <1>9 DEF Joined, threadVars
  <2> QED BY <1>2, <1>3, <2>1 DEF Types, KnowsTime, WakesInTime, TooFar
<1>10. CASE Tick
  <2>1. /\ m_rtPrivateTime' = (IF m_rtPrivateTime + Ms <= Horizon THEN m_rtPrivateTime + Ms
                                                                 ELSE m_rtPrivateTime)
        /\ dwWait' = (IF tpc = "wait" /\ dwWait > 0 THEN dwWait - 1 ELSE dwWait)
        /\ late' = (IF tpc = "wait" THEN late ELSE late + (m_rtPrivateTime' - m_rtPrivateTime))
        /\ UNCHANGED <<m_ev, tpc, rtNow, apc>>
    BY <1>10 DEF Tick
  <2>2. /\ m_rtPrivateTime' \in 0 .. Horizon /\ late' \in Nat /\ dwWait' \in Nat \cup {INFINITE}
        /\ m_rtPrivateTime' \in Nat /\ m_rtPrivateTime' <= m_rtPrivateTime + 2
        /\ tpc # "wait" => m_rtPrivateTime' - late' = m_rtPrivateTime - late
    BY <1>4, <2>1 DEF Ms
  <2>3. KnowsTime'
    BY <1>2, <1>3, <1>4, <2>1, <2>2 DEF KnowsTime
  <2>4. WakesInTime'
    <3>1. m_next["head"] # "z" => m_rtEventTime[m_next["head"]] \in Nat
      BY <1>1
    <3>2. dwWait > 0 => dwWait' = dwWait - 1 \/ tpc # "wait"
      BY <2>1
    <3>3. ~(dwWait > 0) => dwWait' = dwWait
      BY <2>1
    <3> QED BY <1>2, <1>3, <1>4, <2>1, <2>2, <3>1, <3>2, <3>3 DEF WakesInTime, TooFar, Ms
  <2> QED BY <1>2, <2>1, <2>2, <2>3, <2>4 DEF Types
<1>11. CASE ThreadWakes
  <2>1. /\ m_ev' = FALSE /\ dwWait' = 0 /\ tpc' \in {"exit", "woken"}
        /\ UNCHANGED <<m_rtPrivateTime, rtNow, apc, late>>
    BY <1>11 DEF ThreadWakes
  <2> QED BY <1>2, <1>3, <2>1 DEF Types, KnowsTime, WakesInTime, TooFar
<1>12. CASE ThreadReadsTime
  <2>1. /\ rtNow' = m_rtPrivateTime /\ late' = 0 /\ tpc' = "advise"
        /\ UNCHANGED <<m_ev, m_rtPrivateTime, dwWait, apc>>
    BY <1>12 DEF ThreadReadsTime
  <2> QED BY <1>2, <1>3, <1>4, <2>1 DEF Types, KnowsTime, WakesInTime, TooFar
<1>13. CASE AdviseEnds
  <2> DEFINE next == m_rtEventTime[m_next["head"]]
  <2>1. /\ tpc = "advise" /\ ~HeadExpired /\ tpc' \in {"exit", "wait"}
        /\ dwWait' = (IF (next - rtNow) \div Ms >= UintMax THEN INFINITE
                                                         ELSE (next - rtNow) \div Ms)
        /\ UNCHANGED <<m_ev, m_rtPrivateTime, rtNow, apc, late>>
    BY <1>13 DEF AdviseEnds
  <2>2. PICK n, L, c, C : Shape(n, L, c, C)
    BY DEF ClockInv
  <2>3. m_next["head"] = "z" => next = MAX_TIME
    BY <1>2 DEF Types
  <2>4. m_next["head"] # "z" => next \in 1 .. MAX_TIME - 1 /\ rtNow + Ms < next
    <3>1. SUFFICES ASSUME m_next["head"] # "z" PROVE next \in 1 .. MAX_TIME - 1 /\ rtNow + Ms < next
      OBVIOUS
    <3>2. n \in Nat /\ n > 0 /\ 1 \in 1 .. n /\ m_next["head"] = L[1]
      BY <2>2, <3>1, ShapeFacts
    <3>3. next \in 1 .. MAX_TIME - 1
      BY <2>2, <3>2 DEF Shape, Ordered
    <3> HIDE DEF next
    <3>4. ~(rtNow + Ms >= next)
      BY <2>1, <3>1 DEF HeadExpired, Resolution, next
    <3> QED BY <1>4, <3>3, <3>4 DEF Ms
  <2> HIDE DEF next
  <2>5. MAX_TIME \in Nat
    BY <1>4 DEF MAX_TIME, Ms
  <2>6. next \in Nat /\ rtNow + 2 <= next
    <3>1. CASE m_next["head"] = "z"
      BY <1>4, <2>3, <3>1 DEF MAX_TIME, Ms
    <3>2. CASE m_next["head"] # "z"
      BY <1>4, <2>4, <2>5, <3>2 DEF Ms
    <3> QED BY <3>1, <3>2
  <2>7. /\ dwWait' \in Nat \cup {INFINITE}
        /\ \/ dwWait' = INFINITE /\ next - rtNow >= UintMax * Ms
           \/ dwWait' >= 0 /\ rtNow + dwWait' * Ms <= next
    <3>1. PICK llWait \in Nat : llWait = (next - rtNow) \div 2 /\ llWait * 2 <= next - rtNow
      BY <1>4, <2>6
    <3> QED BY <1>4, <2>1, <2>6, <3>1 DEF Ms
  <2>8. KnowsTime'
    BY <2>1 DEF KnowsTime
  <2>9. WakesInTime'
    <3>1. SUFFICES ASSUME ~m_ev, apc # "trigger", m_next["head"] # "z"
                   PROVE  \/ dwWait' = INFINITE /\ next - rtNow >= UintMax * Ms
                          \/ dwWait' = 0
                          \/ dwWait' > 0 /\ m_rtPrivateTime + dwWait' * Ms <= next + late
      BY <1>3, <2>1 DEF WakesInTime, TooFar, next
    <3>2. m_rtPrivateTime <= rtNow + late
      BY <1>2, <2>1, <3>1 DEF KnowsTime
    <3>3. CASE dwWait' = INFINITE /\ next - rtNow >= UintMax * Ms
      BY <3>3
    <3>4. CASE dwWait' >= 0 /\ rtNow + dwWait' * Ms <= next
      <4>1. dwWait' # INFINITE => dwWait' \in Nat
        BY <2>7
      <4>2. dwWait' # INFINITE
        BY <3>4 DEF INFINITE
      <4> QED BY <1>4, <2>6, <3>2, <3>4, <4>1, <4>2 DEF Ms
    <3> QED BY <2>7, <3>3, <3>4
  <2> QED BY <1>2, <2>1, <2>7, <2>8, <2>9 DEF Types
<1> QED BY <1>6, <1>7, <1>8, <1>9, <1>10, <1>11, <1>12, <1>13

\* Every step of the clock keeps the two chains, and the thread's knowledge of the
\* time.
LEMMA NextClock == ClockInv /\ [ClockNext]_clockVars => ClockInv'
<1> SUFFICES ASSUME ClockInv, [ClockNext]_clockVars PROVE ClockInv'
  OBVIOUS
<1>1. CASE \E t \in Times, p \in Periods : Advise(t, p)
  BY <1>1, AdviseInv
<1>2. CASE \E k \in Cookies : Unadvise(k)
  BY <1>2, UnadviseInv
<1>3. CASE AdviseOnce
  BY <1>3, AdviseOnceInv
<1>4. CASE AdvisePeriodic
  BY <1>4, AdvisePeriodicInv
<1>5. CASE \/ \E d \in Deltas : SetTimeDelta(d)
           \/ SetTimeDeltaTrigger \/ Abort \/ Joined \/ Tick
           \/ ThreadWakes \/ ThreadReadsTime \/ AdviseEnds
  <2>1. UNCHANGED <<listVars, cacheVars, countVars>>
    BY <1>5 DEF SetTimeDelta, SetTimeDeltaTrigger, Abort, Joined, Tick, ThreadWakes,
                ThreadReadsTime, AdviseEnds
  <2> QED BY <1>5, <2>1, OthersInv
<1>6. CASE UNCHANGED clockVars
  <2>1. UNCHANGED <<m_next, m_rtEventTime, m_rtPeriod, m_dwAdviseCookie, m_pAdviseCache,
                    m_dwCacheCount, m_dwNextCookie, m_dwAdviseCount, m_ev, m_rtPrivateTime,
                    tpc, dwWait, rtNow, apc, rung, late>>
    BY <1>6 DEF clockVars, listVars, cacheVars, countVars, threadVars
  <2>2. PICK n, L, c, C : Shape(n, L, c, C)
    BY DEF ClockInv
  <2>3. Shape(n, L, c, C)'
    BY <2>1, <2>2 DEF Shape
  <2>4. Types' /\ KnowsTime' /\ WakesInTime'
    BY <2>1 DEF ClockInv, Types, KnowsTime, WakesInTime, TooFar
  <2> QED BY <2>3, <2>4 DEF ClockInv
<1> QED BY <1>1, <1>2, <1>3, <1>4, <1>5, <1>6 DEF ClockNext, ThreadStep, Destroyed

\* The inductive invariant holds.
LEMMA ClockInvHolds == ClockSpec => []ClockInv
  BY InitClock, NextClock, PTL DEF ClockSpec

\* AdviseThread sleeps through no advise that a timeout can express: whenever it waits
\* with no event on its way, its timeout ends by the time of the first packet, but for
\* what the clock moved without telling it; and it has no timeout only if that packet
\* was UINT_MAX milliseconds away or more when the thread last read the time.
THEOREM WakesInTimeHolds == ClockSpec => []WakesInTime
<1>1. ClockInv => WakesInTime
  BY DEF ClockInv
<1> QED BY <1>1, ClockInvHolds, PTL

\* AddAdvisePacket, Delete and ShuntHead keep the chains of CAMSchedule whole: the
\* packets with advises in the order of their times up to z, the others in the
\* cache, none on both or twice, and as many as the counts say.
THEOREM ListAndCacheHolds == ClockSpec => []ListAndCache
<1>1. ASSUME ClockInv PROVE ListAndCache
  <2>1. PICK n, L, c, C : Shape(n, L, c, C)
    BY <1>1 DEF ClockInv
  <2>2. List = [i \in 1 .. n |-> L[i]] /\ Cache = [i \in 1 .. c |-> C[i]]
    BY <2>1, ShapeFacts, TheChains
  <2>3. /\ n \in Nat /\ c \in Nat
        /\ \A i \in 1 .. n : L[i] \in Packets
        /\ \A i \in 1 .. c : C[i] \in Packets
        /\ \A i \in 1 .. n, j \in 1 .. c : L[i] # C[j]
        /\ m_dwAdviseCount = n /\ m_dwCacheCount = c /\ c <= CacheMax
    BY <2>1 DEF Shape, Linked
  <2>4. Ordered(n, L, m_rtEventTime, m_rtPeriod, m_dwAdviseCookie, m_dwNextCookie)
    BY <2>1 DEF Shape
  <2>5. Len(List) = n /\ Len(Cache) = c /\ DOMAIN List = 1 .. n
    BY <2>2, <2>3
  <2>6. InChain(List) = {L[i] : i \in 1 .. n} /\ InChain(Cache) = {C[i] : i \in 1 .. c}
    BY <2>2 DEF InChain
  <2>7. ASSUME NEW i \in DOMAIN List, NEW j \in DOMAIN List, i < j
        PROVE  /\ m_rtEventTime[List[i]] <= m_rtEventTime[List[j]]
               /\ m_dwAdviseCookie[List[i]] # m_dwAdviseCookie[List[j]]
    <3>1. i \in 1 .. n /\ j \in 1 .. n /\ i # j /\ List[i] = L[i] /\ List[j] = L[j]
      BY <2>2, <2>5, <2>7
    <3> QED BY <2>4, <2>7, <3>1 DEF Ordered
  <2>8. \A i \in DOMAIN List : m_dwAdviseCookie[List[i]] \in 1 .. m_dwNextCookie
    BY <2>2, <2>4, <2>5 DEF Ordered
  <2> QED BY <2>3, <2>5, <2>6, <2>7, <2>8 DEF ListAndCache
<1> QED BY <1>1, ClockInvHolds, PTL

-----------------------------------------------------------------------------
(* The list is a set of alarms.                                             *)

\* What AlarmClock sees of the first n packets of a list.
Pending(n, L, T, P, K) ==
    {[cookie |-> K[L[i]], due |-> T[L[i]], period |-> P[L[i]]] : i \in 1 .. n}

\* The alarm of a packet.
AlarmOf(p, T, P, K) == [cookie |-> K[p], due |-> T[p], period |-> P[p]]

CookiesDiffer(n, L, K) == \A i, j \in 1 .. n : K[L[i]] = K[L[j]] => i = j

With(S, x)    == S \cup {x}
Without(S, x) == S \ {x}

\* The abstract state.
Alarms == {[cookie |-> m_dwAdviseCookie[p], due |-> m_rtEventTime[p], period |-> m_rtPeriod[p]] :
              p \in InChain(List)}

\* The abstract state is that of the packets of the list.
LEMMA AlarmsAre ==
    \A n, L, c, C : Shape(n, L, c, C) =>
        Alarms = Pending(n, L, m_rtEventTime, m_rtPeriod, m_dwAdviseCookie)
<1> SUFFICES ASSUME NEW n, NEW L, NEW c, NEW C, Shape(n, L, c, C)
             PROVE  Alarms = Pending(n, L, m_rtEventTime, m_rtPeriod, m_dwAdviseCookie)
  OBVIOUS
<1>1. List = [i \in 1 .. n |-> L[i]]
  BY ShapeFacts, TheChains
<1>2. InChain(List) = {L[i] : i \in 1 .. n}
  BY <1>1 DEF InChain
<1> QED BY <1>2 DEF Alarms, Pending

\* A packet more on the list is an alarm more.
LEMMA PendingLonger ==
    ASSUME NEW n \in Nat, NEW L, NEW T, NEW P, NEW K, NEW k \in 0 .. n, NEW p,
           NEW T2, NEW P2, NEW K2, Same(1 .. n, L, T, P, K, T2, P2, K2)
    PROVE  Pending(n + 1, Longer(n, L, k, p), T2, P2, K2) =
               With(Pending(n, L, T, P, K), AlarmOf(p, T2, P2, K2))
<1> DEFINE M == Longer(n, L, k, p)
           R(i) == [cookie |-> K[L[i]], due |-> T[L[i]], period |-> P[L[i]]]
           S(i) == [cookie |-> K2[M[i]], due |-> T2[M[i]], period |-> P2[M[i]]]
           q == [cookie |-> K2[p], due |-> T2[p], period |-> P2[p]]
<1>1. \A i \in 1 .. n + 1 :
         \/ i <= k /\ i \in 1 .. n /\ M[i] = L[i]
         \/ i = k + 1 /\ M[i] = p
         \/ i > k + 1 /\ i - 1 \in 1 .. n /\ M[i] = L[i - 1]
  <2> SUFFICES ASSUME NEW i \in 1 .. n + 1
               PROVE  \/ i <= k /\ i \in 1 .. n /\ M[i] = L[i]
                      \/ i = k + 1 /\ M[i] = p
                      \/ i > k + 1 /\ i - 1 \in 1 .. n /\ M[i] = L[i - 1]
    OBVIOUS
  <2> QED BY LongerIs
<1> USE DEF Same
<1>2. ASSUME NEW i \in 1 .. n + 1 PROVE S(i) = q \/ \E j \in 1 .. n : S(i) = R(j)
  <2>1. \/ i <= k /\ i \in 1 .. n /\ M[i] = L[i]
        \/ i = k + 1 /\ M[i] = p
        \/ i > k + 1 /\ i - 1 \in 1 .. n /\ M[i] = L[i - 1]
    BY <1>1
  <2> HIDE DEF M
  <2>2. CASE i \in 1 .. n /\ M[i] = L[i]
    BY <2>2
  <2>3. CASE M[i] = p
    BY <2>3
  <2>4. CASE i - 1 \in 1 .. n /\ M[i] = L[i - 1]
    BY <2>4
  <2> QED BY <2>1, <2>2, <2>3, <2>4
<1>3. ASSUME NEW j \in 1 .. n PROVE \E i \in 1 .. n + 1 : S(i) = R(j)
  <2>1. CASE j <= k
    <3>1. j \in 1 .. n + 1 /\ ~(j = k + 1) /\ ~(j > k + 1)
      BY <2>1
    <3>2. M[j] = L[j]
      BY <1>1, <3>1
    <3> HIDE DEF M
    <3> QED BY <3>1, <3>2
  <2>2. CASE j > k
    <3>1. j + 1 \in 1 .. n + 1 /\ ~(j + 1 <= k) /\ ~(j + 1 = k + 1) /\ (j + 1) - 1 = j
      BY <2>2
    <3>2. M[j + 1] = L[(j + 1) - 1]
      BY <1>1, <3>1
    <3>3. M[j + 1] = L[j]
      BY <3>1, <3>2
    <3>4. S(j + 1) = R(j)
      <4> HIDE DEF M
      <4> QED BY <3>3
    <3> HIDE DEF M, S, R
    <3> QED BY <3>1, <3>4
  <2> QED BY <2>1, <2>2
<1>4. \E i \in 1 .. n + 1 : S(i) = q
  <2>1. k + 1 \in 1 .. n + 1 /\ ~(k + 1 <= k) /\ ~(k + 1 > k + 1)
    OBVIOUS
  <2>2. M[k + 1] = p
    BY <1>1, <2>1
  <2> HIDE DEF M
  <2> QED BY <2>1, <2>2
<1>5. /\ Pending(n + 1, M, T2, P2, K2) = {S(i) : i \in 1 .. n + 1}
      /\ Pending(n, L, T, P, K) = {R(j) : j \in 1 .. n}
  BY DEF Pending
<1>6. {S(i) : i \in 1 .. n + 1} = {R(j) : j \in 1 .. n} \cup {q}
  <2> HIDE DEF S, R, q
  <2> QED BY <1>2, <1>3, <1>4
<1> QED BY <1>5, <1>6 DEF AlarmOf, With, Without

\* A packet less is an alarm less.
LEMMA PendingShorter ==
    ASSUME NEW n \in Nat, NEW L, NEW T, NEW P, NEW K, NEW k \in 0 .. n - 1, NEW T2, NEW P2, NEW K2,
           CookiesDiffer(n, L, K), Same((1 .. n) \ {k + 1}, L, T, P, K, T2, P2, K2)
    PROVE  Pending(n - 1, Shorter(n, L, k), T2, P2, K2) =
               Without(Pending(n, L, T, P, K), AlarmOf(L[k + 1], T, P, K))
<1> DEFINE M == Shorter(n, L, k)
           R(i) == [cookie |-> K[L[i]], due |-> T[L[i]], period |-> P[L[i]]]
           S(i) == [cookie |-> K2[M[i]], due |-> T2[M[i]], period |-> P2[M[i]]]
<1> USE DEF Same, CookiesDiffer
<1>1. \A i \in 1 .. n - 1 :
         \/ i <= k /\ i \in 1 .. n /\ M[i] = L[i]
         \/ i > k /\ i + 1 \in 1 .. n /\ M[i] = L[i + 1]
  BY ShorterIs
<1>2. ASSUME NEW i \in 1 .. n - 1 PROVE \E j \in 1 .. n : j # k + 1 /\ S(i) = R(j)
  <2>1. \/ i <= k /\ i \in 1 .. n /\ M[i] = L[i]
        \/ i > k /\ i + 1 \in 1 .. n /\ M[i] = L[i + 1]
    BY <1>1
  <2> HIDE DEF M
  <2>2. CASE i <= k /\ i \in 1 .. n /\ M[i] = L[i]
    <3>1. i # k + 1
      BY <2>2
    <3> QED BY <2>2, <3>1
  <2>3. CASE i > k /\ i + 1 \in 1 .. n /\ M[i] = L[i + 1]
    <3>1. i + 1 # k + 1
      BY <2>3
    <3>2. S(i) = R(i + 1)
      BY <2>3, <3>1
    <3> HIDE DEF S, R
    <3> QED BY <2>3, <3>1, <3>2
  <2> QED BY <2>1, <2>2, <2>3
<1>3. ASSUME NEW j \in 1 .. n, j # k + 1 PROVE \E i \in 1 .. n - 1 : S(i) = R(j)
  <2>1. CASE j <= k
    <3>1. j \in 1 .. n - 1 /\ ~(j > k)
      BY <2>1
    <3>2. M[j] = L[j]
      BY <1>1, <3>1
    <3> HIDE DEF M
    <3> QED BY <1>3, <3>1, <3>2
  <2>2. CASE ~(j <= k)
    <3>1. j - 1 \in 1 .. n - 1 /\ ~(j - 1 <= k) /\ (j - 1) + 1 = j
      BY <1>3, <2>2
    <3>2. M[j - 1] = L[(j - 1) + 1]
      BY <1>1, <3>1
    <3>3. M[j - 1] = L[j]
      BY <3>1, <3>2
    <3>4. S(j - 1) = R(j)
      <4> HIDE DEF M
      <4> QED BY <1>3, <3>3
    <3> HIDE DEF M, S, R
    <3> QED BY <3>1, <3>4
  <2> QED BY <2>1, <2>2
<1>4. k + 1 \in 1 .. n
  OBVIOUS
<1>5. ASSUME NEW j \in 1 .. n PROVE R(j) = R(k + 1) <=> j = k + 1
  <2>1. R(j) = R(k + 1) => K[L[j]] = K[L[k + 1]]
    <3>1. R(j).cookie = K[L[j]] /\ R(k + 1).cookie = K[L[k + 1]]
      OBVIOUS
    <3> HIDE DEF R
    <3> QED BY <3>1
  <2> HIDE DEF R
  <2> QED BY <1>4, <2>1
<1>6. /\ Pending(n - 1, M, T2, P2, K2) = {S(i) : i \in 1 .. n - 1}
      /\ Pending(n, L, T, P, K) = {R(j) : j \in 1 .. n}
  BY DEF Pending
<1>7. {S(i) : i \in 1 .. n - 1} = {R(j) : j \in 1 .. n} \ {R(k + 1)}
  <2> HIDE DEF S, R
  <2> QED BY <1>2, <1>3, <1>4, <1>5
<1> QED BY <1>6, <1>7 DEF AlarmOf, With, Without

\* The alarms after a packet has been added and after one has been removed.
LEMMA PrimedAlarms ==
    \A n, L, c, C : Shape(n, L, c, C)' =>
        Alarms' = Pending(n, L, m_rtEventTime', m_rtPeriod', m_dwAdviseCookie')
<1>1. (\A n, L, c, C : Shape(n, L, c, C) =>
           Alarms = Pending(n, L, m_rtEventTime, m_rtPeriod, m_dwAdviseCookie))'
  BY AlarmsAre, PTL
<1> QED BY <1>1

\* A step that leaves the chains alone leaves the alarms alone.
LEMMA AlarmsStay ==
    ASSUME ClockInv, UNCHANGED <<listVars, cacheVars, countVars>>
    PROVE  Alarms' = Alarms
<1>1. PICK n, L, c, C : Shape(n, L, c, C)
  BY DEF ClockInv
<1>2. Shape(n, L, c, C)'
  BY <1>1 DEF Shape, listVars, cacheVars, countVars
<1>3. Alarms = Pending(n, L, m_rtEventTime, m_rtPeriod, m_dwAdviseCookie)
  BY <1>1, AlarmsAre
<1>4. Alarms' = Pending(n, L, m_rtEventTime', m_rtPeriod', m_dwAdviseCookie')
  BY <1>2, PrimedAlarms
<1>5. UNCHANGED <<m_rtEventTime, m_rtPeriod, m_dwAdviseCookie>>
  BY DEF listVars
<1> QED BY <1>3, <1>4, <1>5

\* An advise sets an alarm.
LEMMA AdviseSets ==
    ASSUME ClockInv, NEW time \in Times, NEW period \in Periods, Advise(time, period)
    PROVE  Clock!Next
<1>1. PICK n, L, c, C : Shape(n, L, c, C)
  BY DEF ClockInv
<1>2. /\ Types /\ AddAdvisePacket(time, period) /\ UNCHANGED <<rtNow, rung>>
  BY DEF ClockInv, Advise, threadVars
<1>3. PICK k, p, d, D :
              /\ k \in 0 .. n /\ p \in Packets
              /\ Shape(n + 1, Longer(n, L, k, p), d, D)'
              /\ \A i \in 1 .. n : L[i] # p
              /\ m_rtEventTime' = [m_rtEventTime EXCEPT ![p] = time]
              /\ m_rtPeriod' = [m_rtPeriod EXCEPT ![p] = period]
              /\ m_dwAdviseCookie' = [m_dwAdviseCookie EXCEPT ![p] = m_dwNextCookie + 1]
              /\ m_ev' = (m_ev \/ k = 0)
  BY <1>1, <1>2, Adding
<1> DEFINE a == [cookie |-> m_dwNextCookie + 1, due |-> time, period |-> period]
<1>4. /\ n \in Nat /\ \A i \in 1 .. n : L[i] \in Nodes /\ L[i] # p
      /\ \A i \in 1 .. n : m_dwAdviseCookie[L[i]] \in 1 .. m_dwNextCookie
      /\ m_dwNextCookie \in Nat /\ m_dwNextCookie < MaxAdvises
  <2>1. \A i \in 1 .. n : L[i] \in Packets
    BY <1>1, ShapeFacts
  <2> QED BY <1>1, <1>2, <1>3, <2>1, ShapeFacts, NodesApart
          DEF Shape, Ordered, Types, AddAdvisePacket
<1>5. Alarms = Pending(n, L, m_rtEventTime, m_rtPeriod, m_dwAdviseCookie)
  BY <1>1, AlarmsAre
<1>6. Alarms' = Pending(n + 1, Longer(n, L, k, p), m_rtEventTime', m_rtPeriod', m_dwAdviseCookie')
  BY <1>3, PrimedAlarms
<1>7. /\ m_rtEventTime'[p] = time /\ m_rtPeriod'[p] = period
      /\ m_dwAdviseCookie'[p] = m_dwNextCookie + 1
      /\ \A i \in 1 .. n : m_rtEventTime'[L[i]] = m_rtEventTime[L[i]]
                           /\ m_rtPeriod'[L[i]] = m_rtPeriod[L[i]]
                           /\ m_dwAdviseCookie'[L[i]] = m_dwAdviseCookie[L[i]]
  BY <1>2, <1>3, <1>4, NodesApart DEF Types
<1>8. Alarms' = Alarms \cup {a}
  <2>1. PICK T, P, K, T2, P2, K2 :
           /\ T = m_rtEventTime /\ P = m_rtPeriod /\ K = m_dwAdviseCookie
           /\ T2 = m_rtEventTime' /\ P2 = m_rtPeriod' /\ K2 = m_dwAdviseCookie'
    OBVIOUS
  <2>2. Same(1 .. n, L, T, P, K, T2, P2, K2)
    BY <1>7, <2>1 DEF Same
  <2>3. Pending(n + 1, Longer(n, L, k, p), T2, P2, K2) =
               With(Pending(n, L, T, P, K), AlarmOf(p, T2, P2, K2))
    <3>1. n \in Nat /\ k \in 0 .. n
      BY <1>3, <1>4
    <3> QED BY <2>2, <3>1, PendingLonger
  <2> QED BY <1>5, <1>6, <1>7, <2>1, <2>3 DEF AlarmOf, With, Without
<1>9. a \in [cookie : Cookies, due : Times, period : Periods]
  <2>1. m_dwNextCookie + 1 \in Cookies
    BY <1>4, ReferenceClockAssumption DEF Cookies
  <2> QED BY <2>1
<1>10. rung[a.cookie] = 0
  <2>1. m_dwNextCookie + 1 \in Cookies /\ m_dwNextCookie + 1 > m_dwNextCookie
    BY <1>4, ReferenceClockAssumption DEF Cookies
  <2>2. rung[m_dwNextCookie + 1] = 0
    BY <1>2, <2>1 DEF Types
  <2> QED BY <2>2
<1>11. \A b \in Alarms : b.cookie # a.cookie
  <2>1. ASSUME NEW b \in Alarms PROVE b.cookie # a.cookie
    <3>1. PICK i \in 1 .. n : b.cookie = m_dwAdviseCookie[L[i]]
      BY <1>5, <2>1 DEF Pending
    <3>2. a.cookie = m_dwNextCookie + 1
      OBVIOUS
    <3> QED BY <1>4, <3>1, <3>2
  <2> QED BY <2>1
<1> HIDE DEF a
<1>12. PICK q : q = a
  OBVIOUS
<1>13. Clock!Set(q)
  BY <1>2, <1>8, <1>10, <1>11, <1>12 DEF Clock!Set, Alarms
<1>14. \E x \in [cookie : Cookies, due : Times, period : Periods] : Clock!Set(x)
  BY <1>9, <1>12, <1>13
<1> QED BY <1>14 DEF Clock!Next

\* The alarms without that of the packet behind the k-th node.
LEMMA RemoveTakes ==
    ASSUME ClockInv, NEW n, NEW L, NEW c, NEW C, Shape(n, L, c, C), NEW k \in 0 .. n - 1,
           Remove(L[k]), UNCHANGED m_dwNextCookie
    PROVE  LET p == L[k + 1]
               a == [cookie |-> m_dwAdviseCookie[p], due |-> m_rtEventTime[p],
                     period |-> m_rtPeriod[p]]
           IN a \in Alarms /\ Alarms' = Alarms \ {a}
<1>1. Types
  BY DEF ClockInv
<1>2. PICK d, D : Shape(n - 1, Shorter(n, L, k), d, D)'
  BY <1>1, Removing
<1>3. /\ m_rtEventTime' = [m_rtEventTime EXCEPT ![L[k + 1]] = 0]
      /\ m_rtPeriod' = [m_rtPeriod EXCEPT ![L[k + 1]] = 0]
      /\ m_dwAdviseCookie' = [m_dwAdviseCookie EXCEPT ![L[k + 1]] = 0]
  BY <1>1, Removing
<1>4. /\ Alarms = Pending(n, L, m_rtEventTime, m_rtPeriod, m_dwAdviseCookie)
      /\ Alarms' = Pending(n - 1, Shorter(n, L, k), m_rtEventTime', m_rtPeriod', m_dwAdviseCookie')
  BY <1>2, AlarmsAre, PrimedAlarms
<1>5. n \in Nat /\ k + 1 \in 1 .. n
  <2>1. n \in Nat
    BY ShapeFacts
  <2> QED BY <2>1
<1>6. \A i \in 1 .. n : i # k + 1 => m_rtEventTime'[L[i]] = m_rtEventTime[L[i]]
                                     /\ m_rtPeriod'[L[i]] = m_rtPeriod[L[i]]
                                     /\ m_dwAdviseCookie'[L[i]] = m_dwAdviseCookie[L[i]]
  <2>1. ASSUME NEW i \in 1 .. n, i # k + 1
        PROVE  m_rtEventTime'[L[i]] = m_rtEventTime[L[i]]
               /\ m_rtPeriod'[L[i]] = m_rtPeriod[L[i]]
               /\ m_dwAdviseCookie'[L[i]] = m_dwAdviseCookie[L[i]]
    <3>1. i \in 0 .. n + 1 /\ k + 1 \in 0 .. n + 1
      BY <1>5
    <3>2. L[i] # L[k + 1] /\ L[i] \in Nodes
      BY <2>1, <3>1, NodesOnce, ShapeFacts
    <3> QED BY <1>1, <1>3, <3>2 DEF Types
  <2> QED BY <2>1
<1>7. \A i, j \in 1 .. n : m_dwAdviseCookie[L[i]] = m_dwAdviseCookie[L[j]] => i = j
  BY DEF Shape, Ordered
<1>8. PICK T, P, K, T2, P2, K2 :
         /\ T = m_rtEventTime /\ P = m_rtPeriod /\ K = m_dwAdviseCookie
         /\ T2 = m_rtEventTime' /\ P2 = m_rtPeriod' /\ K2 = m_dwAdviseCookie'
  OBVIOUS
<1>9. Pending(n - 1, Shorter(n, L, k), T2, P2, K2) =
          Without(Pending(n, L, T, P, K), AlarmOf(L[k + 1], T, P, K))
  <2>1. CookiesDiffer(n, L, K)
    BY <1>7, <1>8 DEF CookiesDiffer
  <2>2. Same((1 .. n) \ {k + 1}, L, T, P, K, T2, P2, K2)
    BY <1>6, <1>8 DEF Same
  <2>3. n \in Nat
    BY <1>5
  <2> QED BY <2>1, <2>2, <2>3, PendingShorter
<1>10. [cookie |-> K[L[k + 1]], due |-> T[L[k + 1]], period |-> P[L[k + 1]]]
           \in Pending(n, L, T, P, K)
  BY <1>5 DEF Pending
<1> QED BY <1>4, <1>8, <1>9, <1>10 DEF AlarmOf, With, Without

\* Unadvise cancels one.
LEMMA UnadviseCancels ==
    ASSUME ClockInv, NEW cookie \in Cookies, Unadvise(cookie)
    PROVE  Clock!Next
<1>1. PICK n, L, c, C : Shape(n, L, c, C)
  BY DEF ClockInv
<1>2. UNCHANGED <<m_dwNextCookie, rtNow, rung>>
  BY DEF Unadvise, threadVars
<1>3. PICK prev \in InChain(List) \cup {"head"} : m_next[prev] # "z" /\ Remove(prev)
  BY DEF Unadvise
<1>4. PICK k \in 0 .. n - 1 : prev = L[k]
  BY <1>1, <1>3, PrevOnList
<1>5. Remove(L[k])
  BY <1>3, <1>4
<1>6. \E a \in Alarms : Alarms' = Alarms \ {a}
  BY <1>1, <1>2, <1>5, RemoveTakes
<1>7. PICK a \in Alarms : Alarms' = Alarms \ {a}
  BY <1>6
<1>8. Clock!Cancel(a)
  BY <1>2, <1>7 DEF Clock!Cancel, Alarms
<1>9. \E b \in Alarms : Clock!Cancel(b)
  BY <1>7, <1>8
<1> QED BY <1>9 DEF Clock!Next, Alarms

\* The first packet has the earliest alarm.
LEMMA HeadFirst ==
    ASSUME ClockInv, NEW n, NEW L, NEW c, NEW C, Shape(n, L, c, C), HeadExpired
    PROVE  LET p == L[1]
               a == [cookie |-> m_dwAdviseCookie[p], due |-> m_rtEventTime[p],
                     period |-> m_rtPeriod[p]]
           IN /\ n > 0 /\ m_next["head"] = p /\ a \in Alarms
              /\ a.due <= rtNow + Ms /\ \A b \in Alarms : a.due <= b.due
<1>1. n \in Nat /\ n > 0 /\ 1 \in 1 .. n /\ m_next["head"] = L[1]
  BY ShapeFacts DEF HeadExpired
<1>2. Alarms = Pending(n, L, m_rtEventTime, m_rtPeriod, m_dwAdviseCookie)
  BY AlarmsAre
<1>3. /\ \A i \in 1 .. n : m_rtEventTime[L[i]] \in Int
      /\ \A i, j \in 1 .. n : i < j => m_rtEventTime[L[i]] <= m_rtEventTime[L[j]]
  BY DEF Shape, Ordered
<1>4. m_rtEventTime[L[1]] <= rtNow + Ms
  <2>1. rtNow + Resolution >= m_rtEventTime[L[1]] /\ rtNow \in Int
    BY <1>1, ReferenceClockAssumption DEF HeadExpired, ClockInv, Types
  <2> QED BY <1>1, <1>3, <2>1 DEF Resolution, Ms
<1>5. ASSUME NEW b \in Alarms PROVE m_rtEventTime[L[1]] <= b.due
  <2>1. PICK i \in 1 .. n : b.due = m_rtEventTime[L[i]]
    BY <1>2, <1>5 DEF Pending
  <2>2. 1 = i \/ 1 < i
    OBVIOUS
  <2> QED BY <1>1, <1>3, <2>1, <2>2
<1>6. [cookie |-> m_dwAdviseCookie[L[1]], due |-> m_rtEventTime[L[1]], period |-> m_rtPeriod[L[1]]]
          \in Alarms
  BY <1>1, <1>2 DEF Pending
<1> QED BY <1>1, <1>4, <1>5, <1>6

\* The notification of a single advise rings and ends the earliest alarm.
LEMMA AdviseOnceRings ==
    ASSUME ClockInv, AdviseOnce
    PROVE  Clock!Next
<1>1. PICK n, L, c, C : Shape(n, L, c, C)
  BY DEF ClockInv
<1> DEFINE p == L[1]
           a == [cookie |-> m_dwAdviseCookie[p], due |-> m_rtEventTime[p],
                 period |-> m_rtPeriod[p]]
<1>2. /\ HeadExpired /\ m_rtPeriod[m_next["head"]] = 0 /\ Remove("head")
      /\ rung' = [rung EXCEPT ![m_dwAdviseCookie[m_next["head"]]] = @ + 1]
      /\ UNCHANGED <<m_dwNextCookie, rtNow>>
  BY DEF AdviseOnce, SetNotify, threadVars
<1>3. /\ n > 0 /\ m_next["head"] = p /\ a \in Alarms
      /\ a.due <= rtNow + Ms /\ \A b \in Alarms : a.due <= b.due
  BY <1>1, <1>2, HeadFirst
<1>4. n \in Nat /\ 0 \in 0 .. n - 1 /\ Remove(L[0]) /\ 0 + 1 = 1
  <2>1. n \in Nat /\ L[0] = "head"
    BY <1>1, ShapeFacts
  <2> QED BY <1>2, <1>3, <2>1
<1>5. Alarms' = Alarms \ {a}
  <2>1. LET q == L[0 + 1]
            b == [cookie |-> m_dwAdviseCookie[q], due |-> m_rtEventTime[q], period |-> m_rtPeriod[q]]
        IN b \in Alarms /\ Alarms' = Alarms \ {b}
    BY <1>1, <1>2, <1>4, RemoveTakes
  <2> QED BY <1>4, <2>1
<1>6. a.period = 0 /\ rung' = [rung EXCEPT ![a.cookie] = @ + 1]
  BY <1>2, <1>3
<1> HIDE DEF a
<1>7. Alarms' = (Alarms \ {a}) \cup
                   (IF a.period = 0 THEN {} ELSE {[a EXCEPT !.due = @ + a.period]})
  BY <1>5, <1>6
<1>8. PICK x : x = a
  OBVIOUS
<1>9. Clock!Ring(x)
  BY <1>2, <1>3, <1>6, <1>7, <1>8 DEF Clock!Ring, Alarms
<1>10. \E b \in Alarms : Clock!Ring(b)
  BY <1>3, <1>8, <1>9
<1> QED BY <1>10 DEF Clock!Next, Alarms

\* That of a periodic one rings it and sets it a period later.
LEMMA AdvisePeriodicRings ==
    ASSUME ClockInv, AdvisePeriodic
    PROVE  Clock!Next
<1>1. PICK n, L, c, C : Shape(n, L, c, C)
  BY DEF ClockInv
<1> DEFINE p == L[1]
           a == [cookie |-> m_dwAdviseCookie[p], due |-> m_rtEventTime[p],
                 period |-> m_rtPeriod[p]]
           b == [cookie |-> m_dwAdviseCookie[p], due |-> m_rtEventTime[p] + m_rtPeriod[p],
                 period |-> m_rtPeriod[p]]
<1>2. /\ HeadExpired /\ m_rtPeriod[m_next["head"]] > 0 /\ Types
      /\ rung' = [rung EXCEPT ![m_dwAdviseCookie[m_next["head"]]] = @ + 1]
      /\ UNCHANGED rtNow
  BY DEF AdvisePeriodic, SetNotify, threadVars, ClockInv
<1>3. /\ n > 0 /\ m_next["head"] = p /\ a \in Alarms
      /\ a.due <= rtNow + Ms /\ \A x \in Alarms : a.due <= x.due
  BY <1>1, <1>2, HeadFirst
<1>4. PICK k \in 0 .. n - 1 : Shape(n, Longer(n - 1, Shorter(n, L, 0), k, p), c, C)'
  BY <1>1, <1>2, Shunting
<1>5. /\ m_rtEventTime' = [m_rtEventTime EXCEPT ![p] = @ + m_rtPeriod[p]]
      /\ UNCHANGED <<m_rtPeriod, m_dwAdviseCookie>>
  BY <1>1, <1>2, Shunting
<1>6. /\ Alarms = Pending(n, L, m_rtEventTime, m_rtPeriod, m_dwAdviseCookie)
      /\ Alarms' = Pending(n, Longer(n - 1, Shorter(n, L, 0), k, p), m_rtEventTime', m_rtPeriod',
                           m_dwAdviseCookie')
  BY <1>1, <1>4, AlarmsAre, PrimedAlarms
<1>7. /\ n \in Nat /\ n - 1 \in Nat /\ (n - 1) + 1 = n /\ 0 \in 0 .. n - 1 /\ 0 + 1 = 1 /\ p \in Nodes
      /\ m_rtEventTime'[p] = m_rtEventTime[p] + m_rtPeriod[p]
  <2>1. n \in Nat /\ p \in Nodes
    BY <1>1, <1>3, ShapeFacts, NodesApart
  <2>2. n - 1 \in Nat /\ (n - 1) + 1 = n /\ 0 \in 0 .. n - 1 /\ 0 + 1 = 1
    BY <1>3, <2>1
  <2> HIDE DEF p
  <2> QED BY <1>2, <1>5, <2>1, <2>2 DEF Types
<1>8. \A i \in 1 .. n : i # 1 => m_rtEventTime'[L[i]] = m_rtEventTime[L[i]]
  <2>1. ASSUME NEW i \in 1 .. n, i # 1 PROVE m_rtEventTime'[L[i]] = m_rtEventTime[L[i]]
    <3>1. i \in 0 .. n + 1 /\ 1 \in 0 .. n + 1
      BY <1>7
    <3>2. L[i] # p /\ L[i] \in Nodes
      BY <1>1, <2>1, <3>1, NodesOnce, ShapeFacts
    <3> HIDE DEF p
    <3> QED BY <1>2, <1>5, <3>2 DEF Types
  <2> QED BY <2>1
<1>9. Alarms' = (Alarms \ {a}) \cup {b}
  <2>1. PICK T, P, K, T2 :
           /\ T = m_rtEventTime /\ P = m_rtPeriod /\ K = m_dwAdviseCookie /\ T2 = m_rtEventTime'
    OBVIOUS
  <2>2. CookiesDiffer(n, L, K)
    BY <1>1, <2>1 DEF Shape, Ordered, CookiesDiffer
  <2>3. Same((1 .. n) \ {0 + 1}, L, T, P, K, T2, P, K)
    BY <1>7, <1>8, <2>1 DEF Same
  <2>4. Pending(n - 1, Shorter(n, L, 0), T2, P, K) =
            Without(Pending(n, L, T, P, K), AlarmOf(L[0 + 1], T, P, K))
    <3>1. n \in Nat /\ 0 \in 0 .. n - 1
      BY <1>7
    <3> QED BY <2>2, <2>3, <3>1, PendingShorter
  <2> DEFINE M == Shorter(n, L, 0)
  <2>5. Same(1 .. n - 1, M, T2, P, K, T2, P, K)
    BY DEF Same
  <2>6. Pending((n - 1) + 1, Longer(n - 1, M, k, p), T2, P, K) =
            With(Pending(n - 1, M, T2, P, K), AlarmOf(p, T2, P, K))
    <3> HIDE DEF M, p
    <3>1. n - 1 \in Nat /\ k \in 0 .. n - 1
      BY <1>7
    <3> QED BY <2>5, <3>1, PendingLonger
  <2>7. T2[p] = T[p] + P[p]
    BY <1>7, <2>1
  <2> QED BY <1>5, <1>6, <1>7, <2>1, <2>4, <2>6, <2>7 DEF AlarmOf, With, Without
<1>10. b = [a EXCEPT !.due = @ + a.period]
  OBVIOUS
<1>11. a.period # 0 /\ rung' = [rung EXCEPT ![a.cookie] = @ + 1]
  <2>1. m_rtPeriod[p] # 0
    BY <1>2, <1>3, <1>7 DEF Types
  <2> QED BY <1>2, <1>3, <2>1
<1> HIDE DEF a, b
<1>12. Alarms' = (Alarms \ {a}) \cup
                   (IF a.period = 0 THEN {} ELSE {[a EXCEPT !.due = @ + a.period]})
  BY <1>9, <1>10, <1>11
<1>13. PICK y : y = a
  OBVIOUS
<1>14. Clock!Ring(y)
  BY <1>2, <1>3, <1>11, <1>12, <1>13 DEF Clock!Ring, Alarms
<1>15. \E x \in Alarms : Clock!Ring(x)
  BY <1>3, <1>13, <1>14
<1> QED BY <1>15 DEF Clock!Next, Alarms

\* Every step of the clock is a step of the alarm clock, or none.
LEMMA StepAlarm == ClockInv /\ [ClockNext]_clockVars => [Clock!Next]_(Clock!vars)
<1> SUFFICES ASSUME ClockInv, [ClockNext]_clockVars PROVE [Clock!Next]_(Clock!vars)
  OBVIOUS
<1>1. CASE \E t \in Times, p \in Periods : Advise(t, p)
  BY <1>1, AdviseSets
<1>2. CASE \E k \in Cookies : Unadvise(k)
  BY <1>2, UnadviseCancels
<1>3. CASE AdviseOnce
  BY <1>3, AdviseOnceRings
<1>4. CASE AdvisePeriodic
  BY <1>4, AdvisePeriodicRings
<1>5. CASE ThreadReadsTime \/ AdviseEnds
  <2>1. UNCHANGED <<listVars, cacheVars, countVars>> /\ UNCHANGED rung
    BY <1>5 DEF ThreadReadsTime, AdviseEnds
  <2>2. rtNow' \in Int
    BY <1>5, ReferenceClockAssumption DEF ThreadReadsTime, AdviseEnds, ClockInv, Types
  <2>3. Alarms' = Alarms
    BY <2>1, AlarmsStay
  <2>4. Clock!Look
    BY <2>1, <2>2, <2>3 DEF Clock!Look, Alarms
  <2> QED BY <2>4 DEF Clock!Next
<1>6. CASE \/ \E d \in Deltas : SetTimeDelta(d)
           \/ SetTimeDeltaTrigger \/ Abort \/ Joined \/ Tick \/ ThreadWakes \/ UNCHANGED clockVars
  <2>1. UNCHANGED <<listVars, cacheVars, countVars>> /\ UNCHANGED <<rung, rtNow>>
    BY <1>6 DEF SetTimeDelta, SetTimeDeltaTrigger, Abort, Joined, Tick, ThreadWakes, threadVars,
                clockVars
  <2>2. Alarms' = Alarms
    BY <2>1, AlarmsStay
  <2> QED BY <2>1, <2>2 DEF Clock!vars, Alarms
<1> QED BY <1>1, <1>2, <1>3, <1>4, <1>5, <1>6 DEF ClockNext, ThreadStep, Destroyed

\* CBaseReferenceClock implements an alarm clock: an advise is notified only when
\* the thread has seen its time or the millisecond before, the earliest first, once
\* if it is single, once a period if it is periodic, and never after Unadvise.
THEOREM ClockIsAlarmClock == ClockSpec => ImplementsClock
<1>1. ASSUME ClockInit PROVE Clock!Init
  <2>1. ClockInv
    BY <1>1, InitClock
  <2>2. PICK n, L, c, C : Shape(n, L, c, C)
    BY <2>1 DEF ClockInv
  <2>3. m_dwAdviseCount = n /\ n = 0
    BY <1>1, <2>2 DEF Shape, ClockInit
  <2>4. Alarms = {}
    <3>1. Alarms = Pending(n, L, m_rtEventTime, m_rtPeriod, m_dwAdviseCookie)
      BY <2>2, AlarmsAre
    <3>2. 1 .. n = {}
      BY <2>3
    <3> QED BY <3>1, <3>2 DEF Pending
  <2>5. rtNow = 0 /\ \A x \in DOMAIN rung : rung[x] = 0
    BY <1>1 DEF ClockInit
  <2> QED BY <2>4, <2>5 DEF Clock!Init, Alarms
<1> QED BY <1>1, ClockInvHolds, StepAlarm, PTL DEF ClockSpec, ImplementsClock, Clock!Spec
=============================================================================
