----------------------------- MODULE WorkerCall -----------------------------
(***************************************************************************)
(* What CAMThread::CallWorker promises: a call carries one request, the    *)
(* worker answers it once, one call at a time, and the caller returns with *)
(* the answer to its own request.  Without a thread the call fails.        *)
(***************************************************************************)
CONSTANTS Clients, Params

VARIABLES phase,    \* of each client: "idle", "asked", "answered"
          request,  \* what each client asked last
          answer    \* what its last call returned

callVars == <<phase, request, answer>>

CallInit ==
    /\ phase = [c \in Clients |-> "idle"]
    /\ request = [c \in Clients |-> "unset"]
    /\ answer = [c \in Clients |-> "none"]

Ask(c, p) ==
    /\ phase[c] = "idle" /\ \A d \in Clients : phase[d] = "idle"
    /\ phase' = [phase EXCEPT ![c] = "asked"]
    /\ request' = [request EXCEPT ![c] = p]
    /\ UNCHANGED answer

Fail(c, p) ==
    /\ phase[c] = "idle"
    /\ request' = [request EXCEPT ![c] = p]
    /\ answer' = [answer EXCEPT ![c] = "E_FAIL"]
    /\ UNCHANGED phase

Answer(c) ==
    /\ phase[c] = "asked"
    /\ phase' = [phase EXCEPT ![c] = "answered"]
    /\ UNCHANGED <<request, answer>>

Return(c) ==
    /\ phase[c] = "answered"
    /\ phase' = [phase EXCEPT ![c] = "idle"]
    /\ answer' = [answer EXCEPT ![c] = request[c]]
    /\ UNCHANGED request

CallNext == \E c \in Clients :
    Answer(c) \/ Return(c) \/ \E p \in Params : Ask(c, p) \/ Fail(c, p)

CallSpec == CallInit /\ [][CallNext]_callVars
=============================================================================
