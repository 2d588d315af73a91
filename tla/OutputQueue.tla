---------------------------- MODULE OutputQueue -----------------------------
(***************************************************************************)
(* COutputQueue (baseclasses/outputq.cpp): samples, segment notices and    *)
(* ends of stream on their way to a downstream pin, either through a list  *)
(* and a thread of the queue's own or by a direct call, in batches.        *)
(*                                                                         *)
(* Three actors meet in it: the streaming thread that calls Receive,       *)
(* ReceiveMultiple, NewSegment, EOS, SendAnyway and Reset; the control     *)
(* thread that calls BeginFlush, EndFlush and the destructor; and the      *)
(* queue's thread.  A stretch of code under the critical section is one    *)
(* action unless it calls downstream.  The downstream pin may keep a       *)
(* Receive for as long as it is not flushing.                              *)
(*                                                                         *)
(* The caller's side of the contract, from the comments of BeginFlush and  *)
(* EndFlush: no streaming call is in progress during EndFlush or the       *)
(* destructor.  Allocation does not fail and the event m_hEventPop for     *)
(* derived classes is left out.                                            *)
(***************************************************************************)
EXTENDS Integers, Sequences, FiniteSets

CONSTANTS
    Modes,             \* [queued, exact, opt: BOOLEAN, size: Nat]: constructor arguments
    MaxItems,          \* bound on the items handed to the queue
    MaxList,           \* bound on the list, for SendAnyway and Reset
    MaxFlushes,        \* bound on the flushes
    MaxAtOnce,         \* bound on the samples of one ReceiveMultiple
    ResetAndFlush      \* Reset may be called once a flush has begun

Mode == [queued : BOOLEAN, exact : BOOLEAN, opt : BOOLEAN, size : Nat \ {0}]

ASSUME OutputQueueAssumption ==
    /\ Modes \subseteq Mode /\ Modes # {}
    /\ \A m \in Modes : m.exact => m.size > 1
    /\ MaxItems \in Nat /\ MaxList \in Nat \ {0} /\ MaxFlushes \in Nat
    /\ MaxAtOnce \in Nat \ {0}
    /\ ResetAndFlush \in BOOLEAN

Items    == [kind : {"sample", "segment", "eos"}, n : 1 .. MaxItems]
Send     == [kind |-> "send", n |-> 0]
ResetMsg == [kind |-> "reset", n |-> 0]
NoPacket == [kind |-> "none", n |-> 0]
Results  == {"S_OK", "S_FALSE", "error"}
Free     == "nobody"

VARIABLES
    mode,               \* the constructor's arguments, never assigned again
    m_List, m_ppSamples,
    m_lWaiting, m_hSem, \* the thread asks for a signal; the semaphore's count
    m_evFlushComplete,  \* auto-reset event
    m_hr, m_bFlushing, m_bFlushed, m_bTerminate,
    lock,               \* owner of the critical section
    spc, op, args,      \* streaming thread: label, operation, its items
    qpc, sending, special, hr,  \* queue's thread: label, local batch, packet, result
    apc,                \* control thread
    downFlushing,       \* the downstream pin is flushing
    issued, flushes,    \* items handed in so far, flushes ended so far
    last                \* the last item that went downstream

streamVars  == <<spc, op, args>>
threadVars  == <<qpc, sending, special, hr>>
queueVars   == <<m_List, m_ppSamples>>
signalVars  == <<m_lWaiting, m_hSem, m_evFlushComplete>>
flagVars    == <<m_hr, m_bFlushing, m_bFlushed, m_bTerminate>>
countVars   == <<issued, flushes>>
outVars     == <<downFlushing, last>>
vars == <<mode, streamVars, threadVars, queueVars, signalVars, flagVars, lock,
          apc, countVars, outVars>>

Init ==
    /\ mode \in Modes
    /\ m_List = <<>> /\ m_ppSamples = <<>>
    /\ m_lWaiting = 0 /\ m_hSem = 0 /\ m_evFlushComplete = FALSE
    /\ m_hr = "S_OK" /\ m_bFlushing = FALSE /\ m_bFlushed = TRUE /\ m_bTerminate = FALSE
    /\ lock = Free /\ spc = "idle" /\ op = "none" /\ args = <<>>
    /\ qpc = (IF mode.queued THEN "top" ELSE "none")
    /\ sending = <<>> /\ special = NoPacket /\ hr = "S_OK"
    /\ apc = "idle" /\ downFlushing = FALSE
    /\ issued = 0 /\ flushes = 0 /\ last = 0
-----------------------------------------------------------------------------
New(kind, k) == [i \in 1 .. k |-> [kind |-> kind, n |-> issued + i]]

IsData(item) == item.kind = "sample"

\* A segment notice takes two places of the list.
GetCount(list) == Len(list) + Cardinality({i \in DOMAIN list : list[i].kind = "segment"})

\* Mutant: a lost signal.
NotifyNobody == UNCHANGED <<m_lWaiting, m_hSem>>

\* Mutant: the flag is not reset.
NotifyAndKeep == m_lWaiting' = m_lWaiting /\ m_hSem' = m_hSem + m_lWaiting

\* Signal the thread if it waits.  The critical section is held.
NotifyThread == m_lWaiting' = 0 /\ m_hSem' = m_hSem + m_lWaiting

\* ReceiveMultiple wakes the thread when there is a batch to send.
WorthWaking(list) == ~mode.exact \/ Len(m_ppSamples) + GetCount(list) >= mode.size

\* Samples or an end of stream have been accepted since the last flush.
FlushedNoMore == FALSE

\* The streaming thread makes a call: the queue exists and is not in EndFlush.
MayCall == spc = "idle" /\ apc \in {"idle", "sendBegin", "lockBegin", "flushing"}

MayReset == ResetAndFlush \/ (apc = "idle" /\ flushes = 0)

StreamIdle == spc' = "idle" /\ op' = "none" /\ args' = <<>>

Enqueue(item) == m_List' = Append(m_List, item)
-----------------------------------------------------------------------------
(* The streaming thread, through the list. *)

\* Receive and ReceiveMultiple; while m_hr is not S_OK the samples are released.
ReceiveQueued(k) ==
    /\ mode.queued /\ MayCall /\ lock = Free /\ m_hr = "S_OK"
    /\ k <= MaxItems - issued /\ Len(m_List) + k <= MaxList
    /\ m_List' = m_List \o New("sample", k) /\ issued' = issued + k
    /\ m_bFlushed' = FlushedNoMore
    /\ IF WorthWaking(m_List') THEN NotifyThread ELSE UNCHANGED <<m_lWaiting, m_hSem>>
    /\ UNCHANGED <<mode, streamVars, threadVars, m_ppSamples, m_evFlushComplete, m_hr,
                   m_bFlushing, m_bTerminate, lock, apc, flushes, outVars>>

EOSQueued ==
    /\ mode.queued /\ MayCall /\ lock = Free /\ m_hr = "S_OK"
    /\ issued < MaxItems /\ Len(m_List) < MaxList
    /\ Enqueue(New("eos", 1)[1]) /\ issued' = issued + 1
    /\ m_bFlushed' = FlushedNoMore /\ NotifyThread
    /\ UNCHANGED <<mode, streamVars, threadVars, m_ppSamples, m_evFlushComplete, m_hr,
                   m_bFlushing, m_bTerminate, lock, apc, flushes, outVars>>

SendAnywayQueued ==
    /\ mode.queued /\ MayCall /\ lock = Free /\ Len(m_List) < MaxList
    /\ Enqueue(Send) /\ NotifyThread
    /\ UNCHANGED <<mode, streamVars, threadVars, m_ppSamples, m_evFlushComplete, flagVars,
                   lock, apc, countVars, outVars>>

\* NewSegment looks at m_hr before it takes the critical section.
NewSegmentQueued ==
    /\ mode.queued /\ MayCall /\ m_hr = "S_OK" /\ issued < MaxItems
    /\ Len(m_List) < MaxList
    /\ spc' = "segment" /\ op' = "NewSegment" /\ args' = New("segment", 1)
    /\ issued' = issued + 1
    /\ UNCHANGED <<mode, threadVars, queueVars, signalVars, flagVars, lock, apc, flushes, outVars>>

NewSegmentEnqueue ==
    /\ mode.queued /\ spc = "segment" /\ lock = Free
    /\ m_List' = m_List \o args /\ NotifyThread /\ StreamIdle
    /\ UNCHANGED <<mode, threadVars, m_ppSamples, m_evFlushComplete, flagVars, lock, apc,
                   countVars, outVars>>

\* Reset sends a packet and waits for the event EndFlush also waits for.
ResetQueued ==
    /\ mode.queued /\ MayCall /\ lock = Free /\ Len(m_List) < MaxList
    /\ MayReset
    /\ Enqueue(ResetMsg) /\ NotifyThread
    /\ spc' = "reset" /\ op' = "Reset" /\ UNCHANGED args
    /\ UNCHANGED <<mode, threadVars, m_ppSamples, m_evFlushComplete, flagVars, lock, apc,
                   countVars, outVars>>

ResetWait ==
    /\ spc = "reset" /\ m_evFlushComplete
    /\ m_evFlushComplete' = FALSE /\ StreamIdle
    /\ UNCHANGED <<mode, threadVars, queueVars, m_lWaiting, m_hSem, flagVars, lock, apc,
                   countVars, outVars>>
-----------------------------------------------------------------------------
(* The streaming thread, by a direct call: the critical section is held    *)
(* while the samples are with the downstream pin.                          *)

\* Each operation that sends what is in the batch calls SendAnyway to do it.
SendsAnyway == op \in {"SendAnyway", "NewSegment", "EOS"}

DirectCall(o, items) ==
    /\ ~mode.queued /\ MayCall /\ lock = Free
    /\ lock' = "stream" /\ spc' = "loop" /\ op' = o /\ args' = items
    /\ issued' = issued + Len(items)
    /\ UNCHANGED <<mode, threadVars, queueVars, signalVars, m_hr, m_bFlushing, m_bTerminate,
                   apc, flushes, outVars>>

\* Receive and ReceiveMultiple while m_hr is S_OK.
ReceiveDirect(k) ==
    /\ m_hr = "S_OK" /\ k <= MaxItems - issued
    /\ DirectCall("Receive", New("sample", k)) /\ m_bFlushed' = FlushedNoMore

SendAnywayDirect ==
    /\ m_hr = "S_OK" /\ DirectCall("SendAnyway", <<>>) /\ m_bFlushed' = FlushedNoMore

\* A batch that need not be exact is not sent before an end of stream.
EOSDirect ==
    /\ m_hr = "S_OK" /\ issued < MaxItems
    /\ DirectCall("EOS", New("eos", 1)) /\ m_bFlushed' = FlushedNoMore

NewSegmentDirect ==
    /\ ~mode.queued /\ MayCall /\ m_hr = "S_OK" /\ issued < MaxItems
    /\ op' = "NewSegment" /\ args' = New("segment", 1) /\ issued' = issued + 1
    /\ spc' = (IF mode.exact THEN "lockSegment" ELSE "segment")
    /\ UNCHANGED <<mode, threadVars, queueVars, signalVars, flagVars, lock, apc, flushes, outVars>>

\* SendAnyway of NewSegment; the stream may have become unsound before it has
\* the critical section, and then nothing is sent.
NewSegmentLock ==
    /\ spc = "lockSegment" /\ lock = Free
    /\ IF m_hr = "S_OK" THEN spc' = "loop" /\ lock' = "stream" /\ m_bFlushed' = FlushedNoMore
                        ELSE spc' = "segment" /\ UNCHANGED <<lock, m_bFlushed>>
    /\ UNCHANGED <<mode, op, args, threadVars, queueVars, signalVars, m_hr, m_bFlushing,
                   m_bTerminate, apc, countVars, outVars>>

\* The loop of ReceiveMultiple ends: the operation goes on or returns.
LoopEnds ==
    /\ CASE op = "EOS" -> spc' = "eos" /\ UNCHANGED <<op, args, lock>>
         [] op = "NewSegment" -> spc' = "segment" /\ lock' = Free /\ UNCHANGED <<op, args>>
         [] OTHER -> StreamIdle /\ lock' = Free
    /\ UNCHANGED m_ppSamples

\* The loop: the next sample goes into the batch, and a batch that is full, or
\* that SendAnyway asks for, goes downstream, or is released if m_hr is bad.
DirectLoop ==
    /\ spc = "loop"
    /\ LET more  == op = "Receive" /\ args # <<>>
           flush == SendsAnyway /\ (op # "EOS" \/ mode.exact)
           b     == IF more THEN Append(m_ppSamples, Head(args)) ELSE m_ppSamples
           whole == Len(b) = mode.size \/ (op # "Receive" /\ flush)
       IN IF ~more /\ ~(flush /\ m_ppSamples # <<>>)
            THEN LoopEnds
            ELSE /\ args' = IF more THEN Tail(args) ELSE args
                 /\ spc' = IF whole /\ m_hr = "S_OK" THEN "deliver" ELSE "loop"
                 /\ m_ppSamples' = IF whole /\ m_hr # "S_OK" THEN <<>> ELSE b
                 /\ UNCHANGED <<op, lock>>
    /\ UNCHANGED <<mode, threadVars, m_List, signalVars, flagVars, apc, countVars, outVars>>

\* What the downstream pin does with n samples: all of them and S_OK, or the
\* first k and another result; none while it is flushing.
Downstream(n, k, res) ==
    IF downFlushing THEN k = 0 /\ res = "S_FALSE"
                    ELSE res \in Results /\ k \in 0 .. n /\ (res = "S_OK" => k = n)

DirectReturns(k, res) ==
    /\ ~mode.queued /\ spc = "deliver" /\ Downstream(Len(m_ppSamples), k, res)
    /\ last' = IF k = 0 THEN last ELSE m_ppSamples[k].n
    /\ m_hr' = res /\ m_ppSamples' = <<>> /\ spc' = "loop"
    /\ UNCHANGED <<mode, op, args, threadVars, m_List, signalVars, m_bFlushing, m_bFlushed,
                   m_bTerminate, lock, apc, countVars, downFlushing>>

\* The end of stream, unless the batch before it was refused.
DirectEos ==
    /\ spc = "eos"
    /\ last' = IF m_hr = "S_OK" /\ ~downFlushing THEN args[1].n ELSE last
    /\ StreamIdle /\ lock' = Free
    /\ UNCHANGED <<mode, threadVars, queueVars, signalVars, flagVars, apc, countVars, downFlushing>>

\* The segment notice goes downstream whatever became of the batch.
DirectSegment ==
    /\ ~mode.queued /\ spc = "segment" /\ last' = args[1].n /\ StreamIdle
    /\ UNCHANGED <<mode, threadVars, queueVars, signalVars, flagVars, lock, apc, countVars,
                   downFlushing>>

ResetDirect ==
    /\ ~mode.queued /\ MayCall /\ MayReset
    /\ m_hr # "S_OK" /\ m_hr' = "S_OK"
    /\ UNCHANGED <<mode, streamVars, threadVars, queueVars, signalVars, m_bFlushing, m_bFlushed,
                   m_bTerminate, lock, apc, countVars, outVars>>
-----------------------------------------------------------------------------
(* The queue's thread. *)

\* The thread enters the critical section to collect a batch.
ThreadEnter ==
    /\ qpc = "top" /\ lock = Free /\ lock' = "thread" /\ qpc' = "loop"
    /\ UNCHANGED <<mode, streamVars, sending, special, hr, queueVars, signalVars, flagVars, apc,
                   countVars, outVars>>

\* FreeSamples releases the list and the batch.
FreeSamples == [list |-> <<>>, batch |-> <<>>]

\* The queue is being destroyed.
ThreadTerminates ==
    /\ qpc = "loop" /\ m_bTerminate
    /\ m_List' = FreeSamples.list /\ m_ppSamples' = FreeSamples.batch
    /\ lock' = Free /\ qpc' = "exit"
    /\ UNCHANGED <<mode, streamVars, sending, special, hr, signalVars, flagVars, apc, countVars, outVars>>

\* Leave the critical section with a batch to send and the packet that ended it.
TakeBatch(batch, packet) ==
    /\ sending' = batch /\ special' = packet /\ m_ppSamples' = <<>>
    /\ qpc' = "send" /\ lock' = Free /\ UNCHANGED m_lWaiting

\* One turn of the loop in the critical section: throw everything away if the
\* queue is flushing, then take what is first on the list.
ThreadLoop ==
    /\ qpc = "loop" /\ ~m_bTerminate
    /\ m_evFlushComplete' = (m_evFlushComplete \/ m_bFlushing)
    /\ LET q == IF m_bFlushing THEN FreeSamples
                               ELSE [list |-> m_List, batch |-> m_ppSamples]
           first == IF q.list = <<>> THEN NoPacket ELSE Head(q.list)
           batch == IF IsData(first) THEN Append(q.batch, first) ELSE q.batch
       IN /\ m_List' = IF q.list = <<>> THEN <<>> ELSE Tail(q.list)
          /\ \/ /\ IsData(first) /\ Len(batch) = mode.size
                /\ TakeBatch(batch, NoPacket)
             \/ /\ \/ IsData(first) /\ Len(batch) < mode.size
                   \/ first = Send /\ batch = <<>>
                /\ m_ppSamples' = batch
                /\ UNCHANGED <<m_lWaiting, qpc, lock, sending, special>>
             \/ /\ first = NoPacket /\ (mode.exact \/ batch = <<>>)
                /\ m_lWaiting' = m_lWaiting + 1 /\ m_ppSamples' = batch
                /\ qpc' = "wait" /\ lock' = Free /\ UNCHANGED <<sending, special>>
             \/ /\ ~IsData(first) /\ (first = Send => batch # <<>>)
                /\ first = NoPacket => ~mode.exact /\ batch # <<>>
                /\ TakeBatch(batch, first)
    /\ UNCHANGED <<mode, streamVars, hr, m_hSem, flagVars, apc, countVars, outVars>>

\* The semaphore, outside the critical section.
ThreadWakes ==
    /\ qpc = "wait" /\ m_hSem > 0 /\ m_hSem' = m_hSem - 1 /\ qpc' = "top"
    /\ UNCHANGED <<mode, streamVars, sending, special, hr, queueVars, m_lWaiting, m_evFlushComplete,
                   flagVars, lock, apc, countVars, outVars>>

\* Outside the critical section: the batch is delivered if m_hr is S_OK now and
\* released otherwise.
ThreadSend ==
    /\ qpc = "send"
    /\ IF sending # <<>> /\ m_hr = "S_OK"
         THEN qpc' = "deliver" /\ UNCHANGED sending
         ELSE qpc' = "special" /\ sending' = <<>>
    /\ UNCHANGED <<mode, streamVars, special, hr, queueVars, signalVars, flagVars, lock, apc,
                   countVars, outVars>>

\* The downstream pin returns from ReceiveMultiple.
ThreadReturns(k, res) ==
    /\ mode.queued /\ qpc = "deliver" /\ Downstream(Len(sending), k, res)
    /\ last' = IF k = 0 THEN last ELSE sending[k].n
    /\ sending' = SubSeq(sending, k + 1, Len(sending))
    /\ hr' = res /\ qpc' = "result"
    /\ UNCHANGED <<mode, streamVars, special, queueVars, signalVars, flagVars, lock, apc, countVars,
                   downFlushing>>

\* Mutant: the result overwrites a flushing m_hr.
OverwriteResult == hr

\* A result does not overwrite a flushing m_hr.
StickyResult == IF m_hr = "S_OK" THEN hr ELSE m_hr

ThreadResult ==
    /\ qpc = "result" /\ lock = Free
    /\ m_hr' = StickyResult /\ sending' = <<>> /\ qpc' = "special"
    /\ UNCHANGED <<mode, streamVars, special, hr, queueVars, signalVars, m_bFlushing, m_bFlushed,
                   m_bTerminate, lock, apc, countVars, outVars>>

ThreadTop == qpc' = "top" /\ special' = NoPacket

\* No packet, or SEND_PACKET: the next batch.
ThreadNext ==
    /\ qpc = "special" /\ special.kind \in {"none", "send"} /\ ThreadTop
    /\ UNCHANGED <<mode, streamVars, sending, hr, queueVars, signalVars, flagVars, lock, apc,
                   countVars, outVars>>

\* EOS_PACKET: the end of stream goes on only if m_hr is still S_OK.
ThreadEos ==
    /\ qpc = "special" /\ special.kind = "eos"
    /\ IF m_hr = "S_OK" THEN qpc' = "inEos" /\ UNCHANGED special ELSE ThreadTop
    /\ UNCHANGED <<mode, streamVars, sending, hr, queueVars, signalVars, flagVars, lock, apc,
                   countVars, outVars>>

ThreadEosSent ==
    /\ qpc = "inEos" /\ ThreadTop
    /\ last' = IF downFlushing THEN last ELSE special.n
    /\ UNCHANGED <<mode, streamVars, sending, hr, queueVars, signalVars, flagVars, lock, apc,
                   countVars, downFlushing>>

\* NEW_SEGMENT goes on whatever m_hr is.
ThreadSegment ==
    /\ qpc = "special" /\ special.kind = "segment" /\ ThreadTop
    /\ last' = special.n
    /\ UNCHANGED <<mode, streamVars, sending, hr, queueVars, signalVars, flagVars, lock, apc,
                   countVars, downFlushing>>

\* RESET_PACKET: m_hr, then the event, both without the critical section.
ThreadReset ==
    /\ qpc = "special" /\ special.kind = "reset"
    /\ m_hr' = "S_OK" /\ qpc' = "inReset"
    /\ UNCHANGED <<mode, streamVars, sending, special, hr, queueVars, signalVars, m_bFlushing,
                   m_bFlushed, m_bTerminate, lock, apc, countVars, outVars>>

ThreadResetDone ==
    /\ qpc = "inReset" /\ m_evFlushComplete' = TRUE /\ ThreadTop
    /\ UNCHANGED <<mode, streamVars, sending, hr, queueVars, m_lWaiting, m_hSem, flagVars, lock,
                   apc, countVars, outVars>>
-----------------------------------------------------------------------------
(* The control thread. *)

\* Mutant: the critical section first in both modes.
LockFirst == "lockBegin"

\* BeginFlush goes downstream first if there is no thread.
FirstOfBeginFlush == IF mode.queued THEN "lockBegin" ELSE "sendBegin"

BeginFlush ==
    /\ apc = "idle" /\ flushes < MaxFlushes /\ (ResetAndFlush \/ spc # "reset")
    /\ apc' = FirstOfBeginFlush
    /\ UNCHANGED <<mode, streamVars, threadVars, queueVars, signalVars, flagVars, lock, countVars, outVars>>

\* Mutant: the event of an earlier flush remains set.
KeepEvent == m_evFlushComplete

\* BeginFlush makes EndFlush wait for this flush.
ResetEvent == FALSE

\* The critical section of BeginFlush; a queue that was flushed already, and is
\* told to save itself the call, does not go downstream.
BeginFlushLocked ==
    /\ apc = "lockBegin" /\ lock = Free
    /\ m_bFlushing' = TRUE
    /\ m_hr' = IF m_hr = "S_OK" THEN "S_FALSE" ELSE m_hr
    /\ IF mode.queued /\ ~(m_bFlushed /\ mode.opt)
         THEN m_evFlushComplete' = ResetEvent /\ NotifyThread /\ apc' = "sendBegin"
         ELSE /\ apc' = (IF mode.queued \/ downFlushing THEN "flushing" ELSE "sendBegin")
              /\ UNCHANGED signalVars
    /\ UNCHANGED <<mode, streamVars, threadVars, queueVars, m_bFlushed, m_bTerminate, lock,
                   countVars, outVars>>

BeginFlushDownstream ==
    /\ apc = "sendBegin" /\ downFlushing' = TRUE
    /\ apc' = (IF m_bFlushing THEN "flushing" ELSE "lockBegin")
    /\ UNCHANGED <<mode, streamVars, threadVars, queueVars, signalVars, flagVars, lock, countVars, last>>

\* EndFlush, once no streaming call is in progress.
EndFlush ==
    /\ apc = "flushing" /\ spc = "idle" /\ lock = Free
    /\ IF mode.opt /\ m_bFlushed /\ mode.queued
         THEN /\ m_bFlushing' = FALSE /\ m_hr' = "S_OK" /\ apc' = "idle"
              /\ flushes' = flushes + 1
         ELSE apc' = "wait" /\ UNCHANGED <<m_bFlushing, m_hr, flushes>>
    /\ UNCHANGED <<mode, streamVars, threadVars, queueVars, signalVars, m_bFlushed, m_bTerminate,
                   lock, issued, outVars>>

\* The thread has thrown everything away.
EndFlushWait ==
    /\ apc = "wait" /\ mode.queued /\ m_evFlushComplete
    /\ m_evFlushComplete' = FALSE /\ apc' = "clear"
    /\ UNCHANGED <<mode, streamVars, threadVars, queueVars, m_lWaiting, m_hSem, flagVars, lock,
                   countVars, outVars>>

\* Without a thread EndFlush throws the batch away itself.
EndFlushFree ==
    /\ apc = "wait" /\ ~mode.queued /\ lock = Free
    /\ m_List' = FreeSamples.list /\ m_ppSamples' = FreeSamples.batch /\ apc' = "clear"
    /\ UNCHANGED <<mode, streamVars, threadVars, signalVars, flagVars, lock, countVars, outVars>>

\* The rest of EndFlush is outside the critical section.
EndFlushClear ==
    /\ apc = "clear" /\ m_bFlushing' = FALSE /\ m_bFlushed' = TRUE /\ apc' = "sendEnd"
    /\ UNCHANGED <<mode, streamVars, threadVars, queueVars, signalVars, m_hr, m_bTerminate, lock,
                   countVars, outVars>>

EndFlushDownstream ==
    /\ apc = "sendEnd" /\ downFlushing' = FALSE /\ apc' = "sendOk"
    /\ UNCHANGED <<mode, streamVars, threadVars, queueVars, signalVars, flagVars, lock, countVars, last>>

EndFlushDone ==
    /\ apc = "sendOk" /\ m_hr' = "S_OK" /\ apc' = "idle" /\ flushes' = flushes + 1
    /\ UNCHANGED <<mode, streamVars, threadVars, queueVars, signalVars, m_bFlushing, m_bFlushed,
                   m_bTerminate, lock, issued, outVars>>

\* The destructor: end the thread, or release the batch.
Destroy ==
    /\ apc = "idle" /\ spc = "idle" /\ lock = Free
    /\ IF mode.queued
         THEN /\ m_bTerminate' = TRUE /\ m_hr' = "S_FALSE" /\ NotifyThread /\ apc' = "join"
              /\ UNCHANGED queueVars
         ELSE /\ m_List' = FreeSamples.list /\ m_ppSamples' = FreeSamples.batch
              /\ apc' = "destroyed"
              /\ UNCHANGED <<m_bTerminate, m_hr, m_lWaiting, m_hSem>>
    /\ UNCHANGED <<mode, streamVars, threadVars, m_evFlushComplete, m_bFlushing, m_bFlushed, lock,
                   countVars, outVars>>

DestroyJoined ==
    /\ apc = "join" /\ qpc = "exit" /\ apc' = "destroyed"
    /\ UNCHANGED <<mode, streamVars, threadVars, queueVars, signalVars, flagVars, lock, countVars, outVars>>
-----------------------------------------------------------------------------
\* The queue is gone and nothing more happens.
Destroyed == apc = "destroyed" /\ UNCHANGED vars

StreamCall ==
    \/ \E k \in 1 .. MaxAtOnce : ReceiveQueued(k) \/ ReceiveDirect(k)
    \/ EOSQueued \/ EOSDirect \/ SendAnywayQueued \/ SendAnywayDirect
    \/ NewSegmentQueued \/ NewSegmentDirect \/ ResetQueued \/ ResetDirect

StreamStep == \/ NewSegmentEnqueue \/ ResetWait \/ NewSegmentLock \/ DirectLoop \/ DirectEos
              \/ DirectSegment

ThreadStep == \/ ThreadEnter \/ ThreadTerminates \/ ThreadLoop \/ ThreadWakes \/ ThreadSend
              \/ ThreadResult \/ ThreadNext \/ ThreadEos \/ ThreadEosSent \/ ThreadSegment
              \/ ThreadReset \/ ThreadResetDone

DownstreamReturns ==
    \E res \in Results : \E k \in 0 .. MaxAtOnce + mode.size :
        DirectReturns(k, res) \/ ThreadReturns(k, res)

ControlCall == BeginFlush \/ EndFlush \/ Destroy

ControlStep == \/ BeginFlushLocked \/ BeginFlushDownstream \/ EndFlushWait \/ EndFlushFree
               \/ EndFlushClear \/ EndFlushDownstream \/ EndFlushDone \/ DestroyJoined

Next == \/ StreamCall \/ StreamStep \/ ThreadStep \/ DownstreamReturns
        \/ ControlCall \/ ControlStep \/ Destroyed

\* The threads run, and one that waits for the critical section gets it in the
\* end; the downstream pin need not return while it is not flushing.
Fairness == /\ WF_vars(StreamStep) /\ SF_vars(ThreadStep) /\ SF_vars(ControlStep)
            /\ WF_vars(downFlushing /\ DownstreamReturns)

Spec == Init /\ [][Next]_vars /\ Fairness
-----------------------------------------------------------------------------
\* The types of the variables, and what the shape of the code gives: the lock is
\* held only in the loops, and one waiting thread at most is counted.
TypeOK ==
    /\ mode \in Modes
    /\ m_List \in Seq(Items \cup {Send, ResetMsg}) /\ m_ppSamples \in Seq(Items)
    /\ m_lWaiting \in 0 .. 1 /\ m_hSem \in 0 .. 1 /\ m_evFlushComplete \in BOOLEAN
    /\ m_hr \in Results /\ hr \in Results
    /\ {m_bFlushing, m_bFlushed, m_bTerminate, downFlushing} \subseteq BOOLEAN
    /\ (lock = "thread") = (qpc = "loop")
    /\ (lock = "stream") = (spc \in {"loop", "deliver", "eos"})
    /\ Len(m_ppSamples) <= mode.size /\ Len(sending) <= mode.size

\* The optimisation of m_lWaiting loses no signal: a thread that sleeps with no
\* signal on its way has asked for one, and what is on the list is less than the
\* exact batch it waits for; if the queue flushes or ends, it has seen it.
NoLostSignal ==
    qpc = "wait" /\ m_hSem = 0 =>
        /\ m_lWaiting = 1 /\ ~m_bTerminate
        /\ m_List # <<>> => /\ mode.exact
                            /\ \A i \in DOMAIN m_List : IsData(m_List[i])
                            /\ Len(m_ppSamples) + Len(m_List) < mode.size
        /\ apc = "wait" => m_evFlushComplete

\* The assertions around ReceiveMultiple in ThreadProc: the flag that lets a
\* flush stay away from the downstream pin is not set while the pin has samples.
NotFlushedWhileSending ==
    qpc \in {"deliver", "result"} \/ spc = "deliver" => ~m_bFlushed

\* From BeginFlush until m_bFlushing is reset the queue accepts nothing.
RefusesWhileFlushing == m_bFlushing => m_hr # "S_OK"

\* Nobody works against a flush: the downstream pin is flushed if it has samples,
\* and no result of a delivery opens the queue again.
FlushIsSeen == NotFlushedWhileSending /\ RefusesWhileFlushing

\* A flush ends: neither BeginFlush nor EndFlush waits for ever, although the
\* downstream pin may keep a sample until it is told to flush.
FlushEnds ==
    apc \in {"lockBegin", "sendBegin", "wait", "clear", "sendEnd", "sendOk"}
        ~> apc \in {"idle", "flushing"}

\* What of a list goes downstream, without the packets that only tell the thread
\* what to do: as SelectSeq, in a form the proofs can expand.
Sift(list) ==
    LET first[i \in 0 .. Len(list)] ==
            IF i = 0 THEN <<>>
            ELSE IF list[i] \in Items THEN Append(first[i - 1], list[i]) ELSE first[i - 1]
    IN first[Len(list)]

\* What is on its way: with the thread, in the queue, with the streaming thread.
WithThread == sending \o Sift(<<special>>)
InQueue    == m_ppSamples \o Sift(m_List)
InPipe     == WithThread \o InQueue \o args

\* The downstream pin has taken everything so far, and would take more.
IsSound ==
    /\ apc # "destroyed" /\ ~downFlushing
    /\ (m_hr = "S_OK" /\ ~m_bTerminate) \/ qpc \in {"deliver", "inEos"}

\* The queue delivers in order, without a gap, and nothing from before a flush.
Pipe == INSTANCE OrderedPipe WITH pipe <- InPipe, sound <- IsSound, epoch <- flushes

ImplementsPipe == Pipe!Spec

\* What the assertion of ReceiveMultiple says of a direct call: between two calls
\* samples remain in the batch only if batches are exact.
BatchEmptyUnlessExact ==
    ~mode.queued /\ spc = "idle" => m_ppSamples = <<>> \/ mode.exact

\* IsIdle and what its comment and its assertion say.
IsIdle == ~((mode.queued /\ m_lWaiting = 0) \/ m_ppSamples # <<>>)

IdleMeansEmpty == lock = Free /\ IsIdle /\ mode.queued => m_List = <<>>
=============================================================================
