-------------------------- MODULE OutputQueueProofs --------------------------
(***************************************************************************)
(* Theorems about OutputQueue, for every mode, length and number of        *)
(* samples and flushes, if Reset is not called once a flush has begun: a   *)
(* flush meets no sample, no signal is lost, the variables have their      *)
(* types, and the queue implements OrderedPipe.                            *)
(*                                                                         *)
(* Inv says how calls, flush, event and signals go together; Flow, what    *)
(* the queue has in hand and where; the lemmas about Sift, Cat and the     *)
(* pieces of InPipe bring each step down to a step of OrderedPipe.         *)
(***************************************************************************)
EXTENDS OutputQueue, SequenceTheorems, FiniteSetTheorems, WellFoundedInduction, TLAPS

Packets == [kind : {"sample", "segment", "eos", "send", "reset"}, n : Nat]

\* No packet of the kind is in the sequence; at most one Reset is.
No(kind, s) == \A i \in 1 .. Len(s) : s[i].kind # kind
OneReset(s) == \A i, j \in 1 .. Len(s) : s[i].kind = "reset" /\ s[j].kind = "reset" => i = j

LEMMA EmptyHasNone == (\A kind : No(kind, <<>>)) /\ OneReset(<<>>)
  BY DEF No, OneReset

LEMMA NoneAppended ==
    ASSUME NEW kind, NEW s \in Seq(Packets), NEW e \in Packets, No(kind, s), e.kind # kind
    PROVE  No(kind, Append(s, e))
  BY AppendProperties DEF No

LEMMA OneAppended ==
    ASSUME NEW s \in Seq(Packets), NEW e \in Packets, No("reset", s)
    PROVE  OneReset(Append(s, e))
  BY AppendProperties DEF No, OneReset

LEMMA HeadAndTail ==
    ASSUME NEW s \in Seq(Packets), s # <<>>
    PROVE  /\ Head(s) \in Packets /\ Tail(s) \in Seq(Packets)
           /\ \A kind : No(kind, s) => No(kind, Tail(s)) /\ Head(s).kind # kind
           /\ OneReset(s) => OneReset(Tail(s)) /\ (Head(s).kind = "reset" => No("reset", Tail(s)))
<1>1. Head(s) = s[1] /\ Len(s) >= 1
  BY EmptySeq
<1> QED
  BY <1>1, HeadTailProperties DEF No, OneReset

LEMMA NoneInBoth ==
    ASSUME NEW kind, NEW s \in Seq(Packets), NEW t \in Seq(Packets), No(kind, s), No(kind, t)
    PROVE  No(kind, s \o t)
  BY ConcatProperties DEF No

LEMMA NoneIsOne == ASSUME NEW s, No("reset", s) PROVE OneReset(s)
  BY DEF No, OneReset

LEMMA NewItems ==
    ASSUME NEW kind \in {"sample", "segment", "eos"}, NEW k \in Nat, issued \in Nat
    PROVE  /\ New(kind, k) \in Seq(Packets) /\ Len(New(kind, k)) = k
           /\ \A i \in 1 .. k : New(kind, k)[i].kind = kind
           /\ \A other : other # kind => No(other, New(kind, k))
<1>1. New(kind, k) \in [1 .. k -> Packets]
  BY DEF New, Packets
<1>2. New(kind, k) \in Seq(Packets) /\ Len(New(kind, k)) = k
  BY <1>1
<1> QED
  BY <1>2 DEF New, No

LEMMA CountsAll ==
    ASSUME NEW s \in Seq(Packets)
    PROVE  GetCount(s) \in Nat /\ GetCount(s) >= Len(s)
<1>1. IsFiniteSet({i \in DOMAIN s : s[i].kind = "segment"})
  <2>1. IsFiniteSet(1 .. Len(s))
    BY FS_Interval
  <2> QED
    BY <2>1, FS_Subset
<1>2. Cardinality({i \in DOMAIN s : s[i].kind = "segment"}) \in Nat
  BY <1>1, FS_CardinalityType
<1> QED
  BY <1>2 DEF GetCount

LEMMA PacketKinds ==
    /\ Send \in Packets /\ ResetMsg \in Packets /\ NoPacket \notin Packets
    /\ Send.kind = "send" /\ ResetMsg.kind = "reset" /\ NoPacket.kind = "none"
  BY DEF Send, ResetMsg, NoPacket, Packets
-----------------------------------------------------------------------------
(* The invariant. *)

Types ==
    /\ mode \in Mode /\ issued \in Nat /\ flushes \in Nat
    /\ m_List \in Seq(Packets) /\ m_ppSamples \in Seq(Packets) /\ sending \in Seq(Packets)
    /\ args \in Seq(Packets) /\ special \in Packets \cup {NoPacket}
    /\ mode.queued /\ spc = "segment" => \A kind \in {"sample", "eos", "reset"} : No(kind, args)

\* Who may be where: the control thread flushes only between the calls that
\* EndFlush waits for, and only it says so.
Control ==
    /\ m_bFlushing => apc \in {"sendBegin", "flushing", "wait", "clear"} /\ m_hr # "S_OK"
    /\ apc \in {"flushing", "wait", "clear"} => m_bFlushing
    /\ spc # "idle" => apc \in {"idle", "sendBegin", "lockBegin", "flushing"}
    /\ lock = "stream" <=> spc \in {"loop", "deliver", "eos"}
    /\ lock = "thread" <=> qpc = "loop"
    /\ spc \in {"loop", "deliver", "eos"} => ~m_bFlushed
    /\ spc \in {"loop", "deliver", "eos", "lockSegment"} => ~mode.queued
    /\ spc = "deliver" => ~m_bFlushing
    /\ qpc = "none" <=> ~mode.queued
    /\ spc = "reset" => mode.queued /\ apc = "idle" /\ flushes = 0

\* No sample and no end of stream is in the queue or with its thread.
Drained ==
    /\ No("sample", m_List) /\ No("eos", m_List) /\ m_ppSamples = <<>>
    /\ special.kind # "eos"
    /\ qpc \notin {"deliver", "result"} /\ (qpc = "send" => sending = <<>>)

Drain ==
    mode.queued /\ (m_bFlushed \/ apc = "clear" \/ (m_bFlushing /\ m_evFlushComplete)) => Drained

\* The event that EndFlush waits for is not the one that a Reset has been done.
Resets ==
    /\ apc = "idle" /\ flushes = 0 /\ spc # "reset" => ~m_evFlushComplete
    /\ special.kind = "reset" \/ ~No("reset", m_List) => spc = "reset" /\ ~m_evFlushComplete
    /\ special.kind = "reset" => No("reset", m_List)
    /\ OneReset(m_List)
    /\ qpc \in {"top", "loop", "wait"} => special = NoPacket
    /\ qpc = "inReset" => special.kind = "reset"

\* The thread waits and no signal is on its way.
Asleep == qpc = "wait" /\ m_hSem = 0

Signals ==
    /\ m_lWaiting \in 0 .. 1 /\ m_hSem \in 0 .. 1 /\ m_lWaiting + m_hSem <= 1
    /\ qpc # "wait" => m_lWaiting = 0 /\ m_hSem = 0
    /\ qpc = "wait" => m_lWaiting + m_hSem = 1

Waits ==
    /\ Asleep => ~m_bTerminate
    /\ Asleep /\ m_bFlushing /\ apc # "clear" /\ ~(m_bFlushed /\ mode.opt) => m_evFlushComplete
    /\ apc = "wait" /\ mode.queued => ~(m_bFlushed /\ mode.opt)

\* What is on the list is less than the thread waits for.
Short ==
    Asleep /\ m_List # <<>> =>
        /\ mode.exact /\ \A i \in 1 .. Len(m_List) : IsData(m_List[i])
        /\ Len(m_ppSamples) + Len(m_List) < mode.size

Inv == Types /\ Control /\ Drain /\ Resets /\ Signals /\ Waits /\ Short
-----------------------------------------------------------------------------

LEMMA InitInv == Init => Inv
<1> SUFFICES ASSUME Init PROVE Inv
  OBVIOUS
<1>1. mode \in Mode
  BY OutputQueueAssumption DEF Init
<1>2. Types
  BY <1>1, PacketKinds DEF Init, Types
<1>3. Control
  BY DEF Init, Control, Free
<1>4. Drained
  BY EmptyHasNone, PacketKinds DEF Init, Drained
<1>5. Resets
  BY EmptyHasNone, PacketKinds DEF Init, Resets
<1>6. Signals /\ Waits /\ Short
  BY DEF Init, Signals, Waits, Short, Asleep
<1> QED
  BY <1>2, <1>3, <1>4, <1>5, <1>6 DEF Inv, Drain

LEMMA StepControl ==
    ASSUME ~ResetAndFlush, Inv, [Next]_vars
    PROVE  Control'
<1> USE DEF Inv, Control, Types, Mode, Free
<1>1. CASE \E k \in 1 .. MaxAtOnce : ReceiveQueued(k)
  BY <1>1 DEF ReceiveQueued, FlushedNoMore, MayCall, NotifyThread, streamVars, threadVars, outVars
<1>2. CASE \E k \in 1 .. MaxAtOnce : ReceiveDirect(k)
  BY <1>2 DEF ReceiveDirect, DirectCall, FlushedNoMore, MayCall, threadVars, queueVars,
     signalVars, outVars
<1>3. CASE EOSQueued
  BY <1>3 DEF EOSQueued, FlushedNoMore, Enqueue, MayCall, NotifyThread, streamVars, threadVars,
     outVars
<1>4. CASE EOSDirect
  BY <1>4 DEF EOSDirect, DirectCall, FlushedNoMore, MayCall, threadVars, queueVars, signalVars,
     outVars
<1>5. CASE SendAnywayQueued
  BY <1>5 DEF SendAnywayQueued, Enqueue, MayCall, NotifyThread, streamVars, threadVars,
     flagVars, countVars, outVars
<1>6. CASE SendAnywayDirect
  BY <1>6 DEF SendAnywayDirect, DirectCall, FlushedNoMore, MayCall, threadVars, queueVars,
     signalVars, outVars
<1>7. CASE NewSegmentQueued
  BY <1>7 DEF NewSegmentQueued, MayCall, threadVars, queueVars, signalVars, flagVars, outVars
<1>8. CASE NewSegmentDirect
  BY <1>8 DEF NewSegmentDirect, MayCall, threadVars, queueVars, signalVars, flagVars, outVars
<1>9. CASE ResetQueued
  BY <1>9 DEF ResetQueued, Enqueue, MayCall, NotifyThread, MayReset, threadVars, flagVars,
     countVars, outVars
<1>10. CASE ResetDirect
  BY <1>10 DEF ResetDirect, MayCall, MayReset, streamVars, threadVars, queueVars, signalVars,
     countVars, outVars
<1>11. CASE NewSegmentEnqueue
  BY <1>11 DEF NewSegmentEnqueue, StreamIdle, NotifyThread, threadVars, flagVars, countVars,
     outVars
<1>12. CASE ResetWait
  BY <1>12 DEF ResetWait, StreamIdle, threadVars, queueVars, flagVars, countVars, outVars
<1>13. CASE NewSegmentLock
  BY <1>13 DEF NewSegmentLock, FlushedNoMore, threadVars, queueVars, signalVars, countVars,
     outVars
<1>14. CASE DirectLoop
  BY <1>14 DEF DirectLoop, LoopEnds, StreamIdle, threadVars, signalVars, flagVars, countVars,
     outVars
<1>15. CASE DirectEos
  BY <1>15 DEF DirectEos, StreamIdle, threadVars, queueVars, signalVars, flagVars, countVars
<1>16. CASE DirectSegment
  BY <1>16 DEF DirectSegment, StreamIdle, threadVars, queueVars, signalVars, flagVars, countVars
<1>17. CASE ThreadEnter
  BY <1>17 DEF ThreadEnter, streamVars, queueVars, signalVars, flagVars, countVars, outVars
<1>18. CASE ThreadTerminates
  BY <1>18 DEF ThreadTerminates, FreeSamples, streamVars, signalVars, flagVars, countVars, outVars
<1>19. CASE ThreadLoop
  BY <1>19 DEF ThreadLoop, FreeSamples, TakeBatch, IsData, streamVars, flagVars, countVars,
     outVars
<1>20. CASE ThreadWakes
  BY <1>20 DEF ThreadWakes, streamVars, queueVars, flagVars, countVars, outVars
<1>21. CASE ThreadSend
  BY <1>21 DEF ThreadSend, streamVars, queueVars, signalVars, flagVars, countVars, outVars
<1>22. CASE ThreadResult
  BY <1>22 DEF ThreadResult, StickyResult, streamVars, queueVars, signalVars, countVars, outVars
<1>23. CASE ThreadNext
  BY <1>23 DEF ThreadNext, ThreadTop, streamVars, queueVars, signalVars, flagVars, countVars,
     outVars
<1>24. CASE ThreadEos
  BY <1>24 DEF ThreadEos, ThreadTop, streamVars, queueVars, signalVars, flagVars, countVars,
     outVars
<1>25. CASE ThreadEosSent
  BY <1>25 DEF ThreadEosSent, ThreadTop, streamVars, queueVars, signalVars, flagVars, countVars
<1>26. CASE ThreadSegment
  BY <1>26 DEF ThreadSegment, ThreadTop, streamVars, queueVars, signalVars, flagVars, countVars
<1>27. CASE ThreadReset
  BY <1>27 DEF ThreadReset, Resets, streamVars, queueVars, signalVars, countVars, outVars
<1>28. CASE ThreadResetDone
  BY <1>28 DEF ThreadResetDone, ThreadTop, streamVars, queueVars, flagVars, countVars, outVars
<1>29. CASE \E res \in Results : \E k \in 0 .. MaxAtOnce + mode.size : DirectReturns(k, res)
  BY <1>29 DEF DirectReturns, threadVars, signalVars, countVars
<1>30. CASE \E res \in Results : \E k \in 0 .. MaxAtOnce + mode.size : ThreadReturns(k, res)
  BY <1>30 DEF ThreadReturns, streamVars, queueVars, signalVars, flagVars, countVars
<1>31. CASE BeginFlush
  BY <1>31 DEF BeginFlush, FirstOfBeginFlush, streamVars, threadVars, queueVars, signalVars,
     flagVars, countVars, outVars
<1>32. CASE EndFlush
  BY <1>32 DEF EndFlush, streamVars, threadVars, queueVars, signalVars, outVars
<1>33. CASE Destroy
  BY <1>33 DEF Destroy, FreeSamples, NotifyThread, streamVars, threadVars, queueVars,
     countVars, outVars
<1>34. CASE BeginFlushLocked
  BY <1>34 DEF BeginFlushLocked, ResetEvent, NotifyThread, streamVars, threadVars, queueVars,
     signalVars, countVars, outVars
<1>35. CASE BeginFlushDownstream
  BY <1>35 DEF BeginFlushDownstream, streamVars, threadVars, queueVars, signalVars, flagVars,
     countVars
<1>36. CASE EndFlushWait
  BY <1>36 DEF EndFlushWait, streamVars, threadVars, queueVars, flagVars, countVars, outVars
<1>37. CASE EndFlushFree
  BY <1>37 DEF EndFlushFree, FreeSamples, streamVars, threadVars, signalVars, flagVars,
     countVars, outVars
<1>38. CASE EndFlushClear
  BY <1>38 DEF EndFlushClear, streamVars, threadVars, queueVars, signalVars, countVars, outVars
<1>39. CASE EndFlushDownstream
  BY <1>39 DEF EndFlushDownstream, streamVars, threadVars, queueVars, signalVars, flagVars,
     countVars
<1>40. CASE EndFlushDone
  BY <1>40 DEF EndFlushDone, streamVars, threadVars, queueVars, signalVars, outVars
<1>41. CASE DestroyJoined
  BY <1>41 DEF DestroyJoined, streamVars, threadVars, queueVars, signalVars, flagVars,
     countVars, outVars
<1>42. CASE UNCHANGED vars
  BY <1>42 DEF vars, streamVars, threadVars, queueVars, signalVars, flagVars, countVars, outVars
<1> QED
  BY <1>1, <1>2, <1>3, <1>4, <1>5, <1>6, <1>7, <1>8, <1>9, <1>10, <1>11, <1>12, <1>13, <1>14,
     <1>15, <1>16, <1>17, <1>18, <1>19, <1>20, <1>21, <1>22, <1>23, <1>24, <1>25, <1>26, <1>27,
        <1>28, <1>29, <1>30, <1>31, <1>32, <1>33, <1>34, <1>35, <1>36, <1>37, <1>38, <1>39,
           <1>40, <1>41, <1>42
     DEF Next, StreamCall, StreamStep, ThreadStep, DownstreamReturns, ControlCall, ControlStep,
        Destroyed

LEMMA StepSignals ==
    ASSUME ~ResetAndFlush, Inv, [Next]_vars
    PROVE  Signals'
<1> USE DEF Inv, Signals
<1>1. CASE \E k \in 1 .. MaxAtOnce : ReceiveQueued(k)
  BY <1>1 DEF ReceiveQueued, FlushedNoMore, MayCall, NotifyThread, streamVars, threadVars, outVars
<1>2. CASE \E k \in 1 .. MaxAtOnce : ReceiveDirect(k)
  BY <1>2 DEF ReceiveDirect, DirectCall, FlushedNoMore, MayCall, threadVars, queueVars,
     signalVars, outVars
<1>3. CASE EOSQueued
  BY <1>3 DEF EOSQueued, FlushedNoMore, Enqueue, MayCall, NotifyThread, streamVars, threadVars,
     outVars
<1>4. CASE EOSDirect
  BY <1>4 DEF EOSDirect, DirectCall, FlushedNoMore, MayCall, threadVars, queueVars, signalVars,
     outVars
<1>5. CASE SendAnywayQueued
  BY <1>5 DEF SendAnywayQueued, Enqueue, MayCall, NotifyThread, streamVars, threadVars,
     flagVars, countVars, outVars
<1>6. CASE SendAnywayDirect
  BY <1>6 DEF SendAnywayDirect, DirectCall, FlushedNoMore, MayCall, threadVars, queueVars,
     signalVars, outVars
<1>7. CASE NewSegmentQueued
  BY <1>7 DEF NewSegmentQueued, MayCall, threadVars, queueVars, signalVars, flagVars, outVars
<1>8. CASE NewSegmentDirect
  BY <1>8 DEF NewSegmentDirect, MayCall, threadVars, queueVars, signalVars, flagVars, outVars
<1>9. CASE ResetQueued
  BY <1>9 DEF ResetQueued, Enqueue, MayCall, NotifyThread, MayReset, threadVars, flagVars,
     countVars, outVars
<1>10. CASE ResetDirect
  BY <1>10 DEF ResetDirect, MayCall, MayReset, streamVars, threadVars, queueVars, signalVars,
     countVars, outVars
<1>11. CASE NewSegmentEnqueue
  BY <1>11 DEF NewSegmentEnqueue, StreamIdle, NotifyThread, threadVars, flagVars, countVars,
     outVars
<1>12. CASE ResetWait
  BY <1>12 DEF ResetWait, StreamIdle, threadVars, queueVars, flagVars, countVars, outVars
<1>13. CASE NewSegmentLock
  BY <1>13 DEF NewSegmentLock, FlushedNoMore, threadVars, queueVars, signalVars, countVars,
     outVars
<1>14. CASE DirectLoop
  BY <1>14 DEF DirectLoop, LoopEnds, StreamIdle, threadVars, signalVars, flagVars, countVars,
     outVars
<1>15. CASE DirectEos
  BY <1>15 DEF DirectEos, StreamIdle, threadVars, queueVars, signalVars, flagVars, countVars
<1>16. CASE DirectSegment
  BY <1>16 DEF DirectSegment, StreamIdle, threadVars, queueVars, signalVars, flagVars, countVars
<1>17. CASE ThreadEnter
  BY <1>17 DEF ThreadEnter, streamVars, queueVars, signalVars, flagVars, countVars, outVars
<1>18. CASE ThreadTerminates
  BY <1>18 DEF ThreadTerminates, FreeSamples, streamVars, signalVars, flagVars, countVars, outVars
<1>19. CASE ThreadLoop
  BY <1>19 DEF ThreadLoop, FreeSamples, TakeBatch, IsData, streamVars, flagVars, countVars,
     outVars
<1>20. CASE ThreadWakes
  BY <1>20 DEF ThreadWakes, streamVars, queueVars, flagVars, countVars, outVars
<1>21. CASE ThreadSend
  BY <1>21 DEF ThreadSend, streamVars, queueVars, signalVars, flagVars, countVars, outVars
<1>22. CASE ThreadResult
  BY <1>22 DEF ThreadResult, StickyResult, streamVars, queueVars, signalVars, countVars, outVars
<1>23. CASE ThreadNext
  BY <1>23 DEF ThreadNext, ThreadTop, streamVars, queueVars, signalVars, flagVars, countVars,
     outVars
<1>24. CASE ThreadEos
  BY <1>24 DEF ThreadEos, ThreadTop, streamVars, queueVars, signalVars, flagVars, countVars,
     outVars
<1>25. CASE ThreadEosSent
  BY <1>25 DEF ThreadEosSent, ThreadTop, streamVars, queueVars, signalVars, flagVars, countVars
<1>26. CASE ThreadSegment
  BY <1>26 DEF ThreadSegment, ThreadTop, streamVars, queueVars, signalVars, flagVars, countVars
<1>27. CASE ThreadReset
  BY <1>27 DEF ThreadReset, streamVars, queueVars, signalVars, countVars, outVars
<1>28. CASE ThreadResetDone
  BY <1>28 DEF ThreadResetDone, ThreadTop, streamVars, queueVars, flagVars, countVars, outVars
<1>29. CASE \E res \in Results : \E k \in 0 .. MaxAtOnce + mode.size : DirectReturns(k, res)
  BY <1>29 DEF DirectReturns, threadVars, signalVars, countVars
<1>30. CASE \E res \in Results : \E k \in 0 .. MaxAtOnce + mode.size : ThreadReturns(k, res)
  BY <1>30 DEF ThreadReturns, streamVars, queueVars, signalVars, flagVars, countVars
<1>31. CASE BeginFlush
  BY <1>31 DEF BeginFlush, FirstOfBeginFlush, streamVars, threadVars, queueVars, signalVars,
     flagVars, countVars, outVars
<1>32. CASE EndFlush
  BY <1>32 DEF EndFlush, streamVars, threadVars, queueVars, signalVars, outVars
<1>33. CASE Destroy
  BY <1>33 DEF Destroy, FreeSamples, NotifyThread, streamVars, threadVars, queueVars,
     countVars, outVars
<1>34. CASE BeginFlushLocked
  BY <1>34 DEF BeginFlushLocked, ResetEvent, NotifyThread, streamVars, threadVars, queueVars,
     signalVars, countVars, outVars
<1>35. CASE BeginFlushDownstream
  BY <1>35 DEF BeginFlushDownstream, streamVars, threadVars, queueVars, signalVars, flagVars,
     countVars
<1>36. CASE EndFlushWait
  BY <1>36 DEF EndFlushWait, streamVars, threadVars, queueVars, flagVars, countVars, outVars
<1>37. CASE EndFlushFree
  BY <1>37 DEF EndFlushFree, FreeSamples, streamVars, threadVars, signalVars, flagVars,
     countVars, outVars
<1>38. CASE EndFlushClear
  BY <1>38 DEF EndFlushClear, streamVars, threadVars, queueVars, signalVars, countVars, outVars
<1>39. CASE EndFlushDownstream
  BY <1>39 DEF EndFlushDownstream, streamVars, threadVars, queueVars, signalVars, flagVars,
     countVars
<1>40. CASE EndFlushDone
  BY <1>40 DEF EndFlushDone, streamVars, threadVars, queueVars, signalVars, outVars
<1>41. CASE DestroyJoined
  BY <1>41 DEF DestroyJoined, streamVars, threadVars, queueVars, signalVars, flagVars,
     countVars, outVars
<1>42. CASE UNCHANGED vars
  BY <1>42 DEF vars, streamVars, threadVars, queueVars, signalVars, flagVars, countVars, outVars
<1> QED
  BY <1>1, <1>2, <1>3, <1>4, <1>5, <1>6, <1>7, <1>8, <1>9, <1>10, <1>11, <1>12, <1>13, <1>14,
     <1>15, <1>16, <1>17, <1>18, <1>19, <1>20, <1>21, <1>22, <1>23, <1>24, <1>25, <1>26, <1>27,
        <1>28, <1>29, <1>30, <1>31, <1>32, <1>33, <1>34, <1>35, <1>36, <1>37, <1>38, <1>39,
           <1>40, <1>41, <1>42
     DEF Next, StreamCall, StreamStep, ThreadStep, DownstreamReturns, ControlCall, ControlStep,
        Destroyed

LEMMA StepWaits ==
    ASSUME ~ResetAndFlush, Inv, [Next]_vars
    PROVE  Waits'
<1> USE DEF Inv, Waits, Signals, Asleep, Control, Free, Types, Mode
<1>1. CASE \E k \in 1 .. MaxAtOnce : ReceiveQueued(k)
  BY <1>1 DEF ReceiveQueued, FlushedNoMore, MayCall, NotifyThread, streamVars, threadVars, outVars
<1>2. CASE \E k \in 1 .. MaxAtOnce : ReceiveDirect(k)
  BY <1>2 DEF ReceiveDirect, DirectCall, FlushedNoMore, MayCall, threadVars, queueVars,
     signalVars, outVars
<1>3. CASE EOSQueued
  BY <1>3 DEF EOSQueued, FlushedNoMore, Enqueue, MayCall, NotifyThread, streamVars, threadVars,
     outVars
<1>4. CASE EOSDirect
  BY <1>4 DEF EOSDirect, DirectCall, FlushedNoMore, MayCall, threadVars, queueVars, signalVars,
     outVars
<1>5. CASE SendAnywayQueued
  BY <1>5 DEF SendAnywayQueued, Enqueue, MayCall, NotifyThread, streamVars, threadVars,
     flagVars, countVars, outVars
<1>6. CASE SendAnywayDirect
  BY <1>6 DEF SendAnywayDirect, DirectCall, FlushedNoMore, MayCall, threadVars, queueVars,
     signalVars, outVars
<1>7. CASE NewSegmentQueued
  BY <1>7 DEF NewSegmentQueued, MayCall, threadVars, queueVars, signalVars, flagVars, outVars
<1>8. CASE NewSegmentDirect
  BY <1>8 DEF NewSegmentDirect, MayCall, threadVars, queueVars, signalVars, flagVars, outVars
<1>9. CASE ResetQueued
  BY <1>9 DEF ResetQueued, Enqueue, MayCall, NotifyThread, MayReset, threadVars, flagVars,
     countVars, outVars
<1>10. CASE ResetDirect
  BY <1>10 DEF ResetDirect, MayCall, MayReset, streamVars, threadVars, queueVars, signalVars,
     countVars, outVars
<1>11. CASE NewSegmentEnqueue
  BY <1>11 DEF NewSegmentEnqueue, StreamIdle, NotifyThread, threadVars, flagVars, countVars,
     outVars
<1>12. CASE ResetWait
  BY <1>12 DEF ResetWait, StreamIdle, threadVars, queueVars, flagVars, countVars, outVars
<1>13. CASE NewSegmentLock
  BY <1>13 DEF NewSegmentLock, FlushedNoMore, threadVars, queueVars, signalVars, countVars,
     outVars
<1>14. CASE DirectLoop
  BY <1>14 DEF DirectLoop, LoopEnds, StreamIdle, threadVars, signalVars, flagVars, countVars,
     outVars
<1>15. CASE DirectEos
  BY <1>15 DEF DirectEos, StreamIdle, threadVars, queueVars, signalVars, flagVars, countVars
<1>16. CASE DirectSegment
  BY <1>16 DEF DirectSegment, StreamIdle, threadVars, queueVars, signalVars, flagVars, countVars
<1>17. CASE ThreadEnter
  BY <1>17 DEF ThreadEnter, streamVars, queueVars, signalVars, flagVars, countVars, outVars
<1>18. CASE ThreadTerminates
  BY <1>18 DEF ThreadTerminates, FreeSamples, streamVars, signalVars, flagVars, countVars, outVars
<1>19. CASE ThreadLoop
  BY <1>19 DEF ThreadLoop, FreeSamples, TakeBatch, IsData, streamVars, flagVars, countVars,
     outVars
<1>20. CASE ThreadWakes
  BY <1>20 DEF ThreadWakes, streamVars, queueVars, flagVars, countVars, outVars
<1>21. CASE ThreadSend
  BY <1>21 DEF ThreadSend, streamVars, queueVars, signalVars, flagVars, countVars, outVars
<1>22. CASE ThreadResult
  BY <1>22 DEF ThreadResult, StickyResult, streamVars, queueVars, signalVars, countVars, outVars
<1>23. CASE ThreadNext
  BY <1>23 DEF ThreadNext, ThreadTop, streamVars, queueVars, signalVars, flagVars, countVars,
     outVars
<1>24. CASE ThreadEos
  BY <1>24 DEF ThreadEos, ThreadTop, streamVars, queueVars, signalVars, flagVars, countVars,
     outVars
<1>25. CASE ThreadEosSent
  BY <1>25 DEF ThreadEosSent, ThreadTop, streamVars, queueVars, signalVars, flagVars, countVars
<1>26. CASE ThreadSegment
  BY <1>26 DEF ThreadSegment, ThreadTop, streamVars, queueVars, signalVars, flagVars, countVars
<1>27. CASE ThreadReset
  BY <1>27 DEF ThreadReset, streamVars, queueVars, signalVars, countVars, outVars
<1>28. CASE ThreadResetDone
  BY <1>28 DEF ThreadResetDone, ThreadTop, streamVars, queueVars, flagVars, countVars, outVars
<1>29. CASE \E res \in Results : \E k \in 0 .. MaxAtOnce + mode.size : DirectReturns(k, res)
  BY <1>29 DEF DirectReturns, threadVars, signalVars, countVars
<1>30. CASE \E res \in Results : \E k \in 0 .. MaxAtOnce + mode.size : ThreadReturns(k, res)
  BY <1>30 DEF ThreadReturns, streamVars, queueVars, signalVars, flagVars, countVars
<1>31. CASE BeginFlush
  BY <1>31 DEF BeginFlush, FirstOfBeginFlush, streamVars, threadVars, queueVars, signalVars,
     flagVars, countVars, outVars
<1>32. CASE EndFlush
  BY <1>32 DEF EndFlush, streamVars, threadVars, queueVars, signalVars, outVars
<1>33. CASE Destroy
  BY <1>33 DEF Destroy, FreeSamples, NotifyThread, streamVars, threadVars, queueVars,
     countVars, outVars
<1>34. CASE BeginFlushLocked
  BY <1>34 DEF BeginFlushLocked, ResetEvent, NotifyThread, streamVars, threadVars, queueVars,
     signalVars, countVars, outVars
<1>35. CASE BeginFlushDownstream
  BY <1>35 DEF BeginFlushDownstream, streamVars, threadVars, queueVars, signalVars, flagVars,
     countVars
<1>36. CASE EndFlushWait
  BY <1>36 DEF EndFlushWait, streamVars, threadVars, queueVars, flagVars, countVars, outVars
<1>37. CASE EndFlushFree
  BY <1>37 DEF EndFlushFree, FreeSamples, streamVars, threadVars, signalVars, flagVars,
     countVars, outVars
<1>38. CASE EndFlushClear
  BY <1>38 DEF EndFlushClear, streamVars, threadVars, queueVars, signalVars, countVars, outVars
<1>39. CASE EndFlushDownstream
  BY <1>39 DEF EndFlushDownstream, streamVars, threadVars, queueVars, signalVars, flagVars,
     countVars
<1>40. CASE EndFlushDone
  BY <1>40 DEF EndFlushDone, streamVars, threadVars, queueVars, signalVars, outVars
<1>41. CASE DestroyJoined
  BY <1>41 DEF DestroyJoined, streamVars, threadVars, queueVars, signalVars, flagVars,
     countVars, outVars
<1>42. CASE UNCHANGED vars
  BY <1>42 DEF vars, streamVars, threadVars, queueVars, signalVars, flagVars, countVars, outVars
<1> QED
  BY <1>1, <1>2, <1>3, <1>4, <1>5, <1>6, <1>7, <1>8, <1>9, <1>10, <1>11, <1>12, <1>13, <1>14,
     <1>15, <1>16, <1>17, <1>18, <1>19, <1>20, <1>21, <1>22, <1>23, <1>24, <1>25, <1>26, <1>27,
        <1>28, <1>29, <1>30, <1>31, <1>32, <1>33, <1>34, <1>35, <1>36, <1>37, <1>38, <1>39,
           <1>40, <1>41, <1>42
     DEF Next, StreamCall, StreamStep, ThreadStep, DownstreamReturns, ControlCall, ControlStep,
        Destroyed

LEMMA StepTypes ==
    ASSUME ~ResetAndFlush, Inv, [Next]_vars
    PROVE  Types'
<1> USE DEF Inv, Types
<1>1. CASE \E k \in 1 .. MaxAtOnce : ReceiveQueued(k)
  <2>1. PICK k \in 1 .. MaxAtOnce : ReceiveQueued(k)
    BY <1>1
  <2>2. New("sample", k) \in Seq(Packets)
    <3>1. k \in Nat /\ issued \in Nat
      BY OutputQueueAssumption
    <3> QED BY <3>1, NewItems
  <2>3. m_List' = m_List \o New("sample", k) /\ issued' = issued + k
    BY <2>1 DEF ReceiveQueued
  <2>4. m_List' \in Seq(Packets)
    BY <2>2, <2>3, ConcatProperties
  <2> QED
    BY <2>1, <2>3, <2>4 DEF ReceiveQueued, streamVars, threadVars
<1>2. CASE \E k \in 1 .. MaxAtOnce : ReceiveDirect(k)
  BY <1>2, NewItems DEF ReceiveDirect, DirectCall, FlushedNoMore, MayCall, threadVars,
     queueVars, signalVars, outVars
<1>3. CASE EOSQueued
  BY <1>3, NewItems DEF EOSQueued, FlushedNoMore, Enqueue, MayCall, NotifyThread, streamVars,
     threadVars, outVars
<1>4. CASE EOSDirect
  <2>1. New("eos", 1) \in Seq(Packets) /\ Len(New("eos", 1)) = 1
    BY NewItems
  <2>2. issued' = issued + 1 /\ args' = New("eos", 1) /\ spc' = "loop"
    BY <1>4, <2>1 DEF EOSDirect, DirectCall
  <2> QED
    BY <1>4, <2>1, <2>2 DEF EOSDirect, DirectCall, threadVars, queueVars
<1>5. CASE SendAnywayQueued
  BY <1>5, PacketKinds, AppendProperties DEF SendAnywayQueued, Enqueue, MayCall, NotifyThread,
     streamVars, threadVars, flagVars, countVars, outVars
<1>6. CASE SendAnywayDirect
  BY <1>6 DEF SendAnywayDirect, DirectCall, FlushedNoMore, MayCall, threadVars, queueVars,
     signalVars, outVars
<1>7. CASE NewSegmentQueued
  BY <1>7, NewItems DEF NewSegmentQueued, MayCall, threadVars, queueVars, signalVars, flagVars,
     outVars
<1>8. CASE NewSegmentDirect
  BY <1>8, NewItems DEF NewSegmentDirect, MayCall, threadVars, queueVars, signalVars, flagVars,
     outVars
<1>9. CASE ResetQueued
  BY <1>9, PacketKinds, AppendProperties DEF ResetQueued, Enqueue, MayCall, NotifyThread,
     MayReset, threadVars, flagVars, countVars, outVars
<1>10. CASE ResetDirect
  BY <1>10 DEF ResetDirect, MayCall, MayReset, streamVars, threadVars, queueVars, signalVars,
     countVars, outVars
<1>11. CASE NewSegmentEnqueue
  BY <1>11 DEF NewSegmentEnqueue, StreamIdle, NotifyThread, threadVars, flagVars, countVars,
     outVars
<1>12. CASE ResetWait
  BY <1>12 DEF ResetWait, StreamIdle, threadVars, queueVars, flagVars, countVars, outVars
<1>13. CASE NewSegmentLock
  <2>1. ~mode.queued /\ UNCHANGED <<mode, m_List, m_ppSamples, sending, special, args, issued,
     flushes>>
    BY <1>13 DEF NewSegmentLock, Control, threadVars, queueVars, countVars
  <2> QED
    BY <2>1
<1>14. CASE DirectLoop
  <2>1. args' \in Seq(Packets) /\ m_ppSamples' \in Seq(Packets)
    <3>1. args # <<>> => Append(m_ppSamples,
       Head(args)) \in Seq(Packets) /\ Tail(args) \in Seq(Packets)
      BY HeadAndTail, AppendProperties
    <3>2. args' \in {args, <<>>} \/ (args # <<>> /\ args' = Tail(args))
      BY <1>14 DEF DirectLoop, LoopEnds, StreamIdle
    <3>3. \/ m_ppSamples' \in {m_ppSamples, <<>>}
          \/ args # <<>> /\ m_ppSamples' = Append(m_ppSamples, Head(args))
      BY <1>14 DEF DirectLoop, LoopEnds, StreamIdle
    <3> QED
      BY <3>1, <3>2, <3>3, EmptySeq
  <2>2. ~mode.queued /\ UNCHANGED <<mode, m_List, sending, special, issued, flushes>>
    BY <1>14 DEF DirectLoop, Control, threadVars, countVars
  <2> QED
    BY <2>1, <2>2
<1>15. CASE DirectEos
  BY <1>15 DEF DirectEos, StreamIdle, threadVars, queueVars, signalVars, flagVars, countVars
<1>16. CASE DirectSegment
  BY <1>16 DEF DirectSegment, StreamIdle, threadVars, queueVars, signalVars, flagVars, countVars
<1>17. CASE ThreadEnter
  BY <1>17 DEF ThreadEnter, streamVars, queueVars, signalVars, flagVars, countVars, outVars
<1>18. CASE ThreadTerminates
  BY <1>18 DEF ThreadTerminates, FreeSamples, streamVars, signalVars, flagVars, countVars, outVars
<1>19. CASE ThreadLoop
  <2> DEFINE q == IF m_bFlushing THEN FreeSamples ELSE [list |-> m_List, batch |-> m_ppSamples]
             first == IF q.list = <<>> THEN NoPacket ELSE Head(q.list)
             batch == IF IsData(first) THEN Append(q.batch, first) ELSE q.batch
  <2>1. q.list \in Seq(Packets) /\ q.batch \in Seq(Packets)
    BY DEF FreeSamples
  <2>2. first \in Packets \/ (first = NoPacket /\ ~IsData(first))
    BY <2>1, HeadAndTail, PacketKinds DEF IsData
  <2>3. batch \in Seq(Packets)
    BY <2>1, <2>2, AppendProperties
  <2>4. m_List' \in Seq(Packets)
    BY <1>19, <2>1, HeadAndTail, Zenon DEF ThreadLoop
  <2>5. m_ppSamples' \in Seq(Packets) /\ sending' \in Seq(Packets) /\ special' \in Packets \cup {NoPacket}
    <3>1. /\ m_ppSamples' = batch \/ m_ppSamples' = <<>>
          /\ sending' = batch \/ sending' = sending
          /\ special' = special \/ special' = NoPacket \/ special' = first
      BY <1>19, Zenon DEF ThreadLoop, TakeBatch
    <3> QED
      BY <2>2, <2>3, <3>1, PacketKinds, EmptySeq
  <2> QED
    BY <1>19, <2>4, <2>5 DEF ThreadLoop, streamVars, countVars
<1>20. CASE ThreadWakes
  BY <1>20 DEF ThreadWakes, streamVars, queueVars, flagVars, countVars, outVars
<1>21. CASE ThreadSend
  <2>1. sending' \in {sending, <<>>}
    BY <1>21 DEF ThreadSend
  <2>2. UNCHANGED <<mode, m_List, m_ppSamples, special, spc, args, issued, flushes>>
    BY <1>21 DEF ThreadSend, streamVars, queueVars, countVars
  <2> QED
    BY <2>1, <2>2, EmptySeq
<1>22. CASE ThreadResult
  BY <1>22 DEF ThreadResult, StickyResult, streamVars, queueVars, signalVars, countVars, outVars
<1>23. CASE ThreadNext
  BY <1>23, PacketKinds DEF ThreadNext, ThreadTop, streamVars, queueVars, signalVars, flagVars,
     countVars, outVars
<1>24. CASE ThreadEos
  BY <1>24, PacketKinds DEF ThreadEos, ThreadTop, streamVars, queueVars, signalVars, flagVars,
     countVars, outVars
<1>25. CASE ThreadEosSent
  BY <1>25, PacketKinds DEF ThreadEosSent, ThreadTop, streamVars, queueVars, signalVars,
     flagVars, countVars
<1>26. CASE ThreadSegment
  BY <1>26, PacketKinds DEF ThreadSegment, ThreadTop, streamVars, queueVars, signalVars,
     flagVars, countVars
<1>27. CASE ThreadReset
  BY <1>27, PacketKinds DEF ThreadReset, streamVars, queueVars, signalVars, countVars, outVars
<1>28. CASE ThreadResetDone
  BY <1>28, PacketKinds DEF ThreadResetDone, ThreadTop, streamVars, queueVars, flagVars,
     countVars, outVars
<1>29. CASE \E res \in Results : \E k \in 0 .. MaxAtOnce + mode.size : DirectReturns(k, res)
  BY <1>29 DEF DirectReturns, threadVars, signalVars, countVars
<1>30. CASE \E res \in Results : \E k \in 0 .. MaxAtOnce + mode.size : ThreadReturns(k, res)
  BY <1>30, SubSeqProperties DEF ThreadReturns, streamVars, queueVars, signalVars, flagVars,
     countVars
<1>31. CASE BeginFlush
  BY <1>31 DEF BeginFlush, FirstOfBeginFlush, streamVars, threadVars, queueVars, signalVars,
     flagVars, countVars, outVars
<1>32. CASE EndFlush
  BY <1>32 DEF EndFlush, streamVars, threadVars, queueVars, signalVars, outVars
<1>33. CASE Destroy
  <2>1. m_List' \in {m_List, <<>>} /\ m_ppSamples' \in {m_ppSamples, <<>>}
    BY <1>33 DEF Destroy, FreeSamples, queueVars
  <2>2. UNCHANGED <<mode, sending, special, spc, args, issued, flushes>>
    BY <1>33 DEF Destroy, streamVars, threadVars, countVars
  <2> QED
    BY <2>1, <2>2, EmptySeq
<1>34. CASE BeginFlushLocked
  BY <1>34 DEF BeginFlushLocked, ResetEvent, NotifyThread, streamVars, threadVars, queueVars,
     signalVars, countVars, outVars
<1>35. CASE BeginFlushDownstream
  BY <1>35 DEF BeginFlushDownstream, streamVars, threadVars, queueVars, signalVars, flagVars,
     countVars
<1>36. CASE EndFlushWait
  BY <1>36 DEF EndFlushWait, streamVars, threadVars, queueVars, flagVars, countVars, outVars
<1>37. CASE EndFlushFree
  BY <1>37 DEF EndFlushFree, FreeSamples, streamVars, threadVars, signalVars, flagVars,
     countVars, outVars
<1>38. CASE EndFlushClear
  BY <1>38 DEF EndFlushClear, streamVars, threadVars, queueVars, signalVars, countVars, outVars
<1>39. CASE EndFlushDownstream
  BY <1>39 DEF EndFlushDownstream, streamVars, threadVars, queueVars, signalVars, flagVars,
     countVars
<1>40. CASE EndFlushDone
  BY <1>40 DEF EndFlushDone, streamVars, threadVars, queueVars, signalVars, outVars
<1>41. CASE DestroyJoined
  BY <1>41 DEF DestroyJoined, streamVars, threadVars, queueVars, signalVars, flagVars,
     countVars, outVars
<1>42. CASE UNCHANGED vars
  BY <1>42 DEF vars, streamVars, threadVars, queueVars, signalVars, flagVars, countVars, outVars
<1> QED
  BY <1>1, <1>2, <1>3, <1>4, <1>5, <1>6, <1>7, <1>8, <1>9, <1>10, <1>11, <1>12, <1>13, <1>14,
     <1>15, <1>16, <1>17, <1>18, <1>19, <1>20, <1>21, <1>22, <1>23, <1>24, <1>25, <1>26, <1>27,
        <1>28, <1>29, <1>30, <1>31, <1>32, <1>33, <1>34, <1>35, <1>36, <1>37, <1>38, <1>39,
           <1>40, <1>41, <1>42
     DEF Next, StreamCall, StreamStep, ThreadStep, DownstreamReturns, ControlCall, ControlStep,
        Destroyed

LEMMA StepDrain ==
    ASSUME ~ResetAndFlush, Inv, [Next]_vars
    PROVE  Drain'
<1> USE DEF Inv, Drain, Drained, Control, Types, Mode
<1>1. CASE \E k \in 1 .. MaxAtOnce : ReceiveQueued(k)
  BY <1>1 DEF ReceiveQueued, FlushedNoMore, MayCall, NotifyThread, streamVars, threadVars, outVars
<1>2. CASE \E k \in 1 .. MaxAtOnce : ReceiveDirect(k)
  BY <1>2 DEF ReceiveDirect, DirectCall, FlushedNoMore, MayCall, threadVars, queueVars,
     signalVars, outVars
<1>3. CASE EOSQueued
  BY <1>3, PacketKinds, NoneAppended DEF EOSQueued, FlushedNoMore, Enqueue, MayCall,
     NotifyThread, streamVars, threadVars, outVars
<1>4. CASE EOSDirect
  BY <1>4 DEF EOSDirect, DirectCall, FlushedNoMore, MayCall, threadVars, queueVars, signalVars,
     outVars
<1>5. CASE SendAnywayQueued
  BY <1>5, PacketKinds, NoneAppended DEF SendAnywayQueued, Enqueue, MayCall, NotifyThread,
     streamVars, threadVars, flagVars, countVars, outVars
<1>6. CASE SendAnywayDirect
  BY <1>6 DEF SendAnywayDirect, DirectCall, FlushedNoMore, MayCall, threadVars, queueVars,
     signalVars, outVars
<1>7. CASE NewSegmentQueued
  BY <1>7 DEF NewSegmentQueued, MayCall, threadVars, queueVars, signalVars, flagVars, outVars
<1>8. CASE NewSegmentDirect
  BY <1>8 DEF NewSegmentDirect, MayCall, threadVars, queueVars, signalVars, flagVars, outVars
<1>9. CASE ResetQueued
  BY <1>9, PacketKinds, NoneAppended DEF ResetQueued, Enqueue, MayCall, NotifyThread, MayReset,
     threadVars, flagVars, countVars, outVars
<1>10. CASE ResetDirect
  BY <1>10 DEF ResetDirect, MayCall, MayReset, streamVars, threadVars, queueVars, signalVars,
     countVars, outVars
<1>11. CASE NewSegmentEnqueue
  BY <1>11, NoneInBoth DEF NewSegmentEnqueue, StreamIdle, NotifyThread, threadVars, flagVars,
     countVars, outVars
<1>12. CASE ResetWait
  BY <1>12 DEF ResetWait, StreamIdle, threadVars, queueVars, flagVars, countVars, outVars
<1>13. CASE NewSegmentLock
  BY <1>13 DEF NewSegmentLock, FlushedNoMore, threadVars, queueVars, signalVars, countVars,
     outVars
<1>14. CASE DirectLoop
  BY <1>14 DEF DirectLoop, LoopEnds, StreamIdle, threadVars, signalVars, flagVars, countVars,
     outVars
<1>15. CASE DirectEos
  BY <1>15 DEF DirectEos, StreamIdle, threadVars, queueVars, signalVars, flagVars, countVars
<1>16. CASE DirectSegment
  BY <1>16 DEF DirectSegment, StreamIdle, threadVars, queueVars, signalVars, flagVars, countVars
<1>17. CASE ThreadEnter
  BY <1>17 DEF ThreadEnter, streamVars, queueVars, signalVars, flagVars, countVars, outVars
<1>18. CASE ThreadTerminates
  BY <1>18, EmptyHasNone DEF ThreadTerminates, FreeSamples, streamVars, signalVars, flagVars,
     countVars, outVars
<1>19. CASE ThreadLoop
  <2>1. CASE m_bFlushing
    <3>1. /\ m_List' = <<>> /\ m_ppSamples' = <<>> /\ UNCHANGED special
          /\ qpc' = "wait"
      BY <1>19, <2>1, PacketKinds DEF ThreadLoop, FreeSamples, TakeBatch, IsData
    <3> QED BY <1>19, <3>1, PacketKinds, EmptyHasNone DEF ThreadLoop, Resets
  <2>2. CASE ~m_bFlushing
    <3>1. ASSUME Drained, m_List # <<>>
          PROVE  /\ Head(m_List) \in Packets /\ Head(m_List).kind \notin {"sample", "eos"}
                 /\ No("sample", Tail(m_List)) /\ No("eos", Tail(m_List))
      BY <3>1, HeadAndTail
    <3> QED BY <1>19, <2>2, <3>1, PacketKinds DEF ThreadLoop, TakeBatch, IsData,
               streamVars, flagVars, countVars, outVars
  <2> QED BY <2>1, <2>2
<1>20. CASE ThreadWakes
  BY <1>20 DEF ThreadWakes, streamVars, queueVars, flagVars, countVars, outVars
<1>21. CASE ThreadSend
  BY <1>21 DEF ThreadSend, streamVars, queueVars, signalVars, flagVars, countVars, outVars
<1>22. CASE ThreadResult
  BY <1>22 DEF ThreadResult, StickyResult, streamVars, queueVars, signalVars, countVars, outVars
<1>23. CASE ThreadNext
  BY <1>23, PacketKinds DEF ThreadNext, ThreadTop, streamVars, queueVars, signalVars, flagVars, countVars,
     outVars
<1>24. CASE ThreadEos
  BY <1>24 DEF ThreadEos, ThreadTop, streamVars, queueVars, signalVars, flagVars, countVars,
     outVars
<1>25. CASE ThreadEosSent
  BY <1>25, PacketKinds DEF ThreadEosSent, ThreadTop, streamVars, queueVars, signalVars, flagVars, countVars
<1>26. CASE ThreadSegment
  BY <1>26, PacketKinds DEF ThreadSegment, ThreadTop, streamVars, queueVars, signalVars, flagVars, countVars
<1>27. CASE ThreadReset
  BY <1>27 DEF ThreadReset, streamVars, queueVars, signalVars, countVars, outVars
<1>28. CASE ThreadResetDone
  BY <1>28, PacketKinds DEF Resets, ThreadResetDone, ThreadTop, streamVars, queueVars,
     flagVars, countVars, outVars
<1>29. CASE \E res \in Results : \E k \in 0 .. MaxAtOnce + mode.size : DirectReturns(k, res)
  BY <1>29 DEF DirectReturns, threadVars, signalVars, countVars
<1>30. CASE \E res \in Results : \E k \in 0 .. MaxAtOnce + mode.size : ThreadReturns(k, res)
  BY <1>30 DEF ThreadReturns, streamVars, queueVars, signalVars, flagVars, countVars
<1>31. CASE BeginFlush
  BY <1>31 DEF BeginFlush, FirstOfBeginFlush, streamVars, threadVars, queueVars, signalVars,
     flagVars, countVars, outVars
<1>32. CASE EndFlush
  BY <1>32 DEF EndFlush, streamVars, threadVars, queueVars, signalVars, outVars
<1>33. CASE Destroy
  BY <1>33 DEF Destroy, FreeSamples, NotifyThread, streamVars, threadVars, queueVars,
     countVars, outVars
<1>34. CASE BeginFlushLocked
  BY <1>34 DEF BeginFlushLocked, ResetEvent, NotifyThread, streamVars, threadVars, queueVars,
     signalVars, countVars, outVars
<1>35. CASE BeginFlushDownstream
  BY <1>35 DEF BeginFlushDownstream, streamVars, threadVars, queueVars, signalVars, flagVars,
     countVars
<1>36. CASE EndFlushWait
  BY <1>36 DEF EndFlushWait, streamVars, threadVars, queueVars, flagVars, countVars, outVars
<1>37. CASE EndFlushFree
  BY <1>37 DEF EndFlushFree, FreeSamples, streamVars, threadVars, signalVars, flagVars,
     countVars, outVars
<1>38. CASE EndFlushClear
  BY <1>38 DEF EndFlushClear, streamVars, threadVars, queueVars, signalVars, countVars, outVars
<1>39. CASE EndFlushDownstream
  BY <1>39 DEF EndFlushDownstream, streamVars, threadVars, queueVars, signalVars, flagVars,
     countVars
<1>40. CASE EndFlushDone
  BY <1>40 DEF EndFlushDone, streamVars, threadVars, queueVars, signalVars, outVars
<1>41. CASE DestroyJoined
  BY <1>41 DEF DestroyJoined, streamVars, threadVars, queueVars, signalVars, flagVars,
     countVars, outVars
<1>42. CASE UNCHANGED vars
  BY <1>42 DEF vars, streamVars, threadVars, queueVars, signalVars, flagVars, countVars, outVars
<1> QED
  BY <1>1, <1>2, <1>3, <1>4, <1>5, <1>6, <1>7, <1>8, <1>9, <1>10, <1>11, <1>12, <1>13, <1>14,
     <1>15, <1>16, <1>17, <1>18, <1>19, <1>20, <1>21, <1>22, <1>23, <1>24, <1>25, <1>26, <1>27,
        <1>28, <1>29, <1>30, <1>31, <1>32, <1>33, <1>34, <1>35, <1>36, <1>37, <1>38, <1>39,
           <1>40, <1>41, <1>42
     DEF Next, StreamCall, StreamStep, ThreadStep, DownstreamReturns, ControlCall, ControlStep,
        Destroyed

LEMMA StepResets ==
    ASSUME ~ResetAndFlush, Inv, [Next]_vars
    PROVE  Resets'
<1> USE DEF Inv, Resets, Control, Types, Mode
<1>1. CASE \E k \in 1 .. MaxAtOnce : ReceiveQueued(k)
  <2>1. PICK k \in 1 .. MaxAtOnce : ReceiveQueued(k)
    BY <1>1
  <2>2. No("reset", m_List) /\ special.kind # "reset"
    BY <2>1 DEF ReceiveQueued, MayCall
  <2>3. No("reset", m_List')
    BY <2>1, <2>2, NewItems, NoneInBoth DEF ReceiveQueued
  <2>4. UNCHANGED <<spc, apc, flushes, m_evFlushComplete, special, qpc>>
    BY <2>1 DEF ReceiveQueued, streamVars, threadVars
  <2> QED
    BY <2>2, <2>3, <2>4, NoneIsOne
<1>2. CASE \E k \in 1 .. MaxAtOnce : ReceiveDirect(k)
  BY <1>2 DEF ReceiveDirect, DirectCall, FlushedNoMore, MayCall, threadVars, queueVars,
     signalVars, outVars
<1>3. CASE EOSQueued
  <2>1. No("reset", m_List) /\ special.kind # "reset"
    BY <1>3 DEF EOSQueued, MayCall
  <2>2. m_List' = Append(m_List, New("eos", 1)[1])
    BY <1>3 DEF EOSQueued, Enqueue
  <2>3. New("eos", 1)[1] \in Packets /\ New("eos", 1)[1].kind = "eos"
    BY NewItems
  <2>4. No("reset", m_List')
    BY <2>1, <2>2, <2>3, NoneAppended
  <2>5. UNCHANGED <<spc, apc, flushes, m_evFlushComplete, special, qpc>>
    BY <1>3 DEF EOSQueued, streamVars, threadVars
  <2> QED
    BY <2>1, <2>4, <2>5, NoneIsOne
<1>4. CASE EOSDirect
  BY <1>4 DEF EOSDirect, DirectCall, FlushedNoMore, MayCall, threadVars, queueVars, signalVars,
     outVars
<1>5. CASE SendAnywayQueued
  BY <1>5, PacketKinds, NoneAppended, NoneIsOne DEF SendAnywayQueued, Enqueue, MayCall,
     NotifyThread, streamVars, threadVars, flagVars, countVars, outVars
<1>6. CASE SendAnywayDirect
  BY <1>6 DEF SendAnywayDirect, DirectCall, FlushedNoMore, MayCall, threadVars, queueVars,
     signalVars, outVars
<1>7. CASE NewSegmentQueued
  BY <1>7 DEF NewSegmentQueued, MayCall, threadVars, queueVars, signalVars, flagVars, outVars
<1>8. CASE NewSegmentDirect
  BY <1>8 DEF NewSegmentDirect, MayCall, threadVars, queueVars, signalVars, flagVars, outVars
<1>9. CASE ResetQueued
  BY <1>9, PacketKinds, OneAppended DEF ResetQueued, Enqueue, MayCall, NotifyThread, MayReset,
     threadVars, flagVars, countVars, outVars
<1>10. CASE ResetDirect
  BY <1>10 DEF ResetDirect, MayCall, MayReset, streamVars, threadVars, queueVars, signalVars,
     countVars, outVars
<1>11. CASE NewSegmentEnqueue
  BY <1>11, NoneInBoth, NoneIsOne DEF NewSegmentEnqueue, StreamIdle, NotifyThread, threadVars,
     flagVars, countVars, outVars
<1>12. CASE ResetWait
  BY <1>12 DEF ResetWait, StreamIdle, threadVars, queueVars, flagVars, countVars, outVars
<1>13. CASE NewSegmentLock
  BY <1>13 DEF NewSegmentLock, FlushedNoMore, threadVars, queueVars, signalVars, countVars,
     outVars
<1>14. CASE DirectLoop
  BY <1>14 DEF DirectLoop, LoopEnds, StreamIdle, threadVars, signalVars, flagVars, countVars,
     outVars
<1>15. CASE DirectEos
  BY <1>15 DEF DirectEos, StreamIdle, threadVars, queueVars, signalVars, flagVars, countVars
<1>16. CASE DirectSegment
  BY <1>16 DEF DirectSegment, StreamIdle, threadVars, queueVars, signalVars, flagVars, countVars
<1>17. CASE ThreadEnter
  BY <1>17 DEF ThreadEnter, streamVars, queueVars, signalVars, flagVars, countVars, outVars
<1>18. CASE ThreadTerminates
  BY <1>18, EmptyHasNone DEF ThreadTerminates, FreeSamples, streamVars, signalVars, flagVars,
     countVars, outVars
<1>19. CASE ThreadLoop
  BY <1>19, PacketKinds, HeadAndTail, EmptyHasNone DEF ThreadLoop, FreeSamples, TakeBatch,
     IsData, streamVars, flagVars, countVars, outVars
<1>20. CASE ThreadWakes
  BY <1>20 DEF ThreadWakes, streamVars, queueVars, flagVars, countVars, outVars
<1>21. CASE ThreadSend
  BY <1>21 DEF ThreadSend, streamVars, queueVars, signalVars, flagVars, countVars, outVars
<1>22. CASE ThreadResult
  BY <1>22 DEF ThreadResult, StickyResult, streamVars, queueVars, signalVars, countVars, outVars
<1>23. CASE ThreadNext
  BY <1>23, PacketKinds DEF ThreadNext, ThreadTop, streamVars, queueVars, signalVars, flagVars,
     countVars, outVars
<1>24. CASE ThreadEos
  BY <1>24, PacketKinds DEF ThreadEos, ThreadTop, streamVars, queueVars, signalVars, flagVars,
     countVars, outVars
<1>25. CASE ThreadEosSent
  BY <1>25, PacketKinds DEF ThreadEosSent, ThreadTop, streamVars, queueVars, signalVars,
     flagVars, countVars
<1>26. CASE ThreadSegment
  BY <1>26, PacketKinds DEF ThreadSegment, ThreadTop, streamVars, queueVars, signalVars,
     flagVars, countVars
<1>27. CASE ThreadReset
  BY <1>27, PacketKinds DEF ThreadReset, streamVars, queueVars, signalVars, countVars, outVars
<1>28. CASE ThreadResetDone
  BY <1>28, PacketKinds DEF ThreadResetDone, ThreadTop, streamVars, queueVars, flagVars,
     countVars, outVars
<1>29. CASE \E res \in Results : \E k \in 0 .. MaxAtOnce + mode.size : DirectReturns(k, res)
  BY <1>29 DEF DirectReturns, threadVars, signalVars, countVars
<1>30. CASE \E res \in Results : \E k \in 0 .. MaxAtOnce + mode.size : ThreadReturns(k, res)
  BY <1>30 DEF ThreadReturns, streamVars, queueVars, signalVars, flagVars, countVars
<1>31. CASE BeginFlush
  BY <1>31 DEF BeginFlush, FirstOfBeginFlush, streamVars, threadVars, queueVars, signalVars,
     flagVars, countVars, outVars
<1>32. CASE EndFlush
  <2>1. apc' = "idle" => flushes' = flushes + 1
    BY <1>32 DEF EndFlush
  <2>2. apc # "idle" /\ UNCHANGED <<m_List, spc, m_evFlushComplete, special, qpc>>
    BY <1>32 DEF EndFlush, streamVars, threadVars, queueVars, signalVars
  <2>3. apc' = "idle" => flushes' # 0
    BY <2>1
  <2> QED
    BY <2>2, <2>3
<1>33. CASE Destroy
  BY <1>33, EmptyHasNone DEF Destroy, FreeSamples, NotifyThread, streamVars, threadVars,
     queueVars, countVars, outVars
<1>34. CASE BeginFlushLocked
  BY <1>34 DEF BeginFlushLocked, ResetEvent, NotifyThread, streamVars, threadVars, queueVars,
     signalVars, countVars, outVars
<1>35. CASE BeginFlushDownstream
  BY <1>35 DEF BeginFlushDownstream, streamVars, threadVars, queueVars, signalVars, flagVars,
     countVars
<1>36. CASE EndFlushWait
  BY <1>36 DEF EndFlushWait, streamVars, threadVars, queueVars, flagVars, countVars, outVars
<1>37. CASE EndFlushFree
  BY <1>37, EmptyHasNone DEF EndFlushFree, FreeSamples, streamVars, threadVars, signalVars,
     flagVars, countVars, outVars
<1>38. CASE EndFlushClear
  BY <1>38 DEF EndFlushClear, streamVars, threadVars, queueVars, signalVars, countVars, outVars
<1>39. CASE EndFlushDownstream
  BY <1>39 DEF EndFlushDownstream, streamVars, threadVars, queueVars, signalVars, flagVars,
     countVars
<1>40. CASE EndFlushDone
  BY <1>40 DEF EndFlushDone, streamVars, threadVars, queueVars, signalVars, outVars
<1>41. CASE DestroyJoined
  BY <1>41 DEF DestroyJoined, streamVars, threadVars, queueVars, signalVars, flagVars,
     countVars, outVars
<1>42. CASE UNCHANGED vars
  BY <1>42 DEF vars, streamVars, threadVars, queueVars, signalVars, flagVars, countVars, outVars
<1> QED
  BY <1>1, <1>2, <1>3, <1>4, <1>5, <1>6, <1>7, <1>8, <1>9, <1>10, <1>11, <1>12, <1>13, <1>14,
     <1>15, <1>16, <1>17, <1>18, <1>19, <1>20, <1>21, <1>22, <1>23, <1>24, <1>25, <1>26, <1>27,
        <1>28, <1>29, <1>30, <1>31, <1>32, <1>33, <1>34, <1>35, <1>36, <1>37, <1>38, <1>39,
           <1>40, <1>41, <1>42
     DEF Next, StreamCall, StreamStep, ThreadStep, DownstreamReturns, ControlCall, ControlStep,
        Destroyed

LEMMA StepShort ==
    ASSUME ~ResetAndFlush, Inv, [Next]_vars
    PROVE  Short'
<1> USE DEF Inv, Short, Signals, Asleep
<1>1. CASE \E k \in 1 .. MaxAtOnce : ReceiveQueued(k)
  <2>1. PICK k \in 1 .. MaxAtOnce : ReceiveQueued(k)
    BY <1>1
  <2>2. CASE WorthWaking(m_List')
    <3>1. m_hSem' = m_hSem + m_lWaiting /\ UNCHANGED qpc
      BY <2>1, <2>2 DEF ReceiveQueued, NotifyThread, threadVars
    <3>2. ~Asleep'
      BY <3>1 DEF Asleep
    <3> QED
      BY <3>2
  <2>3. CASE ~WorthWaking(m_List')
    <3>1. m_List' \in Seq(Packets)
      BY StepTypes DEF Types
    <3>2. mode.exact /\ Len(m_ppSamples) + Len(m_List') < mode.size
      <4>1. mode.exact /\ ~(Len(m_ppSamples) + GetCount(m_List') >= mode.size)
        BY <2>3, <2>1 DEF WorthWaking, ReceiveQueued
      <4>2. GetCount(m_List') \in Nat /\ GetCount(m_List') >= Len(m_List')
        BY <3>1, CountsAll
      <4> QED
        BY <3>1, <4>1, <4>2 DEF Types, Mode
    <3>3. Asleep' => Asleep
      BY <2>1, <2>3 DEF ReceiveQueued, Asleep, threadVars
    <3>4. Asleep => \A i \in 1 .. Len(m_List) : m_List[i].kind = "sample"
      BY EmptySeq DEF IsData, Types
    <3>5. m_List' = m_List \o New("sample", k) /\ UNCHANGED <<mode, m_ppSamples>>
      BY <2>1 DEF ReceiveQueued
    <3>6. Asleep => \A i \in 1 .. Len(m_List') : m_List'[i].kind = "sample"
      <4>1. /\ New("sample", k) \in Seq(Packets) /\ Len(New("sample", k)) = k
            /\ \A i \in 1 .. k : New("sample", k)[i].kind = "sample"
        BY NewItems DEF Types
      <4> QED
        BY <3>4, <3>5, <4>1, ConcatProperties DEF Types
    <3> QED
      BY <3>2, <3>3, <3>5, <3>6 DEF IsData
  <2> QED
    BY <2>2, <2>3
<1>2. CASE \E k \in 1 .. MaxAtOnce : ReceiveDirect(k)
  BY <1>2 DEF ReceiveDirect, DirectCall, FlushedNoMore, MayCall, threadVars, queueVars,
     signalVars, outVars
<1>3. CASE EOSQueued
  BY <1>3 DEF EOSQueued, FlushedNoMore, Enqueue, MayCall, NotifyThread, streamVars, threadVars,
     outVars
<1>4. CASE EOSDirect
  BY <1>4 DEF EOSDirect, DirectCall, FlushedNoMore, MayCall, threadVars, queueVars, signalVars,
     outVars
<1>5. CASE SendAnywayQueued
  BY <1>5 DEF SendAnywayQueued, Enqueue, MayCall, NotifyThread, streamVars, threadVars,
     flagVars, countVars, outVars
<1>6. CASE SendAnywayDirect
  BY <1>6 DEF SendAnywayDirect, DirectCall, FlushedNoMore, MayCall, threadVars, queueVars,
     signalVars, outVars
<1>7. CASE NewSegmentQueued
  BY <1>7 DEF NewSegmentQueued, MayCall, threadVars, queueVars, signalVars, flagVars, outVars
<1>8. CASE NewSegmentDirect
  BY <1>8 DEF NewSegmentDirect, MayCall, threadVars, queueVars, signalVars, flagVars, outVars
<1>9. CASE ResetQueued
  BY <1>9 DEF ResetQueued, Enqueue, MayCall, NotifyThread, MayReset, threadVars, flagVars,
     countVars, outVars
<1>10. CASE ResetDirect
  BY <1>10 DEF ResetDirect, MayCall, MayReset, streamVars, threadVars, queueVars, signalVars,
     countVars, outVars
<1>11. CASE NewSegmentEnqueue
  BY <1>11 DEF NewSegmentEnqueue, StreamIdle, NotifyThread, threadVars, flagVars, countVars,
     outVars
<1>12. CASE ResetWait
  BY <1>12 DEF ResetWait, StreamIdle, threadVars, queueVars, flagVars, countVars, outVars
<1>13. CASE NewSegmentLock
  BY <1>13 DEF NewSegmentLock, FlushedNoMore, threadVars, queueVars, signalVars, countVars,
     outVars
<1>14. CASE DirectLoop
  <2>1. ~Asleep'
    BY <1>14 DEF DirectLoop, Asleep, Control, threadVars, signalVars
  <2> QED
    BY <2>1
<1>15. CASE DirectEos
  BY <1>15 DEF DirectEos, StreamIdle, threadVars, queueVars, signalVars, flagVars, countVars
<1>16. CASE DirectSegment
  BY <1>16 DEF DirectSegment, StreamIdle, threadVars, queueVars, signalVars, flagVars, countVars
<1>17. CASE ThreadEnter
  BY <1>17 DEF ThreadEnter, streamVars, queueVars, signalVars, flagVars, countVars, outVars
<1>18. CASE ThreadTerminates
  BY <1>18 DEF ThreadTerminates, FreeSamples, streamVars, signalVars, flagVars, countVars, outVars
<1>19. CASE ThreadLoop
  <2> DEFINE q == IF m_bFlushing THEN FreeSamples ELSE [list |-> m_List, batch |-> m_ppSamples]
             first == IF q.list = <<>> THEN NoPacket ELSE Head(q.list)
  <2>1. q.list \in Seq(Packets)
    BY DEF FreeSamples, Types
  <2>2. first = NoPacket => q.list = <<>>
    BY <2>1, HeadAndTail, PacketKinds
  <2>3. qpc' = "wait" => first = NoPacket
    BY <1>19, Zenon DEF ThreadLoop, TakeBatch
  <2>4. q.list = <<>> => m_List' = <<>>
    BY <1>19, Zenon DEF ThreadLoop
  <2> QED
    BY <2>2, <2>3, <2>4
<1>20. CASE ThreadWakes
  BY <1>20 DEF ThreadWakes, streamVars, queueVars, flagVars, countVars, outVars
<1>21. CASE ThreadSend
  BY <1>21 DEF ThreadSend, streamVars, queueVars, signalVars, flagVars, countVars, outVars
<1>22. CASE ThreadResult
  BY <1>22 DEF ThreadResult, StickyResult, streamVars, queueVars, signalVars, countVars, outVars
<1>23. CASE ThreadNext
  BY <1>23 DEF ThreadNext, ThreadTop, streamVars, queueVars, signalVars, flagVars, countVars,
     outVars
<1>24. CASE ThreadEos
  BY <1>24 DEF ThreadEos, ThreadTop, streamVars, queueVars, signalVars, flagVars, countVars,
     outVars
<1>25. CASE ThreadEosSent
  BY <1>25 DEF ThreadEosSent, ThreadTop, streamVars, queueVars, signalVars, flagVars, countVars
<1>26. CASE ThreadSegment
  BY <1>26 DEF ThreadSegment, ThreadTop, streamVars, queueVars, signalVars, flagVars, countVars
<1>27. CASE ThreadReset
  BY <1>27 DEF ThreadReset, streamVars, queueVars, signalVars, countVars, outVars
<1>28. CASE ThreadResetDone
  BY <1>28 DEF ThreadResetDone, ThreadTop, streamVars, queueVars, flagVars, countVars, outVars
<1>29. CASE \E res \in Results : \E k \in 0 .. MaxAtOnce + mode.size : DirectReturns(k, res)
  <2>1. ~Asleep'
    BY <1>29 DEF DirectReturns, Asleep, Control, threadVars, signalVars
  <2> QED
    BY <2>1
<1>30. CASE \E res \in Results : \E k \in 0 .. MaxAtOnce + mode.size : ThreadReturns(k, res)
  BY <1>30 DEF ThreadReturns, streamVars, queueVars, signalVars, flagVars, countVars
<1>31. CASE BeginFlush
  BY <1>31 DEF BeginFlush, FirstOfBeginFlush, streamVars, threadVars, queueVars, signalVars,
     flagVars, countVars, outVars
<1>32. CASE EndFlush
  BY <1>32 DEF EndFlush, streamVars, threadVars, queueVars, signalVars, outVars
<1>33. CASE Destroy
  BY <1>33 DEF Destroy, FreeSamples, NotifyThread, streamVars, threadVars, queueVars,
     countVars, outVars
<1>34. CASE BeginFlushLocked
  BY <1>34 DEF BeginFlushLocked, ResetEvent, NotifyThread, streamVars, threadVars, queueVars,
     signalVars, countVars, outVars
<1>35. CASE BeginFlushDownstream
  BY <1>35 DEF BeginFlushDownstream, streamVars, threadVars, queueVars, signalVars, flagVars,
     countVars
<1>36. CASE EndFlushWait
  BY <1>36 DEF EndFlushWait, streamVars, threadVars, queueVars, flagVars, countVars, outVars
<1>37. CASE EndFlushFree
  BY <1>37 DEF EndFlushFree, FreeSamples, streamVars, threadVars, signalVars, flagVars,
     countVars, outVars
<1>38. CASE EndFlushClear
  BY <1>38 DEF EndFlushClear, streamVars, threadVars, queueVars, signalVars, countVars, outVars
<1>39. CASE EndFlushDownstream
  BY <1>39 DEF EndFlushDownstream, streamVars, threadVars, queueVars, signalVars, flagVars,
     countVars
<1>40. CASE EndFlushDone
  BY <1>40 DEF EndFlushDone, streamVars, threadVars, queueVars, signalVars, outVars
<1>41. CASE DestroyJoined
  BY <1>41 DEF DestroyJoined, streamVars, threadVars, queueVars, signalVars, flagVars,
     countVars, outVars
<1>42. CASE UNCHANGED vars
  BY <1>42 DEF vars, streamVars, threadVars, queueVars, signalVars, flagVars, countVars, outVars
<1> QED
  BY <1>1, <1>2, <1>3, <1>4, <1>5, <1>6, <1>7, <1>8, <1>9, <1>10, <1>11, <1>12, <1>13, <1>14,
     <1>15, <1>16, <1>17, <1>18, <1>19, <1>20, <1>21, <1>22, <1>23, <1>24, <1>25, <1>26, <1>27,
        <1>28, <1>29, <1>30, <1>31, <1>32, <1>33, <1>34, <1>35, <1>36, <1>37, <1>38, <1>39,
           <1>40, <1>41, <1>42
     DEF Next, StreamCall, StreamStep, ThreadStep, DownstreamReturns, ControlCall, ControlStep,
        Destroyed

-----------------------------------------------------------------------------
\* Calls, flush, event, Reset and signals go together as Inv says in every state:
\* what the two theorems below rest on.
THEOREM QueueInvariance ==
    ASSUME ~ResetAndFlush
    PROVE  Spec => []Inv
<1>1. Inv /\ [Next]_vars => Inv'
  BY StepTypes, StepControl, StepDrain, StepResets, StepSignals, StepWaits, StepShort DEF Inv
<1> QED
  BY InitInv, <1>1, PTL DEF Spec

\* A flush is not kept from the downstream pin while it has samples, and no result
\* of a delivery opens the queue before EndFlush.
THEOREM FlushesAreSeen ==
    ASSUME ~ResetAndFlush
    PROVE  Spec => []FlushIsSeen
<1>1. Inv => FlushIsSeen
  BY DEF Inv, Control, Drain, Drained, FlushIsSeen, NotFlushedWhileSending, RefusesWhileFlushing
<1> QED
  BY <1>1, QueueInvariance, PTL

\* However the streaming thread saves itself signals, the queue's thread sleeps
\* only over less than the exact batch it waits for.
THEOREM NoSignalIsLost ==
    ASSUME ~ResetAndFlush
    PROVE  Spec => []NoLostSignal
<1>1. ASSUME Inv, Asleep PROVE NoLostSignal
  <2>1. m_lWaiting = 1
    BY <1>1 DEF Inv, Signals, Asleep
  <2>2. ~m_bTerminate
    BY <1>1 DEF Inv, Waits
  <2>3. mode.queued
    BY <1>1 DEF Inv, Control, Asleep
  <2>4. apc = "wait" => m_evFlushComplete
    BY <1>1, <2>3 DEF Inv, Waits, Control
  <2>5. DOMAIN m_List = 1 .. Len(m_List)
    BY <1>1 DEF Inv, Types
  <2> QED
    BY <1>1, <2>1, <2>2, <2>4, <2>5 DEF Inv, Short, NoLostSignal
<1>2. Inv => NoLostSignal
  BY <1>1 DEF NoLostSignal, Asleep
<1> QED
  BY <1>2, QueueInvariance, PTL
-----------------------------------------------------------------------------
(* What the queue has in hand, and where. *)

Commands == {Send, ResetMsg}

\* The items handed in so far.
Seen == [kind : {"sample", "segment", "eos"}, n : 1 .. issued]

Stocked ==
    /\ issued \in 0 .. MaxItems /\ last \in 0 .. issued
    /\ m_ppSamples \in Seq(Seen) /\ sending \in Seq(Seen) /\ args \in Seq(Seen)
    /\ m_List \in Seq(Seen \cup Commands) /\ special \in Seen \cup Commands \cup {NoPacket}

\* A batch is not full except while it is with the downstream pin.
Values ==
    /\ mode \in Modes /\ m_hr \in Results /\ hr \in Results
    /\ {m_bFlushing, m_bFlushed, m_bTerminate, m_evFlushComplete, downFlushing} \subseteq BOOLEAN
    /\ Len(m_ppSamples) <= mode.size /\ Len(sending) <= mode.size
    /\ spc # "deliver" => Len(m_ppSamples) < mode.size

\* The thread has a batch or a packet of its own only between the critical section
\* and the next.
ThreadPlaces ==
    /\ ~mode.queued => m_List = <<>>
    /\ sending # <<>> => qpc \in {"send", "deliver", "result"}
    /\ special # NoPacket => qpc \in {"send", "deliver", "result", "special", "inEos", "inReset"}
    /\ qpc = "inEos" => special.kind = "eos"
    /\ special.kind # "sample"
    /\ qpc = "result" /\ hr = "S_OK" => sending = <<>>

\* A streaming call has its items only while it lasts; by a direct call the batch
\* goes out before a notice or an end of stream, or is refused.
StreamPlaces ==
    /\ spc \in {"idle", "segment", "reset", "loop", "deliver", "eos", "lockSegment"}
    /\ spc \in {"idle", "reset"} \/ op = "SendAnyway" => args = <<>>
    /\ spc \in {"segment", "lockSegment"} => op = "NewSegment"
    /\ spc = "eos" => op = "EOS"
    /\ spc \in {"loop", "deliver"} => op \in {"Receive", "SendAnyway", "NewSegment", "EOS"}
    /\ op \in {"NewSegment", "EOS"} => Len(args) = 1
    /\ op = "NewSegment" => args[1].kind = "segment"
    /\ spc = "deliver" => m_hr = "S_OK" /\ m_ppSamples # <<>>
    /\ mode.exact \/ mode.size = 1 =>
          /\ spc = "eos" => m_ppSamples = <<>>
          /\ spc = "segment" /\ ~mode.queued => m_ppSamples = <<>> \/ m_hr # "S_OK"

\* A flush and the destructor shut the queue, and the downstream pin is not left
\* flushing.
Closing ==
    /\ m_bTerminate => m_hr # "S_OK" /\ mode.queued /\ apc \in {"join", "destroyed"}
    /\ apc \in {"sendEnd", "sendOk"} => m_hr # "S_OK" /\ m_bFlushed
    /\ downFlushing => apc \in {"lockBegin", "flushing", "wait", "clear", "sendEnd"}
    /\ mode.queued => /\ apc = "lockBegin" => ~downFlushing
                      /\ apc = "sendBegin" => m_bFlushing
    /\ mode.queued /\ (apc = "sendBegin" \/ (downFlushing /\ apc = "flushing"))
          => ~(m_bFlushed /\ mode.opt)
    /\ mode.queued /\ apc = "destroyed" => qpc = "exit"
    /\ ~mode.queued /\ apc \in {"clear", "sendEnd", "sendOk"} => m_ppSamples = <<>>

Flow == Stocked /\ Values /\ ThreadPlaces /\ StreamPlaces /\ Closing

LEMMA CommandKinds ==
    /\ Send \notin Seen /\ ResetMsg \notin Seen /\ NoPacket \notin Seen
    /\ NoPacket \notin Commands /\ \A c \in Commands : c.kind \in {"send", "reset"}
    /\ \A i \in Seen : i.kind \in {"sample", "segment", "eos"} /\ i.n \in 1 .. issued
BY DEF Seen, Commands, Send, ResetMsg, NoPacket

LEMMA InitFlow == Init => Flow
<1> SUFFICES ASSUME Init PROVE Flow
  OBVIOUS
<1>1. Stocked
  BY OutputQueueAssumption, EmptySeq DEF Init, Stocked
<1>2. Values
  <2>1. mode \in Modes /\ mode \in Mode /\ Len(<<>>) = 0
    BY OutputQueueAssumption, EmptySeq DEF Init
  <2>2. mode.size \in Nat /\ mode.size > 0
    BY <2>1 DEF Mode
  <2>3. {m_bFlushing, m_bFlushed, m_bTerminate, m_evFlushComplete, downFlushing} \subseteq BOOLEAN
    BY Zenon DEF Init
  <2>4. Len(m_ppSamples) < mode.size /\ Len(sending) <= mode.size
    BY <2>1, <2>2 DEF Init
  <2> QED BY <2>1, <2>2, <2>3, <2>4 DEF Init, Values, Results
<1>3. ThreadPlaces /\ StreamPlaces /\ Closing
  BY DEF Init, ThreadPlaces, StreamPlaces, Closing, NoPacket
<1> QED
  BY <1>1, <1>2, <1>3 DEF Flow

\* New items are seen, behind the others.
LEMMA NewSeen ==
    ASSUME Stocked, NEW kind \in {"sample", "segment", "eos"}, NEW k \in Nat,
           issued' = issued + k
    PROVE  /\ New(kind, k) \in Seq(Seen') /\ Len(New(kind, k)) = k
           /\ \A i \in 1 .. k : New(kind, k)[i] = [kind |-> kind, n |-> issued + i]
           /\ Seq(Seen) \subseteq Seq(Seen')
           /\ Seq(Seen \cup Commands) \subseteq Seq((Seen \cup Commands)')
           /\ Seen \subseteq Seen'
<1>1. New(kind, k) \in [1 .. k -> Seen']
  BY DEF New, Seen, Stocked
<1>2. Seen \subseteq Seen'
  BY DEF Seen, Stocked
<1>3. (Seen \cup Commands) \subseteq (Seen \cup Commands)'
  BY <1>2 DEF Commands, Send, ResetMsg
<1> QED
  BY <1>1, <1>2, <1>3, SeqMonotonic DEF New

LEMMA OneNew ==
    ASSUME issued \in Nat, NEW kind \in {"sample", "segment", "eos"}
    PROVE  /\ Len(New(kind, 1)) = 1 /\ New(kind, 1) = <<New(kind, 1)[1]>>
           /\ New(kind, 1)[1].kind = kind /\ New(kind, 1)[1].n = issued + 1
<1>1. New(kind, 1) \in Seq(Packets) /\ Len(New(kind, 1)) = 1
  BY NewItems
<1>2. New(kind, 1)[1] = [kind |-> kind, n |-> issued + 1]
  BY DEF New
<1> QED BY <1>1, <1>2

LEMMA EnqueueIsConcat ==
    ASSUME Inv, NEW kind \in {"sample", "segment", "eos"}, Enqueue(New(kind, 1)[1])
    PROVE  m_List' = m_List \o New(kind, 1)
<1>1. issued \in Nat /\ m_List \in Seq(Packets)
  BY DEF Inv, Types
<1>2. New(kind, 1) \in Seq(Packets) /\ Len(New(kind, 1)) = 1 /\ New(kind, 1) = <<New(kind, 1)[1]>>
  BY <1>1, OneNew, NewItems
<1>3. New(kind, 1)[1] \in Packets
  BY <1>2
<1> QED BY <1>1, <1>2, <1>3, AppendIsConcat DEF Enqueue

\* Items handed in are stocked, and so is what remains when some have gone.
LEMMA MoreStock ==
    ASSUME Stocked, NEW kind \in {"sample", "segment", "eos"}, NEW k \in Nat,
           k <= MaxItems - issued, issued' = issued + k,
           UNCHANGED <<last, m_ppSamples, sending, special>>,
           m_List' = m_List \/ m_List' = m_List \o New(kind, k),
           args' = args \/ args' = New(kind, k)
    PROVE  Stocked'
<1>1. /\ New(kind, k) \in Seq(Seen') /\ Seq(Seen) \subseteq Seq(Seen') /\ Seen \subseteq Seen'
      /\ Seq(Seen \cup Commands) \subseteq Seq((Seen \cup Commands)')
  BY NewSeen
<1>2. New(kind, k) \in Seq((Seen \cup Commands)') /\ m_List \in Seq((Seen \cup Commands)')
  BY <1>1, SeqMonotonic DEF Stocked
<1>3. m_List' \in Seq((Seen \cup Commands)')
  BY <1>2, ConcatProperties
<1>4. issued' \in 0 .. MaxItems /\ last' \in 0 .. issued' /\ MaxItems \in Nat
  BY OutputQueueAssumption DEF Stocked
<1>5. special' \in (Seen \cup Commands \cup {NoPacket})'
  BY <1>1 DEF Stocked, Commands, Send, ResetMsg, NoPacket
<1> QED BY <1>1, <1>3, <1>4, <1>5 DEF Stocked

LEMMA SameStock ==
    ASSUME Stocked, issued' = issued, last' \in 0 .. issued,
           m_ppSamples' \in Seq(Seen), sending' \in Seq(Seen), args' \in Seq(Seen),
           m_List' \in Seq(Seen \cup Commands), special' \in Seen \cup Commands \cup {NoPacket}
    PROVE  Stocked'
BY DEF Stocked, Seen, Commands, Send, ResetMsg, NoPacket

LEMMA FirstOfList ==
    ASSUME NEW S, NEW s \in Seq(S), s # <<>>
    PROVE  Head(s) \in S /\ Tail(s) \in Seq(S) /\ Head(s) = s[1] /\ Len(s) \in Nat /\ Len(s) > 0
BY EmptySeq, HeadTailProperties

LEMMA StepStocked ==
    ASSUME ~ResetAndFlush, Inv, Flow, [Next]_vars
    PROVE  Stocked'
<1>0. Stocked /\ issued \in Nat
  BY DEF Flow, Stocked
<1>1. CASE \/ \E k \in 1 .. MaxAtOnce : ReceiveQueued(k) \/ ReceiveDirect(k)
           \/ EOSQueued \/ EOSDirect \/ NewSegmentQueued \/ NewSegmentDirect
  <2>1. ASSUME NEW k \in 1 .. MaxAtOnce, ReceiveQueued(k) PROVE Stocked'
    <3>1. /\ k <= MaxItems - issued /\ issued' = issued + k
          /\ m_List' = m_List \o New("sample", k) /\ args' = args
      BY <2>1 DEF ReceiveQueued, streamVars
    <3>2. UNCHANGED <<last, m_ppSamples, sending, special>>
      BY <2>1 DEF ReceiveQueued, threadVars, outVars
    <3>3. k \in Nat /\ "sample" \in {"sample", "segment", "eos"}
      OBVIOUS
    <3> QED BY <1>0, <3>1, <3>2, <3>3, MoreStock
  <2>2. ASSUME NEW k \in 1 .. MaxAtOnce, ReceiveDirect(k) PROVE Stocked'
    <3>1. Len(New("sample", k)) = k
      BY <1>0, NewItems
    <3> QED BY <1>0, <2>2, <3>1, MoreStock DEF ReceiveDirect, DirectCall, threadVars, queueVars, outVars
  <2>3. CASE EOSQueued
    <3>1. m_List' = m_List \o New("eos", 1)
      BY <2>3, EnqueueIsConcat DEF EOSQueued
    <3>2. 1 <= MaxItems - issued
      BY <1>0, <2>3, OutputQueueAssumption DEF EOSQueued
    <3> QED BY <1>0, <2>3, <3>1, <3>2, MoreStock DEF EOSQueued, streamVars, threadVars, outVars
  <2>4. CASE EOSDirect
    <3>1. 1 <= MaxItems - issued /\ issued' = issued + 1
      <4>1. issued' = issued + Len(New("eos", 1)) /\ issued < MaxItems /\ MaxItems \in Nat
        BY <2>4, OutputQueueAssumption DEF EOSDirect, DirectCall
      <4>2. Len(New("eos", 1)) = 1
        BY <1>0, OneNew
      <4>3. issued' = issued + 1
        BY <4>1, <4>2, Zenon
      <4> QED BY <1>0, <4>1, <4>3
    <3> QED BY <1>0, <2>4, <3>1, MoreStock DEF EOSDirect, DirectCall, threadVars, queueVars, outVars
  <2>5. CASE NewSegmentQueued \/ NewSegmentDirect
    <3>1. 1 <= MaxItems - issued
      BY <1>0, <2>5, OutputQueueAssumption DEF NewSegmentQueued, NewSegmentDirect
    <3> QED BY <1>0, <2>5, <3>1, MoreStock
            DEF NewSegmentQueued, NewSegmentDirect, threadVars, queueVars, outVars
  <2> QED BY <1>1, <2>1, <2>2, <2>3, <2>4, <2>5
<1>2. CASE SendAnywayQueued \/ ResetQueued \/ NewSegmentEnqueue
  <2>1. m_List' \in Seq(Seen \cup Commands)
    <3>1. args \in Seq(Seen \cup Commands) /\ m_List \in Seq(Seen \cup Commands)
      BY <1>0, SeqMonotonic DEF Stocked
    <3>2. Append(m_List, Send) \in Seq(Seen \cup Commands)
          /\ Append(m_List, ResetMsg) \in Seq(Seen \cup Commands)
      BY <3>1, AppendProperties DEF Commands
    <3>3. m_List \o args \in Seq(Seen \cup Commands)
      BY <3>1, ConcatProperties
    <3> QED BY <1>2, <3>2, <3>3 DEF SendAnywayQueued, ResetQueued, NewSegmentEnqueue, Enqueue
  <2>2. args' \in {args, <<>>} /\ UNCHANGED <<issued, last, m_ppSamples, sending, special>>
    BY <1>2 DEF SendAnywayQueued, ResetQueued, NewSegmentEnqueue, streamVars, threadVars, countVars,
       outVars, StreamIdle
  <2> QED BY <1>0, <2>1, <2>2, SameStock, EmptySeq DEF Stocked
<1>3. CASE \/ ResetDirect \/ ResetWait \/ NewSegmentLock \/ ThreadEnter \/ ThreadTerminates
           \/ ThreadWakes \/ ThreadSend \/ ThreadResult \/ ThreadNext \/ ThreadEos \/ ThreadReset
           \/ ThreadResetDone \/ ControlCall \/ ControlStep \/ UNCHANGED vars
  <2>1. /\ UNCHANGED <<issued, last>> /\ m_List' \in {m_List, <<>>}
        /\ m_ppSamples' \in {m_ppSamples, <<>>} /\ sending' \in {sending, <<>>}
        /\ args' \in {args, <<>>} /\ special' \in {special, NoPacket}
    BY <1>3 DEF ResetDirect, ResetWait, StreamIdle, NewSegmentLock, ThreadEnter, ThreadTerminates,
       FreeSamples, ThreadWakes, ThreadSend, ThreadResult, ThreadNext, ThreadTop, ThreadEos,
       ThreadReset, ThreadResetDone, ControlCall, ControlStep, BeginFlush, EndFlush, Destroy,
       BeginFlushLocked, BeginFlushDownstream, EndFlushWait, EndFlushFree, EndFlushClear,
       EndFlushDownstream, EndFlushDone, DestroyJoined, vars, streamVars, threadVars, queueVars,
       countVars, outVars
  <2> QED BY <1>0, <2>1, SameStock, EmptySeq DEF Stocked
<1>4. CASE SendAnywayDirect
  <2>1. issued' = issued
    BY <1>0, <1>4, EmptySeq DEF SendAnywayDirect, DirectCall
  <2> QED BY <1>0, <1>4, <2>1, SameStock, EmptySeq
          DEF SendAnywayDirect, DirectCall, threadVars, queueVars, outVars, Stocked
<1>5. CASE DirectLoop
  <2>1. args' \in {args, <<>>} \/ (args # <<>> /\ args' = Tail(args))
    BY <1>5 DEF DirectLoop, LoopEnds, StreamIdle
  <2>2. \/ m_ppSamples' \in {m_ppSamples, <<>>}
        \/ args # <<>> /\ m_ppSamples' = Append(m_ppSamples, Head(args))
    BY <1>5 DEF DirectLoop, LoopEnds, StreamIdle
  <2>3. args' \in Seq(Seen) /\ m_ppSamples' \in Seq(Seen)
    <3>1. args \in Seq(Seen) /\ m_ppSamples \in Seq(Seen) /\ <<>> \in Seq(Seen)
      BY <1>0, EmptySeq DEF Stocked
    <3>2. args # <<>> => /\ Tail(args) \in Seq(Seen)
                         /\ Append(m_ppSamples, Head(args)) \in Seq(Seen)
      BY <3>1, FirstOfList, AppendProperties
    <3> QED BY <2>1, <2>2, <3>1, <3>2
  <2> QED BY <1>0, <1>5, <2>3, SameStock DEF DirectLoop, threadVars, countVars, outVars, Stocked
<1>6. CASE DirectEos \/ DirectSegment
  <2>1. args[1] \in Seen
    <3>1. Len(args) = 1
      BY <1>6 DEF DirectEos, DirectSegment, Flow, StreamPlaces
    <3>2. args \in Seq(Seen) /\ 1 \in 1 .. Len(args)
      BY <1>0, <3>1 DEF Stocked
    <3> QED BY <3>2, ElementOfSeq
  <2>2. last' \in 0 .. issued
    BY <1>0, <1>6, <2>1, CommandKinds DEF DirectEos, DirectSegment, Stocked
  <2> QED BY <1>0, <1>6, <2>2, SameStock, EmptySeq
          DEF DirectEos, DirectSegment, StreamIdle, threadVars, queueVars, countVars, Stocked
<1>7. CASE ThreadLoop
  <2> DEFINE q == IF m_bFlushing THEN FreeSamples ELSE [list |-> m_List, batch |-> m_ppSamples]
             first == IF q.list = <<>> THEN NoPacket ELSE Head(q.list)
             batch == IF IsData(first) THEN Append(q.batch, first) ELSE q.batch
  <2>1. q.list \in Seq(Seen \cup Commands) /\ q.batch \in Seq(Seen)
    BY <1>0, EmptySeq DEF FreeSamples, Stocked
  <2>2. first \in Seen \cup Commands \cup {NoPacket} /\ (IsData(first) => first \in Seen)
    BY <2>1, FirstOfList, CommandKinds, PacketKinds DEF IsData
  <2>3. batch \in Seq(Seen)
    BY <2>1, <2>2, AppendProperties
  <2>4. m_List' \in Seq(Seen \cup Commands)
    <3>1. m_List' = IF q.list = <<>> THEN <<>> ELSE Tail(q.list)
      BY <1>7, Zenon DEF ThreadLoop
    <3> QED BY <2>1, <3>1, FirstOfList, EmptySeq
  <2>5. /\ m_ppSamples' \in {batch, <<>>} /\ sending' \in {batch, sending}
        /\ special' \in {special, NoPacket, first}
    <3>1. /\ m_ppSamples' = batch \/ m_ppSamples' = <<>>
          /\ sending' = batch \/ sending' = sending
          /\ special' = special \/ special' = NoPacket \/ special' = first
      BY <1>7, Zenon DEF ThreadLoop, TakeBatch
    <3> QED BY <3>1, Zenon
  <2> HIDE DEF q, first, batch
  <2> QED BY <1>0, <1>7, <2>2, <2>3, <2>4, <2>5, SameStock, EmptySeq
          DEF ThreadLoop, streamVars, countVars, outVars, Stocked
<1>8. CASE DownstreamReturns
  <2>1. ASSUME NEW k \in Int, NEW s \in Seq(Seen), k \in 0 .. Len(s)
        PROVE  /\ SubSeq(s, k + 1, Len(s)) \in Seq(Seen)
               /\ k # 0 => s[k] \in Seen
    BY <2>1, SubSeqProperties, ElementOfSeq
  <2>2. PICK res \in Results, k \in 0 .. MaxAtOnce + mode.size :
            DirectReturns(k, res) \/ ThreadReturns(k, res)
    BY <1>8 DEF DownstreamReturns
  <2>3. CASE DirectReturns(k, res)
    <3>1. k \in 0 .. Len(m_ppSamples)
      BY <1>0, <2>3, EmptySeq DEF DirectReturns, Downstream, Stocked
    <3>2. last' \in 0 .. issued
      BY <1>0, <2>1, <2>3, <3>1, CommandKinds DEF DirectReturns, Stocked
    <3> QED BY <1>0, <2>3, <3>2, SameStock, EmptySeq DEF DirectReturns, threadVars, countVars, Stocked
  <2>4. CASE ThreadReturns(k, res)
    <3>1. k \in 0 .. Len(sending)
      BY <1>0, <2>4, EmptySeq DEF ThreadReturns, Downstream, Stocked
    <3>2. last' \in 0 .. issued /\ sending' \in Seq(Seen)
      BY <1>0, <2>1, <2>4, <3>1, CommandKinds DEF ThreadReturns, Stocked
    <3> QED BY <1>0, <2>4, <3>2, SameStock DEF ThreadReturns, streamVars, queueVars, countVars, Stocked
  <2> QED BY <2>2, <2>3, <2>4
<1>9. CASE ThreadEosSent \/ ThreadSegment
  <2>1. special \in Seen
    BY <1>0, <1>9, CommandKinds, PacketKinds DEF ThreadEosSent, ThreadSegment, Flow, ThreadPlaces, Stocked
  <2>2. last' \in 0 .. issued
    BY <1>0, <1>9, <2>1, CommandKinds DEF ThreadEosSent, ThreadSegment, Stocked
  <2> QED BY <1>0, <1>9, <2>2, SameStock
          DEF ThreadEosSent, ThreadSegment, ThreadTop, streamVars, queueVars, countVars, Stocked
<1> QED
  BY <1>1, <1>2, <1>3, <1>4, <1>5, <1>6, <1>7, <1>8, <1>9
  DEF Next, StreamCall, StreamStep, ThreadStep, DownstreamReturns, Destroyed


LEMMA StepClosing ==
    ASSUME ~ResetAndFlush, Inv, Flow, [Next]_vars
    PROVE  Closing'
<1> USE DEF Inv, Flow, Values, Closing, Control, Mode, Types, Free
<1>1. CASE \E k \in 1 .. MaxAtOnce : ReceiveQueued(k)
  BY <1>1 DEF ReceiveQueued, FlushedNoMore, MayCall, NotifyThread, streamVars, threadVars, outVars
<1>2. CASE \E k \in 1 .. MaxAtOnce : ReceiveDirect(k)
  BY <1>2 DEF ReceiveDirect, DirectCall, FlushedNoMore, MayCall, threadVars, queueVars,
     signalVars, outVars
<1>3. CASE EOSQueued
  BY <1>3 DEF EOSQueued, FlushedNoMore, Enqueue, MayCall, NotifyThread, streamVars, threadVars,
     outVars
<1>4. CASE EOSDirect
  BY <1>4 DEF EOSDirect, DirectCall, FlushedNoMore, MayCall, threadVars, queueVars, signalVars,
     outVars
<1>5. CASE SendAnywayQueued
  BY <1>5 DEF SendAnywayQueued, Enqueue, MayCall, NotifyThread, streamVars, threadVars, flagVars,
     countVars, outVars
<1>6. CASE SendAnywayDirect
  BY <1>6 DEF SendAnywayDirect, DirectCall, FlushedNoMore, MayCall, threadVars, queueVars,
     signalVars, outVars
<1>7. CASE NewSegmentQueued
  BY <1>7 DEF NewSegmentQueued, MayCall, threadVars, queueVars, signalVars, flagVars, outVars
<1>8. CASE NewSegmentDirect
  BY <1>8 DEF NewSegmentDirect, MayCall, threadVars, queueVars, signalVars, flagVars, outVars
<1>9. CASE ResetQueued
  BY <1>9 DEF ResetQueued, Enqueue, MayCall, NotifyThread, MayReset, threadVars, flagVars,
     countVars, outVars
<1>10. CASE ResetDirect
  BY <1>10 DEF ResetDirect, MayCall, MayReset, streamVars, threadVars, queueVars, signalVars,
     countVars, outVars
<1>11. CASE NewSegmentEnqueue
  BY <1>11 DEF NewSegmentEnqueue, StreamIdle, NotifyThread, threadVars, flagVars, countVars,
     outVars
<1>12. CASE ResetWait
  BY <1>12 DEF ResetWait, StreamIdle, threadVars, queueVars, flagVars, countVars, outVars
<1>13. CASE NewSegmentLock
  BY <1>13 DEF NewSegmentLock, FlushedNoMore, threadVars, queueVars, signalVars, countVars,
     outVars
<1>14. CASE DirectLoop
  BY <1>14 DEF DirectLoop, LoopEnds, StreamIdle, threadVars, signalVars, flagVars, countVars,
     outVars
<1>15. CASE DirectEos
  BY <1>15 DEF DirectEos, StreamIdle, threadVars, queueVars, signalVars, flagVars, countVars
<1>16. CASE DirectSegment
  BY <1>16 DEF DirectSegment, StreamIdle, threadVars, queueVars, signalVars, flagVars, countVars
<1>17. CASE ThreadEnter
  BY <1>17 DEF ThreadEnter, streamVars, queueVars, signalVars, flagVars, countVars, outVars
<1>18. CASE ThreadTerminates
  BY <1>18 DEF ThreadTerminates, FreeSamples, streamVars, signalVars, flagVars, countVars, outVars
<1>19. CASE ThreadLoop
  BY <1>19 DEF ThreadLoop, FreeSamples, TakeBatch, IsData, streamVars, flagVars, countVars,
     outVars
<1>20. CASE ThreadWakes
  BY <1>20 DEF ThreadWakes, streamVars, queueVars, flagVars, countVars, outVars
<1>21. CASE ThreadSend
  BY <1>21 DEF ThreadSend, streamVars, queueVars, signalVars, flagVars, countVars, outVars
<1>22. CASE ThreadResult
  BY <1>22 DEF ThreadResult, StickyResult, streamVars, queueVars, signalVars, countVars, outVars
<1>23. CASE ThreadNext
  BY <1>23 DEF ThreadNext, ThreadTop, streamVars, queueVars, signalVars, flagVars, countVars,
     outVars
<1>24. CASE ThreadEos
  BY <1>24 DEF ThreadEos, ThreadTop, streamVars, queueVars, signalVars, flagVars, countVars,
     outVars
<1>25. CASE ThreadEosSent
  BY <1>25 DEF ThreadEosSent, ThreadTop, streamVars, queueVars, signalVars, flagVars, countVars
<1>26. CASE ThreadSegment
  BY <1>26 DEF ThreadSegment, ThreadTop, streamVars, queueVars, signalVars, flagVars, countVars
<1>27. CASE ThreadReset
  BY <1>27 DEF ThreadReset, Resets, streamVars, queueVars, signalVars, countVars, outVars
<1>28. CASE ThreadResetDone
  BY <1>28 DEF ThreadResetDone, ThreadTop, streamVars, queueVars, flagVars, countVars, outVars
<1>29. CASE \E res \in Results : \E k \in 0 .. MaxAtOnce + mode.size : DirectReturns(k, res)
  BY <1>29 DEF DirectReturns, threadVars, signalVars, countVars
<1>30. CASE \E res \in Results : \E k \in 0 .. MaxAtOnce + mode.size : ThreadReturns(k, res)
  BY <1>30 DEF ThreadReturns, streamVars, queueVars, signalVars, flagVars, countVars
<1>31. CASE BeginFlush
  BY <1>31 DEF BeginFlush, FirstOfBeginFlush, streamVars, threadVars, queueVars, signalVars,
     flagVars, countVars, outVars
<1>32. CASE EndFlush
  BY <1>32 DEF EndFlush, streamVars, threadVars, queueVars, signalVars, outVars
<1>33. CASE Destroy
  BY <1>33 DEF Destroy, FreeSamples, NotifyThread, streamVars, threadVars, queueVars, countVars,
     outVars
<1>34. CASE BeginFlushLocked
  BY <1>34 DEF BeginFlushLocked, ResetEvent, NotifyThread, streamVars, threadVars, queueVars,
     signalVars, countVars, outVars
<1>35. CASE BeginFlushDownstream
  BY <1>35 DEF BeginFlushDownstream, streamVars, threadVars, queueVars, signalVars, flagVars,
     countVars
<1>36. CASE EndFlushWait
  BY <1>36 DEF EndFlushWait, streamVars, threadVars, queueVars, flagVars, countVars, outVars
<1>37. CASE EndFlushFree
  BY <1>37 DEF EndFlushFree, FreeSamples, streamVars, threadVars, signalVars, flagVars, countVars,
     outVars
<1>38. CASE EndFlushClear
  BY <1>38 DEF EndFlushClear, streamVars, threadVars, queueVars, signalVars, countVars, outVars
<1>39. CASE EndFlushDownstream
  BY <1>39 DEF EndFlushDownstream, streamVars, threadVars, queueVars, signalVars, flagVars,
     countVars
<1>40. CASE EndFlushDone
  BY <1>40 DEF EndFlushDone, streamVars, threadVars, queueVars, signalVars, outVars
<1>41. CASE DestroyJoined
  BY <1>41 DEF DestroyJoined, streamVars, threadVars, queueVars, signalVars, flagVars, countVars,
     outVars
<1>42. CASE UNCHANGED vars
  BY <1>42 DEF vars, streamVars, threadVars, queueVars, signalVars, flagVars, countVars, outVars
<1> QED
  BY <1>1, <1>2, <1>3, <1>4, <1>5, <1>6, <1>7, <1>8, <1>9, <1>10, <1>11, <1>12, <1>13, <1>14,
     <1>15, <1>16, <1>17, <1>18, <1>19, <1>20, <1>21, <1>22, <1>23, <1>24, <1>25, <1>26, <1>27,
     <1>28, <1>29, <1>30, <1>31, <1>32, <1>33, <1>34, <1>35, <1>36, <1>37, <1>38, <1>39, <1>40,
     <1>41, <1>42
     DEF Next, StreamCall, StreamStep, ThreadStep, DownstreamReturns, ControlCall, ControlStep,
        Destroyed

LEMMA StepThreadPlaces ==
    ASSUME ~ResetAndFlush, Inv, Flow, [Next]_vars
    PROVE  ThreadPlaces'
<1> USE DEF Inv, Flow, Values, ThreadPlaces, StreamPlaces, Control, Mode, Types, Resets, Free, NoPacket
<1>1. CASE \E k \in 1 .. MaxAtOnce : ReceiveQueued(k)
  BY <1>1 DEF ReceiveQueued, FlushedNoMore, MayCall, NotifyThread, streamVars, threadVars, outVars
<1>2. CASE \E k \in 1 .. MaxAtOnce : ReceiveDirect(k)
  BY <1>2 DEF ReceiveDirect, DirectCall, FlushedNoMore, MayCall, threadVars, queueVars,
     signalVars, outVars
<1>3. CASE EOSQueued
  BY <1>3 DEF EOSQueued, FlushedNoMore, Enqueue, MayCall, NotifyThread, streamVars, threadVars,
     outVars
<1>4. CASE EOSDirect
  BY <1>4 DEF EOSDirect, DirectCall, FlushedNoMore, MayCall, threadVars, queueVars, signalVars,
     outVars
<1>5. CASE SendAnywayQueued
  BY <1>5 DEF SendAnywayQueued, Enqueue, MayCall, NotifyThread, streamVars, threadVars, flagVars,
     countVars, outVars
<1>6. CASE SendAnywayDirect
  BY <1>6 DEF SendAnywayDirect, DirectCall, FlushedNoMore, MayCall, threadVars, queueVars,
     signalVars, outVars
<1>7. CASE NewSegmentQueued
  BY <1>7 DEF NewSegmentQueued, MayCall, threadVars, queueVars, signalVars, flagVars, outVars
<1>8. CASE NewSegmentDirect
  BY <1>8 DEF NewSegmentDirect, MayCall, threadVars, queueVars, signalVars, flagVars, outVars
<1>9. CASE ResetQueued
  BY <1>9 DEF ResetQueued, Enqueue, MayCall, NotifyThread, MayReset, threadVars, flagVars,
     countVars, outVars
<1>10. CASE ResetDirect
  BY <1>10 DEF ResetDirect, MayCall, MayReset, streamVars, threadVars, queueVars, signalVars,
     countVars, outVars
<1>11. CASE NewSegmentEnqueue
  BY <1>11 DEF NewSegmentEnqueue, StreamIdle, NotifyThread, threadVars, flagVars, countVars,
     outVars
<1>12. CASE ResetWait
  BY <1>12 DEF ResetWait, StreamIdle, threadVars, queueVars, flagVars, countVars, outVars
<1>13. CASE NewSegmentLock
  BY <1>13 DEF NewSegmentLock, FlushedNoMore, threadVars, queueVars, signalVars, countVars,
     outVars
<1>14. CASE DirectLoop
  BY <1>14 DEF DirectLoop, LoopEnds, StreamIdle, threadVars, signalVars, flagVars, countVars,
     outVars
<1>15. CASE DirectEos
  BY <1>15 DEF DirectEos, StreamIdle, threadVars, queueVars, signalVars, flagVars, countVars
<1>16. CASE DirectSegment
  BY <1>16 DEF DirectSegment, StreamIdle, threadVars, queueVars, signalVars, flagVars, countVars
<1>17. CASE ThreadEnter
  BY <1>17 DEF ThreadEnter, streamVars, queueVars, signalVars, flagVars, countVars, outVars
<1>18. CASE ThreadTerminates
  BY <1>18 DEF ThreadTerminates, FreeSamples, streamVars, signalVars, flagVars, countVars, outVars
<1>19. CASE ThreadLoop
  BY <1>19 DEF ThreadLoop, FreeSamples, TakeBatch, IsData, streamVars, flagVars, countVars,
     outVars
<1>20. CASE ThreadWakes
  BY <1>20 DEF ThreadWakes, streamVars, queueVars, flagVars, countVars, outVars
<1>21. CASE ThreadSend
  BY <1>21 DEF ThreadSend, streamVars, queueVars, signalVars, flagVars, countVars, outVars
<1>22. CASE ThreadResult
  BY <1>22 DEF ThreadResult, StickyResult, streamVars, queueVars, signalVars, countVars, outVars
<1>23. CASE ThreadNext
  BY <1>23 DEF ThreadNext, ThreadTop, streamVars, queueVars, signalVars, flagVars, countVars,
     outVars
<1>24. CASE ThreadEos
  BY <1>24 DEF ThreadEos, ThreadTop, streamVars, queueVars, signalVars, flagVars, countVars,
     outVars
<1>25. CASE ThreadEosSent
  BY <1>25 DEF ThreadEosSent, ThreadTop, streamVars, queueVars, signalVars, flagVars, countVars
<1>26. CASE ThreadSegment
  BY <1>26 DEF ThreadSegment, ThreadTop, streamVars, queueVars, signalVars, flagVars, countVars
<1>27. CASE ThreadReset
  BY <1>27 DEF ThreadReset, streamVars, queueVars, signalVars, countVars, outVars
<1>28. CASE ThreadResetDone
  BY <1>28 DEF ThreadResetDone, ThreadTop, streamVars, queueVars, flagVars, countVars, outVars
<1>29. CASE \E res \in Results : \E k \in 0 .. MaxAtOnce + mode.size : DirectReturns(k, res)
  BY <1>29 DEF DirectReturns, threadVars, signalVars, countVars
<1>30. CASE \E res \in Results : \E k \in 0 .. MaxAtOnce + mode.size : ThreadReturns(k, res)
  <2>1. PICK res \in Results, k \in 0 .. MaxAtOnce + mode.size : ThreadReturns(k, res)
    BY <1>30
  <2>2. res = "S_OK" => k = Len(sending)
    BY <2>1 DEF ThreadReturns, Downstream
  <2>3. sending' = SubSeq(sending, k + 1, Len(sending))
    BY <2>1 DEF ThreadReturns
  <2>4. hr' = "S_OK" => sending' = <<>>
    BY <2>1, <2>2, <2>3, SubSeqEmpty DEF ThreadReturns
  <2> QED
    BY <2>1, <2>4 DEF ThreadReturns, queueVars
<1>31. CASE BeginFlush
  BY <1>31 DEF BeginFlush, FirstOfBeginFlush, streamVars, threadVars, queueVars, signalVars,
     flagVars, countVars, outVars
<1>32. CASE EndFlush
  BY <1>32 DEF EndFlush, streamVars, threadVars, queueVars, signalVars, outVars
<1>33. CASE Destroy
  BY <1>33 DEF Destroy, FreeSamples, NotifyThread, streamVars, threadVars, queueVars, countVars,
     outVars
<1>34. CASE BeginFlushLocked
  BY <1>34 DEF BeginFlushLocked, ResetEvent, NotifyThread, streamVars, threadVars, queueVars,
     signalVars, countVars, outVars
<1>35. CASE BeginFlushDownstream
  BY <1>35 DEF BeginFlushDownstream, streamVars, threadVars, queueVars, signalVars, flagVars,
     countVars
<1>36. CASE EndFlushWait
  BY <1>36 DEF EndFlushWait, streamVars, threadVars, queueVars, flagVars, countVars, outVars
<1>37. CASE EndFlushFree
  BY <1>37 DEF EndFlushFree, FreeSamples, streamVars, threadVars, signalVars, flagVars, countVars,
     outVars
<1>38. CASE EndFlushClear
  BY <1>38 DEF EndFlushClear, streamVars, threadVars, queueVars, signalVars, countVars, outVars
<1>39. CASE EndFlushDownstream
  BY <1>39 DEF EndFlushDownstream, streamVars, threadVars, queueVars, signalVars, flagVars,
     countVars
<1>40. CASE EndFlushDone
  BY <1>40 DEF EndFlushDone, streamVars, threadVars, queueVars, signalVars, outVars
<1>41. CASE DestroyJoined
  BY <1>41 DEF DestroyJoined, streamVars, threadVars, queueVars, signalVars, flagVars, countVars,
     outVars
<1>42. CASE UNCHANGED vars
  BY <1>42 DEF vars, streamVars, threadVars, queueVars, signalVars, flagVars, countVars, outVars
<1> QED
  BY <1>1, <1>2, <1>3, <1>4, <1>5, <1>6, <1>7, <1>8, <1>9, <1>10, <1>11, <1>12, <1>13, <1>14,
     <1>15, <1>16, <1>17, <1>18, <1>19, <1>20, <1>21, <1>22, <1>23, <1>24, <1>25, <1>26, <1>27,
     <1>28, <1>29, <1>30, <1>31, <1>32, <1>33, <1>34, <1>35, <1>36, <1>37, <1>38, <1>39, <1>40,
     <1>41, <1>42
     DEF Next, StreamCall, StreamStep, ThreadStep, DownstreamReturns, ControlCall, ControlStep,
        Destroyed

LEMMA StepStreamPlaces ==
    ASSUME ~ResetAndFlush, Inv, Flow, [Next]_vars
    PROVE  StreamPlaces'
<1> USE DEF Inv, Flow, Values, StreamPlaces, Control, Mode, Types, Free
<1>1. CASE \E k \in 1 .. MaxAtOnce : ReceiveQueued(k)
  BY <1>1 DEF ReceiveQueued, FlushedNoMore, MayCall, NotifyThread, streamVars, threadVars, outVars
<1>2. CASE \E k \in 1 .. MaxAtOnce : ReceiveDirect(k)
  BY <1>2 DEF ReceiveDirect, DirectCall, FlushedNoMore, MayCall, threadVars, queueVars,
     signalVars, outVars
<1>3. CASE EOSQueued
  BY <1>3 DEF EOSQueued, FlushedNoMore, Enqueue, MayCall, NotifyThread, streamVars, threadVars,
     outVars
<1>4. CASE EOSDirect
  BY <1>4, NewItems DEF EOSDirect, DirectCall, FlushedNoMore, MayCall, threadVars, queueVars
<1>5. CASE SendAnywayQueued
  BY <1>5 DEF SendAnywayQueued, Enqueue, MayCall, NotifyThread, streamVars, threadVars, flagVars,
     countVars, outVars
<1>6. CASE SendAnywayDirect
  BY <1>6 DEF SendAnywayDirect, DirectCall, FlushedNoMore, MayCall, threadVars, queueVars,
     signalVars, outVars
<1>7. CASE NewSegmentQueued
  <2>1. Len(New("segment", 1)) = 1 /\ New("segment", 1)[1].kind = "segment"
    BY OneNew
  <2> QED BY <1>7, <2>1 DEF NewSegmentQueued, MayCall, threadVars, queueVars, signalVars, flagVars, outVars
<1>8. CASE NewSegmentDirect
  <2>1. Len(New("segment", 1)) = 1 /\ New("segment", 1)[1].kind = "segment"
    BY OneNew
  <2> QED BY <1>8, <2>1 DEF NewSegmentDirect, MayCall, threadVars, queueVars, signalVars, flagVars, outVars
<1>9. CASE ResetQueued
  BY <1>9 DEF ResetQueued, Enqueue, MayCall, NotifyThread, MayReset, threadVars, flagVars,
     countVars, outVars
<1>10. CASE ResetDirect
  BY <1>10 DEF ResetDirect, MayCall, MayReset, streamVars, threadVars, queueVars, signalVars,
     countVars, outVars
<1>11. CASE NewSegmentEnqueue
  BY <1>11 DEF NewSegmentEnqueue, StreamIdle, NotifyThread, threadVars, flagVars, countVars,
     outVars
<1>12. CASE ResetWait
  BY <1>12 DEF ResetWait, StreamIdle, threadVars, queueVars, flagVars, countVars, outVars
<1>13. CASE NewSegmentLock
  BY <1>13 DEF NewSegmentLock, FlushedNoMore, threadVars, queueVars, signalVars, countVars,
     outVars
<1>14. CASE DirectLoop
  <2>1. CASE op = "Receive" /\ args # <<>>
    <3>1. /\ UNCHANGED <<op, m_hr, mode>> /\ spc' \in {"loop", "deliver"}
          /\ spc' = "deliver" => m_hr = "S_OK" /\ m_ppSamples' = Append(m_ppSamples, Head(args))
      BY <1>14, <2>1 DEF DirectLoop, flagVars
    <3>2. Append(m_ppSamples, Head(args)) # <<>>
      BY <2>1, HeadAndTail, AppendProperties
    <3> QED BY <1>14, <2>1, <3>1, <3>2 DEF DirectLoop
  <2>2. CASE ~(op = "Receive" /\ args # <<>>)
    <3>1. /\ UNCHANGED <<m_hr, mode>>
          /\ \/ LoopEnds /\ ~(SendsAnyway /\ (op # "EOS" \/ mode.exact) /\ m_ppSamples # <<>>)
             \/ /\ UNCHANGED <<op, args>> /\ spc' \in {"loop", "deliver"}
                /\ spc' = "deliver" => m_hr = "S_OK" /\ m_ppSamples' # <<>>
      BY <1>14, <2>2 DEF DirectLoop, flagVars
    <3>2. mode.size = 1 => m_ppSamples = <<>>
      BY <1>14, EmptySeq DEF DirectLoop
    <3> QED BY <1>14, <2>2, <3>1, <3>2 DEF DirectLoop, LoopEnds, StreamIdle, SendsAnyway
  <2> QED BY <2>1, <2>2
<1>15. CASE DirectEos
  BY <1>15 DEF DirectEos, StreamIdle, threadVars, queueVars, signalVars, flagVars, countVars
<1>16. CASE DirectSegment
  BY <1>16 DEF DirectSegment, StreamIdle, threadVars, queueVars, signalVars, flagVars, countVars
<1>17. CASE ThreadEnter
  BY <1>17 DEF ThreadEnter, streamVars, queueVars, signalVars, flagVars, countVars, outVars
<1>18. CASE ThreadTerminates
  BY <1>18 DEF ThreadTerminates, FreeSamples, streamVars, signalVars, flagVars, countVars, outVars
<1>19. CASE ThreadLoop
  BY <1>19 DEF ThreadLoop, FreeSamples, TakeBatch, IsData, streamVars, flagVars, countVars,
     outVars
<1>20. CASE ThreadWakes
  BY <1>20 DEF ThreadWakes, streamVars, queueVars, flagVars, countVars, outVars
<1>21. CASE ThreadSend
  BY <1>21 DEF ThreadSend, streamVars, queueVars, signalVars, flagVars, countVars, outVars
<1>22. CASE ThreadResult
  BY <1>22 DEF ThreadResult, StickyResult, streamVars, queueVars, signalVars, countVars, outVars
<1>23. CASE ThreadNext
  BY <1>23 DEF ThreadNext, ThreadTop, streamVars, queueVars, signalVars, flagVars, countVars,
     outVars
<1>24. CASE ThreadEos
  BY <1>24 DEF ThreadEos, ThreadTop, streamVars, queueVars, signalVars, flagVars, countVars,
     outVars
<1>25. CASE ThreadEosSent
  BY <1>25 DEF ThreadEosSent, ThreadTop, streamVars, queueVars, signalVars, flagVars, countVars
<1>26. CASE ThreadSegment
  BY <1>26 DEF ThreadSegment, ThreadTop, streamVars, queueVars, signalVars, flagVars, countVars
<1>27. CASE ThreadReset
  BY <1>27 DEF ThreadReset, Resets, streamVars, queueVars, signalVars, countVars, outVars
<1>28. CASE ThreadResetDone
  BY <1>28 DEF ThreadResetDone, ThreadTop, streamVars, queueVars, flagVars, countVars, outVars
<1>29. CASE \E res \in Results : \E k \in 0 .. MaxAtOnce + mode.size : DirectReturns(k, res)
  BY <1>29 DEF DirectReturns, threadVars, signalVars, countVars
<1>30. CASE \E res \in Results : \E k \in 0 .. MaxAtOnce + mode.size : ThreadReturns(k, res)
  BY <1>30 DEF ThreadReturns, streamVars, queueVars, signalVars, flagVars, countVars
<1>31. CASE BeginFlush
  BY <1>31 DEF BeginFlush, FirstOfBeginFlush, streamVars, threadVars, queueVars, signalVars,
     flagVars, countVars, outVars
<1>32. CASE EndFlush
  BY <1>32 DEF EndFlush, streamVars, threadVars, queueVars, signalVars, outVars
<1>33. CASE Destroy
  BY <1>33 DEF Destroy, FreeSamples, NotifyThread, streamVars, threadVars, queueVars, countVars,
     outVars
<1>34. CASE BeginFlushLocked
  BY <1>34 DEF BeginFlushLocked, ResetEvent, NotifyThread, streamVars, threadVars, queueVars,
     signalVars, countVars, outVars
<1>35. CASE BeginFlushDownstream
  BY <1>35 DEF BeginFlushDownstream, streamVars, threadVars, queueVars, signalVars, flagVars,
     countVars
<1>36. CASE EndFlushWait
  BY <1>36 DEF EndFlushWait, streamVars, threadVars, queueVars, flagVars, countVars, outVars
<1>37. CASE EndFlushFree
  BY <1>37 DEF EndFlushFree, FreeSamples, streamVars, threadVars, signalVars, flagVars, countVars,
     outVars
<1>38. CASE EndFlushClear
  BY <1>38 DEF EndFlushClear, streamVars, threadVars, queueVars, signalVars, countVars, outVars
<1>39. CASE EndFlushDownstream
  BY <1>39 DEF EndFlushDownstream, streamVars, threadVars, queueVars, signalVars, flagVars,
     countVars
<1>40. CASE EndFlushDone
  BY <1>40 DEF EndFlushDone, streamVars, threadVars, queueVars, signalVars, outVars
<1>41. CASE DestroyJoined
  BY <1>41 DEF DestroyJoined, streamVars, threadVars, queueVars, signalVars, flagVars, countVars,
     outVars
<1>42. CASE UNCHANGED vars
  BY <1>42 DEF vars, streamVars, threadVars, queueVars, signalVars, flagVars, countVars, outVars
<1> QED
  BY <1>1, <1>2, <1>3, <1>4, <1>5, <1>6, <1>7, <1>8, <1>9, <1>10, <1>11, <1>12, <1>13, <1>14,
     <1>15, <1>16, <1>17, <1>18, <1>19, <1>20, <1>21, <1>22, <1>23, <1>24, <1>25, <1>26, <1>27,
     <1>28, <1>29, <1>30, <1>31, <1>32, <1>33, <1>34, <1>35, <1>36, <1>37, <1>38, <1>39, <1>40,
     <1>41, <1>42
     DEF Next, StreamCall, StreamStep, ThreadStep, DownstreamReturns, ControlCall, ControlStep,
        Destroyed

LEMMA StepValues ==
    ASSUME ~ResetAndFlush, Inv, Flow, [Next]_vars
    PROVE  Values'
<1> USE DEF Inv, Flow, Values, StreamPlaces, Control, Mode, Types, Results, Free
<1>1. CASE \E k \in 1 .. MaxAtOnce : ReceiveQueued(k)
  BY <1>1 DEF ReceiveQueued, FlushedNoMore, MayCall, NotifyThread, streamVars, threadVars, outVars
<1>2. CASE \E k \in 1 .. MaxAtOnce : ReceiveDirect(k)
  BY <1>2 DEF ReceiveDirect, DirectCall, FlushedNoMore, MayCall, threadVars, queueVars,
     signalVars, outVars
<1>3. CASE EOSQueued
  BY <1>3 DEF EOSQueued, FlushedNoMore, Enqueue, MayCall, NotifyThread, streamVars, threadVars,
     outVars
<1>4. CASE EOSDirect
  BY <1>4 DEF EOSDirect, DirectCall, FlushedNoMore, MayCall, threadVars, queueVars, signalVars,
     outVars
<1>5. CASE SendAnywayQueued
  BY <1>5 DEF SendAnywayQueued, Enqueue, MayCall, NotifyThread, streamVars, threadVars, flagVars,
     countVars, outVars
<1>6. CASE SendAnywayDirect
  BY <1>6 DEF SendAnywayDirect, DirectCall, FlushedNoMore, MayCall, threadVars, queueVars,
     signalVars, outVars
<1>7. CASE NewSegmentQueued
  BY <1>7 DEF NewSegmentQueued, MayCall, threadVars, queueVars, signalVars, flagVars, outVars
<1>8. CASE NewSegmentDirect
  BY <1>8 DEF NewSegmentDirect, MayCall, threadVars, queueVars, signalVars, flagVars, outVars
<1>9. CASE ResetQueued
  BY <1>9 DEF ResetQueued, Enqueue, MayCall, NotifyThread, MayReset, threadVars, flagVars,
     countVars, outVars
<1>10. CASE ResetDirect
  BY <1>10 DEF ResetDirect, MayCall, MayReset, streamVars, threadVars, queueVars, signalVars,
     countVars, outVars
<1>11. CASE NewSegmentEnqueue
  BY <1>11 DEF NewSegmentEnqueue, StreamIdle, NotifyThread, threadVars, flagVars, countVars,
     outVars
<1>12. CASE ResetWait
  BY <1>12 DEF ResetWait, StreamIdle, threadVars, queueVars, flagVars, countVars, outVars
<1>13. CASE NewSegmentLock
  BY <1>13 DEF NewSegmentLock, FlushedNoMore, threadVars, queueVars, signalVars, countVars,
     outVars
<1>14. CASE DirectLoop
  BY <1>14 DEF DirectLoop, LoopEnds, StreamIdle, threadVars, signalVars, flagVars, countVars,
     outVars
<1>15. CASE DirectEos
  BY <1>15 DEF DirectEos, StreamIdle, threadVars, queueVars, signalVars, flagVars, countVars
<1>16. CASE DirectSegment
  BY <1>16 DEF DirectSegment, StreamIdle, threadVars, queueVars, signalVars, flagVars, countVars
<1>17. CASE ThreadEnter
  BY <1>17 DEF ThreadEnter, streamVars, queueVars, signalVars, flagVars, countVars, outVars
<1>18. CASE ThreadTerminates
  BY <1>18 DEF ThreadTerminates, FreeSamples, streamVars, signalVars, flagVars, countVars, outVars
<1>19. CASE ThreadLoop
  <2> DEFINE q == IF m_bFlushing THEN FreeSamples ELSE [list |-> m_List, batch |-> m_ppSamples]
             first == IF q.list = <<>> THEN NoPacket ELSE Head(q.list)
             batch == IF IsData(first) THEN Append(q.batch, first) ELSE q.batch
  <2>1. q.list \in Seq(Packets) /\ q.batch \in Seq(Packets) /\ Len(q.batch) < mode.size
    BY <1>19, EmptySeq DEF FreeSamples, ThreadLoop
  <2>2. first \in Packets \/ (first = NoPacket /\ ~IsData(first))
    BY <2>1, HeadAndTail, PacketKinds DEF IsData
  <2>3. batch \in Seq(Packets) /\ Len(batch) <= mode.size /\ (~IsData(first) => Len(batch) < mode.size)
    BY <2>1, <2>2, AppendProperties
  <2>4. /\ m_ppSamples' = <<>> \/ (m_ppSamples' = batch /\ (Len(batch) < mode.size \/ first = Send \/ first = NoPacket))
        /\ sending' = batch \/ sending' = sending
    BY <1>19, Zenon DEF ThreadLoop, TakeBatch
  <2>5. Len(m_ppSamples') < mode.size /\ Len(sending') <= mode.size
    <3>1. (first = Send \/ first = NoPacket) => ~IsData(first)
      BY PacketKinds DEF IsData
    <3>2. mode.size \in Nat /\ mode.size > 0 /\ Len(<<>>) = 0 /\ Len(sending) <= mode.size
      BY <1>19, EmptySeq
    <3>3. Len(m_ppSamples') < mode.size
      BY <2>3, <2>4, <3>1, <3>2
    <3> QED BY <2>3, <2>4, <3>2, <3>3
  <2>6. UNCHANGED <<mode, hr, flagVars, downFlushing, spc>> /\ m_evFlushComplete' \in BOOLEAN
    BY <1>19 DEF ThreadLoop, streamVars, outVars
  <2> QED BY <2>5, <2>6 DEF flagVars
<1>20. CASE ThreadWakes
  BY <1>20 DEF ThreadWakes, streamVars, queueVars, flagVars, countVars, outVars
<1>21. CASE ThreadSend
  BY <1>21 DEF ThreadSend, streamVars, queueVars, signalVars, flagVars, countVars, outVars
<1>22. CASE ThreadResult
  BY <1>22 DEF ThreadResult, StickyResult, streamVars, queueVars, signalVars, countVars, outVars
<1>23. CASE ThreadNext
  BY <1>23 DEF ThreadNext, ThreadTop, streamVars, queueVars, signalVars, flagVars, countVars,
     outVars
<1>24. CASE ThreadEos
  BY <1>24 DEF ThreadEos, ThreadTop, streamVars, queueVars, signalVars, flagVars, countVars,
     outVars
<1>25. CASE ThreadEosSent
  BY <1>25 DEF ThreadEosSent, ThreadTop, streamVars, queueVars, signalVars, flagVars, countVars
<1>26. CASE ThreadSegment
  BY <1>26 DEF ThreadSegment, ThreadTop, streamVars, queueVars, signalVars, flagVars, countVars
<1>27. CASE ThreadReset
  BY <1>27 DEF ThreadReset, Resets, streamVars, queueVars, signalVars, countVars, outVars
<1>28. CASE ThreadResetDone
  BY <1>28 DEF ThreadResetDone, ThreadTop, streamVars, queueVars, flagVars, countVars, outVars
<1>29. CASE \E res \in Results : \E k \in 0 .. MaxAtOnce + mode.size : DirectReturns(k, res)
  BY <1>29 DEF DirectReturns, threadVars, signalVars, countVars
<1>30. CASE \E res \in Results : \E k \in 0 .. MaxAtOnce + mode.size : ThreadReturns(k, res)
  BY <1>30 DEF ThreadReturns, streamVars, queueVars, signalVars, flagVars, countVars
<1>31. CASE BeginFlush
  BY <1>31 DEF BeginFlush, FirstOfBeginFlush, streamVars, threadVars, queueVars, signalVars,
     flagVars, countVars, outVars
<1>32. CASE EndFlush
  BY <1>32 DEF EndFlush, streamVars, threadVars, queueVars, signalVars, outVars
<1>33. CASE Destroy
  <2>1. m_ppSamples' \in {m_ppSamples, <<>>} /\ m_hr' \in {m_hr, "S_FALSE"} /\ m_bTerminate' \in BOOLEAN
    BY <1>33 DEF Destroy, FreeSamples, queueVars
  <2>2. UNCHANGED <<mode, hr, m_bFlushing, m_bFlushed, m_evFlushComplete, downFlushing, sending, spc>>
    BY <1>33 DEF Destroy, streamVars, threadVars, outVars
  <2>3. Len(m_ppSamples') < mode.size
    BY <1>33, <2>1, EmptySeq DEF Destroy
  <2> QED BY <2>1, <2>2, <2>3
<1>34. CASE BeginFlushLocked
  BY <1>34 DEF BeginFlushLocked, ResetEvent, NotifyThread, streamVars, threadVars, queueVars,
     signalVars, countVars, outVars
<1>35. CASE BeginFlushDownstream
  BY <1>35 DEF BeginFlushDownstream, streamVars, threadVars, queueVars, signalVars, flagVars,
     countVars
<1>36. CASE EndFlushWait
  BY <1>36 DEF EndFlushWait, streamVars, threadVars, queueVars, flagVars, countVars, outVars
<1>37. CASE EndFlushFree
  BY <1>37 DEF EndFlushFree, FreeSamples, streamVars, threadVars, signalVars, flagVars, countVars,
     outVars
<1>38. CASE EndFlushClear
  BY <1>38 DEF EndFlushClear, streamVars, threadVars, queueVars, signalVars, countVars, outVars
<1>39. CASE EndFlushDownstream
  BY <1>39 DEF EndFlushDownstream, streamVars, threadVars, queueVars, signalVars, flagVars,
     countVars
<1>40. CASE EndFlushDone
  BY <1>40 DEF EndFlushDone, streamVars, threadVars, queueVars, signalVars, outVars
<1>41. CASE DestroyJoined
  BY <1>41 DEF DestroyJoined, streamVars, threadVars, queueVars, signalVars, flagVars, countVars,
     outVars
<1>42. CASE UNCHANGED vars
  BY <1>42 DEF vars, streamVars, threadVars, queueVars, signalVars, flagVars, countVars, outVars
<1> QED
  BY <1>1, <1>2, <1>3, <1>4, <1>5, <1>6, <1>7, <1>8, <1>9, <1>10, <1>11, <1>12, <1>13, <1>14,
     <1>15, <1>16, <1>17, <1>18, <1>19, <1>20, <1>21, <1>22, <1>23, <1>24, <1>25, <1>26, <1>27,
     <1>28, <1>29, <1>30, <1>31, <1>32, <1>33, <1>34, <1>35, <1>36, <1>37, <1>38, <1>39, <1>40,
     <1>41, <1>42
     DEF Next, StreamCall, StreamStep, ThreadStep, DownstreamReturns, ControlCall, ControlStep,
        Destroyed

-----------------------------------------------------------------------------
LEMMA FlowKept ==
    ASSUME ~ResetAndFlush, Inv, Flow, [Next]_vars
    PROVE  Flow'
BY StepStocked, StepValues, StepThreadPlaces, StepStreamPlaces, StepClosing DEF Flow

\* What the queue has in hand is where the code expects it, always.
THEOREM FlowInvariance ==
    ASSUME ~ResetAndFlush
    PROVE  Spec => [](Inv /\ Flow)
<1>1. Init => Inv /\ Flow
  BY InitInv, InitFlow
<1>2. Inv /\ Flow /\ [Next]_vars => (Inv /\ Flow)'
  BY FlowKept, StepTypes, StepControl, StepDrain, StepResets, StepSignals, StepWaits, StepShort DEF Inv
<1> QED
  BY <1>1, <1>2, PTL DEF Spec

\* The variables have their types, the batches fit, and the critical section is
\* held only in the loops of ReceiveMultiple and of the thread.
THEOREM QueueTypes ==
    ASSUME ~ResetAndFlush
    PROVE  Spec => []TypeOK
<1>1. ASSUME Inv, Flow PROVE TypeOK
  <2>1. Seen \subseteq Items /\ Seen \cup Commands \subseteq Items \cup {Send, ResetMsg}
    BY <1>1, OutputQueueAssumption DEF Flow, Stocked, Seen, Items, Commands
  <2>2. m_List \in Seq(Items \cup {Send, ResetMsg}) /\ m_ppSamples \in Seq(Items)
    BY <1>1, <2>1, SeqMonotonic DEF Flow, Stocked
  <2>3. /\ m_lWaiting \in 0 .. 1 /\ m_hSem \in 0 .. 1
        /\ (lock = "thread") = (qpc = "loop")
        /\ (lock = "stream") = (spc \in {"loop", "deliver", "eos"})
    BY <1>1 DEF Inv, Signals, Control
  <2>4. /\ mode \in Modes /\ m_evFlushComplete \in BOOLEAN /\ m_hr \in Results /\ hr \in Results
        /\ {m_bFlushing, m_bFlushed, m_bTerminate, downFlushing} \subseteq BOOLEAN
        /\ Len(m_ppSamples) <= mode.size /\ Len(sending) <= mode.size
    BY <1>1 DEF Flow, Values
  <2> QED
    BY <2>2, <2>3, <2>4 DEF TypeOK
<1> QED
  BY <1>1, FlowInvariance, PTL
-----------------------------------------------------------------------------
(* What Sift computes, by induction: a set of numbers that has no least     *)
(* number without its successor has them all.                               *)

LEMMA FromZero ==
    ASSUME NEW T, 0 \in T, \A n \in Nat : n \in T => n + 1 \in T
    PROVE  \A n \in Nat : n \in T
<1> DEFINE Rest == {n \in Nat : n \notin T}
<1> SUFFICES ASSUME Rest # {} PROVE FALSE
  OBVIOUS
<1>1. IsWellFoundedOn(OpToRel(<, Nat), Nat)
  BY NatLessThanWellFounded
<1>2. Rest \subseteq Nat
  OBVIOUS
<1>3. PICK x \in Rest : \A y \in Rest : ~(<<y, x>> \in OpToRel(<, Nat))
  <2> HIDE DEF Rest
  <2> QED BY <1>1, <1>2, WFMin
<1>4. x \in Nat /\ x \notin T /\ x # 0
  BY <1>3
<1>5. x - 1 \in Nat /\ x - 1 < x /\ (x - 1) + 1 = x
  BY <1>4
<1>6. x - 1 \notin Rest
  BY <1>3, <1>4, <1>5 DEF OpToRel
<1> QED BY <1>4, <1>5, <1>6

\* f is what Sift goes through for the first n packets of a list.
Passes(list, n, f) ==
    f = [i \in 0 .. n |->
            IF i = 0 THEN <<>>
            ELSE IF list[i] \in Items THEN Append(f[i - 1], list[i]) ELSE f[i - 1]]

LEMMA PassExists ==
    ASSUME NEW list, NEW n \in Nat
    PROVE  \E f : Passes(list, n, f)
<1> DEFINE T == {m \in Nat : \E f : Passes(list, m, f)}
<1>1. 0 \in T
  <2> DEFINE f == [i \in 0 .. 0 |-> <<>>]
  <2>1. Passes(list, 0, f)
    BY DEF Passes
  <2> QED BY <2>1
<1>2. ASSUME NEW m \in Nat, m \in T PROVE m + 1 \in T
  <2>1. PICK f : Passes(list, m, f)
    BY <1>2
  <2> DEFINE next == IF list[m + 1] \in Items THEN Append(f[m], list[m + 1]) ELSE f[m]
             g == [i \in 0 .. m + 1 |-> IF i = m + 1 THEN next ELSE f[i]]
  <2>2. ASSUME NEW i \in 0 .. m + 1
        PROVE  g[i] = IF i = 0 THEN <<>>
                      ELSE IF list[i] \in Items THEN Append(g[i - 1], list[i]) ELSE g[i - 1]
    <3>1. CASE i = m + 1
      BY <3>1
    <3>2. CASE i \in 0 .. m
      <4>1. f[i] = IF i = 0 THEN <<>>
                   ELSE IF list[i] \in Items THEN Append(f[i - 1], list[i]) ELSE f[i - 1]
        BY <2>1, <3>2 DEF Passes
      <4>2. g[i] = f[i] /\ (i # 0 => g[i - 1] = f[i - 1])
        BY <3>2
      <4> QED BY <4>1, <4>2
    <3> QED BY <3>1, <3>2
  <2>3. Passes(list, m + 1, g)
    <3>1. g = [i \in 0 .. m + 1 |-> g[i]]
      OBVIOUS
    <3> HIDE DEF g
    <3> QED BY <2>2, <3>1 DEF Passes
  <2> QED BY <2>3
<1> HIDE DEF T
<1>3. n \in T
  BY <1>1, <1>2, FromZero
<1> QED BY <1>3 DEF T

LEMMA SiftIsPass ==
    ASSUME NEW S, NEW list \in Seq(S)
    PROVE  \E f : Passes(list, Len(list), f) /\ Sift(list) = f[Len(list)]
<1>1. \E f : Passes(list, Len(list), f)
  BY PassExists
<1>2. Sift(list) = (CHOOSE f : Passes(list, Len(list), f))[Len(list)]
  BY DEF Sift, Passes
<1> QED BY <1>1, <1>2

LEMMA PassStep ==
    ASSUME NEW list, NEW n \in Nat, NEW f, Passes(list, n, f)
    PROVE  /\ f[0] = <<>>
           /\ \A i \in 0 .. n - 1 :
                 f[i + 1] = IF list[i + 1] \in Items THEN Append(f[i], list[i + 1]) ELSE f[i]
<1> DEFINE Step(i) == IF list[i] \in Items THEN Append(f[i - 1], list[i]) ELSE f[i - 1]
<1>1. f = [i \in 0 .. n |-> IF i = 0 THEN <<>> ELSE Step(i)]
  BY DEF Passes
<1>2. ASSUME NEW i \in 0 .. n - 1 PROVE f[i + 1] = Step(i + 1)
  <2>1. i + 1 \in 0 .. n /\ i + 1 # 0
    OBVIOUS
  <2> HIDE DEF Step
  <2> QED BY <1>1, <2>1
<1>3. f[0] = <<>>
  BY <1>1
<1> QED BY <1>2, <1>3

\* Lists that begin with the same n packets.
LEMMA PassAgree ==
    ASSUME NEW n \in Nat, NEW k \in Nat, n <= k,
           NEW s, NEW t, NEW f, NEW g, Passes(s, k, f), Passes(t, n, g),
           \A i \in 1 .. n : s[i] = t[i]
    PROVE  f[n] = g[n]
<1> DEFINE T == {i \in Nat : i <= n => f[i] = g[i]}
<1>1. 0 \in T
  BY PassStep
<1>2. ASSUME NEW i \in Nat, i \in T PROVE i + 1 \in T
  <2> SUFFICES ASSUME i + 1 <= n PROVE f[i + 1] = g[i + 1]
    OBVIOUS
  <2>1. f[i] = g[i] /\ s[i + 1] = t[i + 1]
    BY <1>2
  <2>2. i \in 0 .. k - 1 /\ i \in 0 .. n - 1
    OBVIOUS
  <2>3. /\ f[i + 1] = IF s[i + 1] \in Items THEN Append(f[i], s[i + 1]) ELSE f[i]
        /\ g[i + 1] = IF t[i + 1] \in Items THEN Append(g[i], t[i + 1]) ELSE g[i]
    BY <2>2, PassStep
  <2> QED BY <2>1, <2>3
<1> HIDE DEF T
<1>3. n \in T
  BY <1>1, <1>2, FromZero
<1> QED BY <1>3 DEF T

LEMMA PassType ==
    ASSUME NEW S, NEW X, X \cap Items \subseteq S, NEW n \in Nat, NEW s, NEW f, Passes(s, n, f),
           \A i \in 1 .. n : s[i] \in X, NEW j \in 0 .. n
    PROVE  f[j] \in Seq(S)
<1> DEFINE T == {i \in Nat : i <= n => f[i] \in Seq(S)}
<1>1. 0 \in T
  <2>1. f[0] = <<>>
    BY PassStep
  <2>2. <<>> \in Seq(S)
    BY EmptySeq
  <2> QED BY <2>1, <2>2
<1>2. ASSUME NEW i \in Nat, i \in T PROVE i + 1 \in T
  <2> SUFFICES ASSUME i + 1 <= n PROVE f[i + 1] \in Seq(S)
    OBVIOUS
  <2>1. f[i] \in Seq(S) /\ (s[i + 1] \in Items => s[i + 1] \in S)
    BY <1>2
  <2>2. i \in 0 .. n - 1
    OBVIOUS
  <2>3. f[i + 1] = IF s[i + 1] \in Items THEN Append(f[i], s[i + 1]) ELSE f[i]
    BY <2>2, PassStep
  <2> QED BY <2>1, <2>3, AppendProperties
<1> HIDE DEF T
<1>3. j \in T
  BY <1>1, <1>2, FromZero
<1> QED BY <1>3 DEF T

LEMMA SiftType ==
    ASSUME NEW S, NEW X, X \cap Items \subseteq S, NEW s \in Seq(X)
    PROVE  Sift(s) \in Seq(S)
<1>1. PICK f : Passes(s, Len(s), f) /\ Sift(s) = f[Len(s)]
  BY SiftIsPass
<1>2. Len(s) \in Nat /\ Len(s) \in 0 .. Len(s) /\ \A i \in 1 .. Len(s) : s[i] \in X
  BY ElementOfSeq
<1>3. f[Len(s)] \in Seq(S)
  BY <1>1, <1>2, PassType
<1> QED BY <1>1, <1>3

LEMMA SiftEmpty == Sift(<<>>) = <<>>
<1>1. PICK f : Passes(<<>>, Len(<<>>), f) /\ Sift(<<>>) = f[Len(<<>>)]
  BY SiftIsPass, EmptySeq
<1> QED BY <1>1, PassStep, EmptySeq

LEMMA SiftOne ==
    ASSUME NEW e
    PROVE  Sift(<<e>>) = IF e \in Items THEN <<e>> ELSE <<>>
<1>1. <<e>> \in Seq({e}) /\ Len(<<e>>) = 1 /\ <<e>>[1] = e
  OBVIOUS
<1>2. PICK f : Passes(<<e>>, 1, f) /\ Sift(<<e>>) = f[1]
  BY <1>1, SiftIsPass
<1>3. f[0] = <<>> /\ f[0 + 1] = IF e \in Items THEN Append(f[0], e) ELSE f[0]
  <2>1. 0 \in 0 .. 1 - 1
    OBVIOUS
  <2> QED BY <1>1, <1>2, <2>1, PassStep
<1>4. Append(<<>>, e) = <<e>>
  OBVIOUS
<1> QED BY <1>2, <1>3, <1>4

\* Concatenation, with a name the provers do not look behind.
Cat(s, t) == s \o t

LEMMA CatLaws ==
    ASSUME NEW S
    PROVE  /\ \A s, t, u \in Seq(S) : Cat(Cat(s, t), u) = Cat(s, Cat(t, u))
           /\ \A s, t \in Seq(S) : Cat(s, t) \in Seq(S)
<1>1. ASSUME NEW s \in Seq(S), NEW t \in Seq(S), NEW u \in Seq(S)
      PROVE  Cat(Cat(s, t), u) = Cat(s, Cat(t, u))
  BY ConcatAssociative DEF Cat
<1>2. ASSUME NEW s \in Seq(S), NEW t \in Seq(S) PROVE Cat(s, t) \in Seq(S)
  BY ConcatProperties DEF Cat
<1> QED BY <1>1, <1>2

LEMMA SiftOfConcat ==
    ASSUME NEW X, NEW s \in Seq(X), NEW t \in Seq(X)
    PROVE  Sift(s \o t) = Sift(s) \o Sift(t)
<1>1. /\ s \o t \in Seq(X) /\ Len(s \o t) = Len(s) + Len(t) /\ Len(s) \in Nat /\ Len(t) \in Nat
      /\ \A i \in 1 .. Len(s) : (s \o t)[i] = s[i] /\ s[i] \in X
      /\ \A i \in 1 .. Len(t) : (s \o t)[Len(s) + i] = t[i] /\ t[i] \in X
  BY ConcatProperties, ElementOfSeq
<1>2. PICK f : Passes(s \o t, Len(s) + Len(t), f) /\ Sift(s \o t) = f[Len(s) + Len(t)]
  BY <1>1, SiftIsPass
<1>3. PICK h : Passes(s, Len(s), h) /\ Sift(s) = h[Len(s)]
  BY SiftIsPass
<1>4. PICK g : Passes(t, Len(t), g) /\ Sift(t) = g[Len(t)]
  BY SiftIsPass
<1>5. f[Len(s)] = Sift(s)
  <2>1. Len(s) <= Len(s) + Len(t) /\ Len(s) \in Nat /\ Len(s) + Len(t) \in Nat
    BY <1>1
  <2>2. \A i \in 1 .. Len(s) : (s \o t)[i] = s[i]
    BY <1>1
  <2>3. f[Len(s)] = h[Len(s)]
    <3> DEFINE both == s \o t
               total == Len(s) + Len(t)
               n == Len(s)
    <3>1. n \in Nat /\ total \in Nat /\ n <= total /\ Passes(both, total, f) /\ Passes(s, n, h)
          /\ \A i \in 1 .. n : both[i] = s[i]
      BY <1>2, <1>3, <2>1, <2>2
    <3> HIDE DEF both, total, n
    <3>2. f[n] = h[n]
      BY <3>1, PassAgree
    <3> QED BY <3>2 DEF n
  <2> QED BY <1>3, <2>3
<1>6. Sift(s) \in Seq(X)
  BY SiftType
<1>7. ASSUME NEW j \in 0 .. Len(t) PROVE g[j] \in Seq(X)
  BY <1>1, <1>4, <1>7, PassType
<1> DEFINE T == {j \in Nat : j <= Len(t) => f[Len(s) + j] = Sift(s) \o g[j]}
<1>8. 0 \in T
  BY <1>1, <1>4, <1>5, <1>6, PassStep, ConcatEmptySeq
<1>9. ASSUME NEW j \in Nat, j \in T PROVE j + 1 \in T
  <2> SUFFICES ASSUME j + 1 <= Len(t) PROVE f[Len(s) + (j + 1)] = Sift(s) \o g[j + 1]
    OBVIOUS
  <2>1. f[Len(s) + j] = Sift(s) \o g[j] /\ g[j] \in Seq(X)
    BY <1>1, <1>7, <1>9
  <2>2. (s \o t)[Len(s) + (j + 1)] = t[j + 1] /\ t[j + 1] \in X
    BY <1>1
  <2>3. j \in 0 .. Len(t) - 1 /\ Len(s) + j \in 0 .. (Len(s) + Len(t)) - 1
        /\ (Len(s) + j) + 1 = Len(s) + (j + 1) /\ Len(s) + Len(t) \in Nat
    BY <1>1
  <2>4. g[j + 1] = IF t[j + 1] \in Items THEN Append(g[j], t[j + 1]) ELSE g[j]
    BY <1>1, <1>4, <2>3, PassStep
  <2>5. f[Len(s) + (j + 1)] = IF t[j + 1] \in Items THEN Append(Sift(s) \o g[j], t[j + 1])
                                                    ELSE Sift(s) \o g[j]
    <3>1. f[(Len(s) + j) + 1] =
            IF (s \o t)[(Len(s) + j) + 1] \in Items
              THEN Append(f[Len(s) + j], (s \o t)[(Len(s) + j) + 1]) ELSE f[Len(s) + j]
      <4>1. \A i \in 0 .. (Len(s) + Len(t)) - 1 :
               f[i + 1] = IF (s \o t)[i + 1] \in Items THEN Append(f[i], (s \o t)[i + 1]) ELSE f[i]
        <5> DEFINE both == s \o t
                   total == Len(s) + Len(t)
        <5>1. total \in Nat /\ Passes(both, total, f)
          BY <1>2, <2>3
        <5> HIDE DEF both, total
        <5>2. \A i \in 0 .. total - 1 :
                 f[i + 1] = IF both[i + 1] \in Items THEN Append(f[i], both[i + 1]) ELSE f[i]
          BY <5>1, PassStep
        <5> QED BY <5>2 DEF both, total
      <4> QED BY <2>3, <4>1
    <3> QED BY <2>1, <2>2, <2>3, <3>1
  <2>6. Append(Sift(s) \o g[j], t[j + 1]) = Sift(s) \o Append(g[j], t[j + 1])
    <3>1. PICK a \in Seq(X) : a = Sift(s)
      BY <1>6
    <3>2. PICK b \in Seq(X) : b = g[j]
      BY <2>1
    <3>3. <<t[j + 1]>> \in Seq(X)
      BY <2>2
    <3>4. PICK c \in Seq(X) : c = <<t[j + 1]>>
      BY <3>3
    <3>5. Cat(Cat(a, b), c) = Cat(a, Cat(b, c))
      BY CatLaws
    <3>6. Append(a \o b, t[j + 1]) = (a \o b) \o c /\ Append(b, t[j + 1]) = b \o c
      <4>1. a \o b \in Seq(X)
        BY ConcatProperties
      <4>2. \A s1 \in Seq(X) : Append(s1, t[j + 1]) = s1 \o <<t[j + 1]>>
        BY <2>2, AppendIsConcat
      <4>3. Append(a \o b, t[j + 1]) = (a \o b) \o <<t[j + 1]>>
        BY <4>1, <4>2
      <4>4. Append(b, t[j + 1]) = b \o <<t[j + 1]>>
        BY <4>2
      <4> QED BY <3>4, <4>3, <4>4
    <3> QED BY <3>1, <3>2, <3>5, <3>6 DEF Cat
  <2> QED BY <2>4, <2>5, <2>6
<1> HIDE DEF T
<1>10. Len(t) \in T
  BY <1>1, <1>8, <1>9, FromZero
<1> QED BY <1>1, <1>2, <1>4, <1>10 DEF T

\* A list of items goes downstream as it is.
LEMMA SiftOfItems ==
    ASSUME NEW s \in Seq(Items)
    PROVE  Sift(s) = s
<1> DEFINE T == {n \in Nat : n <= Len(s) => Sift(SubSeq(s, 1, n)) = SubSeq(s, 1, n)}
<1>0. Len(s) \in Nat
  OBVIOUS
<1>1. 0 \in T
  <2>1. SubSeq(s, 1, 0) = <<>>
    BY SubSeqEmpty
  <2> QED BY <2>1, SiftEmpty
<1>2. ASSUME NEW n \in Nat, n \in T PROVE n + 1 \in T
  <2> SUFFICES ASSUME n + 1 <= Len(s) PROVE Sift(SubSeq(s, 1, n + 1)) = SubSeq(s, 1, n + 1)
    OBVIOUS
  <2>1. Sift(SubSeq(s, 1, n)) = SubSeq(s, 1, n) /\ s[n + 1] \in Items
    BY <1>0, <1>2, ElementOfSeq
  <2>2. SubSeq(s, 1, n) \in Seq(Items) /\ <<s[n + 1]>> \in Seq(Items)
    BY <1>0, <2>1, SubSeqProperties
  <2>3. SubSeq(s, 1, n + 1) = SubSeq(s, 1, n) \o <<s[n + 1]>>
    BY <1>0, SubSeqRecursiveSecond
  <2>4. Sift(SubSeq(s, 1, n) \o <<s[n + 1]>>) = Sift(SubSeq(s, 1, n)) \o Sift(<<s[n + 1]>>)
    BY <2>2, SiftOfConcat
  <2>5. Sift(<<s[n + 1]>>) = <<s[n + 1]>>
    BY <2>1, SiftOne
  <2> QED BY <2>1, <2>3, <2>4, <2>5
<1> HIDE DEF T
<1>3. Len(s) \in T
  BY <1>0, <1>1, <1>2, FromZero
<1>4. SubSeq(s, 1, Len(s)) = s
  BY SubSeqFull
<1>5. Sift(SubSeq(s, 1, Len(s))) = SubSeq(s, 1, Len(s))
  BY <1>0, <1>3 DEF T
<1> QED BY <1>4, <1>5
-----------------------------------------------------------------------------
(* The queue implements OrderedPipe. *)

\* The pieces of InPipe hold items that have been handed in.
LEMMA Pieces ==
    ASSUME Stocked
    PROVE  /\ Seen \subseteq Items
           /\ sending \in Seq(Seen) /\ m_ppSamples \in Seq(Seen) /\ args \in Seq(Seen)
           /\ Sift(<<special>>) \in Seq(Seen) /\ Sift(m_List) \in Seq(Seen)
           /\ WithThread \in Seq(Seen) /\ InQueue \in Seq(Seen) /\ InPipe \in Seq(Seen)
<1>1. Seen \subseteq Items
  BY OutputQueueAssumption DEF Stocked, Seen, Items
<1>2. (Seen \cup Commands \cup {NoPacket}) \cap Items \subseteq Seen
  BY DEF Commands, Send, ResetMsg, NoPacket, Items
<1>3. <<special>> \in Seq(Seen \cup Commands \cup {NoPacket})
  BY DEF Stocked
<1>4. Sift(<<special>>) \in Seq(Seen)
  BY <1>2, <1>3, SiftType
<1>5. m_List \in Seq(Seen \cup Commands \cup {NoPacket})
  BY SeqMonotonic DEF Stocked
<1>6. Sift(m_List) \in Seq(Seen)
  BY <1>2, <1>5, SiftType
<1>7. WithThread \in Seq(Seen)
  BY <1>4, ConcatProperties DEF Stocked, WithThread
<1>8. InQueue \in Seq(Seen)
  BY <1>6, ConcatProperties DEF Stocked, InQueue
<1>9. InPipe \in Seq(Seen)
  BY <1>7, <1>8, ConcatProperties DEF Stocked, InPipe
<1> QED BY <1>1, <1>4, <1>6, <1>7, <1>8, <1>9 DEF Stocked

LEMMA Suffix ==
    ASSUME NEW S, NEW s \in Seq(S), NEW k \in 0 .. Len(s)
    PROVE  /\ SubSeq(s, k + 1, Len(s)) \in Seq(S) /\ Len(SubSeq(s, k + 1, Len(s))) = Len(s) - k
           /\ \A i \in 1 .. Len(s) - k : SubSeq(s, k + 1, Len(s))[i] = s[k + i]
OBVIOUS

LEMMA CatParts ==
    ASSUME NEW S, NEW s \in Seq(S), NEW t \in Seq(S)
    PROVE  /\ Len(s) \in Nat /\ Len(t) \in Nat
           /\ Len(Cat(s, t)) = Len(s) + Len(t)
           /\ \A i \in 1 .. Len(s) : Cat(s, t)[i] = s[i]
           /\ \A i \in 1 .. Len(t) : Cat(s, t)[Len(s) + i] = t[i]
BY ConcatProperties DEF Cat

LEMMA DropFront ==
    ASSUME NEW S, NEW a \in Seq(S), NEW b \in Seq(S), NEW k \in 0 .. Len(a)
    PROVE  SubSeq(Cat(a, b), k + 1, Len(Cat(a, b))) = Cat(SubSeq(a, k + 1, Len(a)), b)
<1> DEFINE ab == Cat(a, b)
           rest == SubSeq(a, k + 1, Len(a))
           l == SubSeq(ab, k + 1, Len(ab))
           r == Cat(rest, b)
<1>1. /\ Len(a) \in Nat /\ Len(b) \in Nat /\ ab \in Seq(S) /\ Len(ab) = Len(a) + Len(b)
      /\ \A i \in 1 .. Len(a) : ab[i] = a[i]
      /\ \A i \in 1 .. Len(b) : ab[Len(a) + i] = b[i]
  <2>1. ab \in Seq(S)
    BY CatLaws
  <2> QED BY <2>1, CatParts
<1>2. rest \in Seq(S) /\ Len(rest) = Len(a) - k /\ \A i \in 1 .. Len(a) - k : rest[i] = a[k + i]
  BY Suffix
<1>3. l \in Seq(S) /\ Len(l) = Len(ab) - k /\ \A i \in 1 .. Len(ab) - k : l[i] = ab[k + i]
  <2> HIDE DEF ab
  <2>1. k \in 0 .. Len(ab)
    BY <1>1
  <2> QED BY <1>1, <2>1, Suffix
<1>4. /\ r \in Seq(S) /\ Len(r) = Len(rest) + Len(b)
      /\ \A i \in 1 .. Len(rest) : r[i] = rest[i]
      /\ \A i \in 1 .. Len(b) : r[Len(rest) + i] = b[i]
  <2> HIDE DEF rest
  <2>1. rest \in Seq(S)
    BY <1>2
  <2>2. r \in Seq(S)
    BY <2>1, CatLaws
  <2>3. /\ Len(r) = Len(rest) + Len(b)
        /\ \A i \in 1 .. Len(rest) : r[i] = rest[i]
        /\ \A i \in 1 .. Len(b) : r[Len(rest) + i] = b[i]
    BY <2>1, CatParts
  <2> QED BY <2>2, <2>3
<1> HIDE DEF ab, rest, l, r
<1>5. ASSUME NEW i \in 1 .. Len(a) + Len(b) - k PROVE l[i] = r[i]
  <2>1. CASE i \in 1 .. Len(a) - k
    <3>1. l[i] = ab[k + i] /\ r[i] = rest[i] /\ rest[i] = a[k + i] /\ k + i \in 1 .. Len(a)
      BY <1>1, <1>2, <1>3, <1>4, <2>1
    <3> QED BY <1>1, <3>1
  <2>2. CASE i \notin 1 .. Len(a) - k
    <3>1. PICK j \in 1 .. Len(b) : i = Len(a) - k + j
      <4>1. i - (Len(a) - k) \in 1 .. Len(b)
        BY <1>1, <2>2
      <4>2. i = Len(a) - k + (i - (Len(a) - k))
        BY <1>1
      <4> QED BY <4>1, <4>2
    <3>2. r[i] = b[j]
      BY <1>2, <1>4, <3>1
    <3>3. l[i] = ab[Len(a) + j]
      <4>1. k + i = Len(a) + j /\ i \in 1 .. Len(ab) - k
        BY <1>1, <3>1
      <4> QED BY <1>3, <4>1
    <3> QED BY <1>1, <3>2, <3>3
  <2> QED BY <2>1, <2>2
<1>6. Len(l) = Len(a) + Len(b) - k /\ Len(r) = Len(a) + Len(b) - k
  BY <1>1, <1>2, <1>3, <1>4
<1>7. l = r
  BY <1>3, <1>4, <1>5, <1>6, SeqEqual
<1> QED BY <1>7 DEF ab, rest, l, r

LEMMA DropAll ==
    ASSUME NEW S, NEW a \in Seq(S), NEW b \in Seq(S)
    PROVE  SubSeq(Cat(a, b), Len(a) + 1, Len(Cat(a, b))) = b
<1>1. Len(a) \in 0 .. Len(a) /\ Len(a) \in Int /\ Len(a) + 1 \in Int /\ Len(a) < Len(a) + 1
  BY EmptySeq
<1>2. SubSeq(a, Len(a) + 1, Len(a)) = <<>>
  BY <1>1, SubSeqEmpty
<1>3. Cat(<<>>, b) = b
  BY ConcatEmptySeq DEF Cat
<1>4. SubSeq(Cat(a, b), Len(a) + 1, Len(Cat(a, b))) = Cat(SubSeq(a, Len(a) + 1, Len(a)), b)
  BY <1>1, DropFront
<1> QED BY <1>2, <1>3, <1>4

LEMMA Front ==
    ASSUME NEW S, NEW a \in Seq(S), NEW b \in Seq(S)
    PROVE  SubSeq(Cat(a, b), 1, Len(a)) = a
<1>1. PICK l \in Seq(S) : l = Cat(a, b)
  BY CatLaws
<1>2. Len(l) = Len(a) + Len(b) /\ Len(a) \in Nat /\ Len(b) \in Nat
      /\ \A j \in 1 .. Len(a) : l[j] = a[j]
  BY <1>1, CatParts
<1>3. PICK f : f = SubSeq(l, 1, Len(a))
  OBVIOUS
<1>4. f \in Seq(S) /\ Len(f) = Len(a) /\ \A j \in 1 .. Len(a) : f[j] = l[j]
  BY <1>2, <1>3
<1>5. f = a
  BY <1>2, <1>4, SeqEqual
<1> QED BY <1>1, <1>3, <1>5
-----------------------------------------------------------------------------
(* The steps of OrderedPipe, in terms of what stands at its front. *)

\* One or more new items go in at the back.
LEMMA GoesIn ==
    ASSUME Stocked, NEW kind \in {"sample", "segment", "eos"}, NEW k \in Nat \ {0},
           issued' = issued + k, k <= MaxItems - issued,
           InPipe' = Cat(InPipe, New(kind, k)), UNCHANGED <<last, IsSound, flushes>>
    PROVE  Pipe!Next
<1> DEFINE new == New(kind, k)
<1>1. /\ InPipe \in Seq(Seen) /\ new \in Seq(Seen') /\ Len(new) = k
      /\ \A i \in 1 .. k : new[i] = [kind |-> kind, n |-> issued + i]
      /\ Seq(Seen) \subseteq Seq(Seen') /\ issued \in Nat /\ MaxItems \in Nat /\ last \in 0 .. issued
  BY NewSeen, Pieces, OutputQueueAssumption DEF Stocked
<1> HIDE DEF new
<1>2. InPipe \in Seq(Seen') /\ new \in Seq(Seen')
  BY <1>1
<1>3. /\ Len(InPipe') = Len(InPipe) + k /\ Len(InPipe) \in Nat
      /\ \A i \in 1 .. Len(InPipe) : InPipe'[i] = InPipe[i]
      /\ \A i \in 1 .. k : InPipe'[Len(InPipe) + i] = new[i]
  <2>1. PICK a \in Seq(Seen'), b \in Seq(Seen') : a = InPipe /\ b = new
    BY <1>2
  <2>2. InPipe' = Cat(a, b)
    BY <2>1 DEF new
  <2>3. Len(Cat(a, b)) = Len(a) + Len(b) /\ Len(a) \in Nat
    BY CatParts
  <2>4. \A i \in 1 .. Len(a) : Cat(a, b)[i] = a[i]
    BY CatParts
  <2>5. \A i \in 1 .. Len(b) : Cat(a, b)[Len(a) + i] = b[i]
    BY CatParts
  <2> QED BY <1>1, <2>1, <2>2, <2>3, <2>4, <2>5
<1>4. Len(InPipe') > Len(InPipe)
  BY <1>3
<1>5. SubSeq(InPipe', 1, Len(InPipe)) = InPipe
  BY <1>2, Front DEF new
<1>6. \A j \in 1 .. Len(InPipe) : InPipe[j].n <= issued
  <2>1. ASSUME NEW j \in 1 .. Len(InPipe) PROVE InPipe[j] \in Seen
    BY <1>1
  <2> QED BY <1>1, <2>1 DEF Seen
<1>7. ASSUME NEW i \in Len(InPipe) + 1 .. Len(InPipe')
      PROVE  /\ InPipe'[i] \in Items /\ InPipe'[i].n > last
             /\ \A j \in 1 .. i - 1 : InPipe'[j].n < InPipe'[i].n
  <2>1. PICK m \in 1 .. k : i = Len(InPipe) + m
    <3>1. i - Len(InPipe) \in 1 .. k /\ i = Len(InPipe) + (i - Len(InPipe))
      BY <1>3
    <3> QED BY <3>1
  <2>2. InPipe'[i] = [kind |-> kind, n |-> issued + m]
    BY <1>1, <1>3, <2>1
  <2>3. InPipe'[i] \in Items /\ InPipe'[i].n = issued + m
    BY <1>1, <2>2 DEF Items
  <2>4. ASSUME NEW j \in 1 .. i - 1 PROVE InPipe'[j].n < issued + m
    <3>1. CASE j \in 1 .. Len(InPipe)
      <4>1. InPipe'[j].n = InPipe[j].n /\ InPipe[j] \in Seen
        BY <1>1, <1>3, <3>1
      <4> QED BY <1>1, <1>6, <3>1, <4>1 DEF Seen
    <3>2. CASE j \notin 1 .. Len(InPipe)
      <4>1. PICK p \in 1 .. k : j = Len(InPipe) + p /\ p < m
        <5>1. j - Len(InPipe) \in 1 .. k /\ j = Len(InPipe) + (j - Len(InPipe)) /\ j - Len(InPipe) < m
          BY <1>3, <2>1, <3>2
        <5> QED BY <5>1
      <4>2. InPipe'[j] = [kind |-> kind, n |-> issued + p]
        BY <1>1, <1>3, <4>1
      <4> QED BY <1>1, <4>1, <4>2
    <3> QED BY <3>1, <3>2
  <2> QED BY <1>1, <2>3, <2>4
<1> QED BY <1>4, <1>5, <1>7 DEF Pipe!Next, Pipe!Accept

\* What stands in front is thrown away.
LEMMA Thrown ==
    ASSUME NEW S, NEW a \in Seq(S), NEW b \in Seq(S), InPipe = Cat(a, b), InPipe' = b,
           ~IsSound', UNCHANGED <<last, flushes>>
    PROVE  Pipe!Next
<1>1. Len(a) \in 0 .. Len(InPipe)
  BY CatParts
<1>2. InPipe' = SubSeq(InPipe, Len(a) + 1, Len(InPipe))
  BY DropAll
<1>3. IsSound' = FALSE
  BY DEF IsSound
<1>4. Pipe!Discard(Len(a))
  BY <1>2, <1>3 DEF Pipe!Discard
<1> QED BY <1>1, <1>4 DEF Pipe!Next

\* Nothing moves in a stream that is, or becomes, unsound.
LEMMA NothingMoves ==
    ASSUME Stocked, InPipe' = InPipe, ~IsSound', UNCHANGED <<last, flushes>>
    PROVE  Pipe!Next
<1>1. InPipe \in Seq(Seen) /\ <<>> \in Seq(Seen)
  BY Pieces, EmptySeq
<1>2. Cat(<<>>, InPipe) = InPipe
  BY <1>1, ConcatEmptySeq DEF Cat
<1> QED BY <1>1, <1>2, Thrown

\* The first k of what stands in front come out, and the rest of it is refused.
LEMMA CameOut ==
    ASSUME NEW S, NEW a \in Seq(S), NEW b \in Seq(S), InPipe = Cat(a, b), InPipe' = b,
           NEW k \in 1 .. Len(a), last' = a[k].n, k < Len(a) => ~IsSound',
           IsSound, flushes' = flushes
    PROVE  Pipe!Next
<1>1. /\ Len(InPipe) = Len(a) + Len(b) /\ Len(a) \in Nat /\ Len(b) \in Nat
      /\ InPipe[k] = a[k]
  BY CatParts
<1>2. InPipe' = SubSeq(InPipe, Len(a) + 1, Len(InPipe))
  BY DropAll
<1> DEFINE d == Len(a) - k
<1>3. d \in 0 .. Len(InPipe) - k /\ k \in 1 .. Len(InPipe) /\ k + d + 1 = Len(a) + 1
  BY <1>1
<1>4. IsSound' \in BOOLEAN /\ (d > 0 => ~IsSound')
  BY <1>1 DEF IsSound
<1> HIDE DEF d
<1>5. Pipe!Deliver(k, d)
  BY <1>1, <1>2, <1>3, <1>4 DEF Pipe!Deliver
<1> QED BY <1>3, <1>5 DEF Pipe!Next

\* A segment notice leaves an unsound stream from behind a.
LEMMA NoticeOut ==
    ASSUME NEW S, NEW a \in Seq(S), NEW e \in S, NEW b \in Seq(S), InPipe = Cat(a, Cat(<<e>>, b)),
           InPipe' = Cat(a, b), e.kind = "segment", last' = e.n,
           ~IsSound, UNCHANGED <<IsSound, flushes>>
    PROVE  Pipe!Next
<1> DEFINE i == Len(a) + 1
<1>1. PICK one \in Seq(S) : one = <<e>> /\ Len(one) = 1 /\ one[1] = e
  <2>1. <<e>> \in Seq(S) /\ Len(<<e>>) = 1 /\ <<e>>[1] = e
    OBVIOUS
  <2> QED BY <2>1
<1>2. PICK t \in Seq(S) : t = Cat(one, b)
  BY CatLaws
<1>3. /\ Len(a) \in Nat /\ Len(t) = 1 + Len(b) /\ Len(b) \in Nat /\ t[1] = e
  <2>1. Len(Cat(one, b)) = Len(one) + Len(b) /\ \A m \in 1 .. Len(one) : Cat(one, b)[m] = one[m]
    BY CatParts
  <2> QED BY <1>1, <1>2, <2>1, EmptySeq
<1>4. InPipe = Cat(a, t)
  BY <1>1, <1>2
<1>5. /\ Len(InPipe) = Len(a) + Len(t)
      /\ \A j \in 1 .. Len(a) : InPipe[j] = a[j]
      /\ \A j \in 1 .. Len(t) : InPipe[Len(a) + j] = t[j]
  <2>1. Len(Cat(a, t)) = Len(a) + Len(t)
    BY CatParts
  <2>2. \A j \in 1 .. Len(a) : Cat(a, t)[j] = a[j]
    BY CatParts
  <2>3. \A j \in 1 .. Len(t) : Cat(a, t)[Len(a) + j] = t[j]
    BY CatParts
  <2> QED BY <1>4, <2>1, <2>2, <2>3
<1>6. i \in 1 .. Len(InPipe) /\ InPipe[i] = e
  <2>1. 1 \in 1 .. Len(t)
    BY <1>3
  <2>2. InPipe[Len(a) + 1] = t[1]
    BY <1>5, <2>1
  <2>3. Len(a) + 1 \in 1 .. Len(InPipe)
    BY <1>3, <1>5
  <2> QED BY <1>3, <2>2, <2>3
<1>7. SubSeq(InPipe, 1, i - 1) = a
  <2>1. SubSeq(Cat(a, t), 1, Len(a)) = a
    BY Front
  <2> QED BY <1>3, <1>4, <2>1
<1>8. SubSeq(InPipe, i + 1, Len(InPipe)) = b
  <2>1. PICK front \in Seq(S) : front = Cat(a, one)
    BY CatLaws
  <2>2. Len(front) = i
    <3>1. Len(Cat(a, one)) = Len(a) + Len(one)
      BY CatParts
    <3> QED BY <1>1, <2>1, <3>1
  <2>3. Cat(front, b) = Cat(a, Cat(one, b))
    <3>1. Cat(Cat(a, one), b) = Cat(a, Cat(one, b))
      BY CatLaws
    <3> QED BY <2>1, <3>1
  <2>4. SubSeq(Cat(front, b), Len(front) + 1, Len(Cat(front, b))) = b
    BY DropAll
  <2> QED BY <1>2, <1>4, <2>2, <2>3, <2>4
<1>9. Pipe!Notice(i)
  BY <1>6, <1>7, <1>8 DEF Pipe!Notice, Pipe!IsSegment, Cat
<1> QED BY <1>6, <1>9 DEF Pipe!Next
-----------------------------------------------------------------------------
(* Each step of the queue is one of these steps, or none. *)

Packet == Sift(<<special>>)
Listed == Sift(m_List)
Behind == Cat(m_ppSamples, Cat(Listed, args))

LEMMA CatEmpty ==
    ASSUME NEW S
    PROVE  \A s \in Seq(S) : Cat(<<>>, s) = s /\ Cat(s, <<>>) = s
BY ConcatEmptySeq DEF Cat

LEMMA ItemsInPieces == Stocked => {sending, Packet, m_ppSamples, Listed, args} \subseteq Seq(Items)
BY Pieces, SeqMonotonic DEF Packet, Listed

LEMMA ItemsAfter ==
    (Stocked => {sending, Packet, m_ppSamples, Listed, args} \subseteq Seq(Items))'
BY ItemsInPieces, PTL

LEMMA PipeOfPieces ==
    ASSUME NEW a \in Seq(Items), NEW b \in Seq(Items), NEW c \in Seq(Items),
           NEW d \in Seq(Items), NEW e \in Seq(Items)
    PROVE  /\ Cat(c, Cat(d, e)) \in Seq(Items)
           /\ Cat(Cat(Cat(a, b), Cat(c, d)), e) = Cat(a, Cat(b, Cat(c, Cat(d, e))))
<1>1. Cat(a, b) \in Seq(Items) /\ Cat(c, d) \in Seq(Items) /\ Cat(d, e) \in Seq(Items)
      /\ Cat(c, Cat(d, e)) \in Seq(Items)
  BY CatLaws
<1>2. Cat(Cat(Cat(a, b), Cat(c, d)), e) = Cat(a, Cat(b, Cat(c, Cat(d, e))))
  BY <1>1, CatLaws
<1> QED BY <1>1, <1>2

LEMMA InPieces ==
    ASSUME Stocked, Stocked'
    PROVE  /\ {<<>>, sending, Packet, m_ppSamples, Listed, args, Behind} \subseteq Seq(Items)
           /\ {<<>>, sending, Packet, m_ppSamples, Listed, args, Behind}' \subseteq Seq(Items)
           /\ InPipe = Cat(sending, Cat(Packet, Behind))
           /\ InPipe' = Cat(sending', Cat(Packet', Behind'))
<1>1. /\ {sending, Packet, m_ppSamples, Listed, args} \subseteq Seq(Items)
      /\ {sending, Packet, m_ppSamples, Listed, args}' \subseteq Seq(Items)
  BY ItemsInPieces, ItemsAfter
<1>2. /\ InPipe = Cat(Cat(Cat(sending, Packet), Cat(m_ppSamples, Listed)), args)
      /\ InPipe' = Cat(Cat(Cat(sending', Packet'), Cat(m_ppSamples', Listed')), args')
  BY DEF InPipe, WithThread, InQueue, Packet, Listed, Cat
<1>3. /\ Behind \in Seq(Items)
      /\ Cat(Cat(Cat(sending, Packet), Cat(m_ppSamples, Listed)), args) =
            Cat(sending, Cat(Packet, Behind))
  <2>1. PICK a \in Seq(Items), b \in Seq(Items), c \in Seq(Items), d \in Seq(Items), e \in Seq(Items) :
            a = sending /\ b = Packet /\ c = m_ppSamples /\ d = Listed /\ e = args
    BY <1>1
  <2>2. Cat(c, Cat(d, e)) \in Seq(Items)
    BY CatLaws
  <2>3. Cat(Cat(Cat(a, b), Cat(c, d)), e) = Cat(a, Cat(b, Cat(c, Cat(d, e))))
    BY PipeOfPieces
  <2> QED BY <2>1, <2>2, <2>3 DEF Behind
<1>4. /\ Behind' \in Seq(Items)
      /\ Cat(Cat(Cat(sending', Packet'), Cat(m_ppSamples', Listed')), args') =
            Cat(sending', Cat(Packet', Behind'))
  <2>1. PICK a \in Seq(Items), b \in Seq(Items), c \in Seq(Items), d \in Seq(Items), e \in Seq(Items) :
            a = sending' /\ b = Packet' /\ c = m_ppSamples' /\ d = Listed' /\ e = args'
    BY <1>1
  <2>2. Cat(c, Cat(d, e)) \in Seq(Items)
    BY CatLaws
  <2>3. Cat(Cat(Cat(a, b), Cat(c, d)), e) = Cat(a, Cat(b, Cat(c, Cat(d, e))))
    BY PipeOfPieces
  <2> QED BY <2>1, <2>2, <2>3 DEF Behind
<1>5. <<>> \in Seq(Items)
  BY EmptySeq
<1> QED BY <1>1, <1>2, <1>3, <1>4, <1>5

LEMMA Still ==
    ASSUME InPipe' = InPipe, IsSound' = IsSound, UNCHANGED <<last, flushes>>
    PROVE  UNCHANGED Pipe!vars
BY DEF Pipe!vars

LEMMA PacketIs ==
    ASSUME Stocked
    PROVE  /\ special.kind \in {"eos", "segment"} => special \in Items /\ Packet = <<special>>
           /\ special.kind \in {"none", "send", "reset"} => Packet = <<>>
<1>1. special.kind \in {"eos", "segment"} => special \in Seen
  BY CommandKinds, PacketKinds DEF Stocked
<1>2. special.kind \in {"none", "send", "reset"} => special \notin Items
  BY DEF Items
<1>3. Seen \subseteq Items
  BY Pieces
<1> QED BY <1>1, <1>2, <1>3, SiftOne DEF Packet

LEMMA NoPacketAfter == ASSUME special' = NoPacket PROVE Packet' = <<>>
<1>1. NoPacket \notin Items
  BY DEF NoPacket, Items
<1> QED BY <1>1, SiftOne DEF Packet

LEMMA BehindStays == ASSUME UNCHANGED <<m_ppSamples, m_List, args>> PROVE Behind' = Behind
BY DEF Behind, Listed

\* What the queue's thread does with what it has taken.
LEMMA ThreadMoves ==
    ASSUME Inv, Flow, Flow', ThreadStep, ~ThreadLoop, ~ThreadTerminates
    PROVE  [Pipe!Next]_(Pipe!vars)
<1>0. /\ Stocked /\ {<<>>, sending, Packet, Behind} \subseteq Seq(Items)
      /\ {<<>>, sending, Packet, Behind}' \subseteq Seq(Items)
      /\ InPipe = Cat(sending, Cat(Packet, Behind))
      /\ InPipe' = Cat(sending', Cat(Packet', Behind'))
      /\ Cat(Packet, Behind) \in Seq(Items)
  <2>1. Stocked /\ Stocked'
    BY DEF Flow
  <2> QED BY <2>1, InPieces, CatLaws
<1>1. CASE ThreadEnter \/ ThreadWakes
  <2>1. InPipe' = InPipe
    BY <1>1 DEF ThreadEnter, ThreadWakes, streamVars, queueVars, InPipe, WithThread, InQueue
  <2>2. IsSound' = IsSound /\ UNCHANGED <<last, flushes>>
    BY <1>1 DEF ThreadEnter, ThreadWakes, flagVars, outVars, countVars, IsSound
  <2> QED BY <2>1, <2>2, Still
<1>2. CASE ThreadSend
  <2>1. /\ UNCHANGED <<special, m_ppSamples, m_List, args, last, flushes, m_hr, m_bTerminate, apc,
                       downFlushing>> /\ qpc = "send"
        /\ \/ sending' = sending /\ m_hr = "S_OK"
           \/ sending' = <<>> /\ qpc' = "special" /\ (sending = <<>> \/ m_hr # "S_OK")
    BY <1>2 DEF ThreadSend, streamVars, queueVars, flagVars, outVars, countVars
  <2>2. Packet' = Packet /\ Behind' = Behind
    BY <2>1, BehindStays DEF Packet
  <2>3. CASE m_hr = "S_OK"
    <3>1. sending' = sending
      BY <2>1, <2>3
    <3>2. ~m_bTerminate
      BY <2>3 DEF Flow, Closing
    <3>3. IsSound' = IsSound
      BY <2>1, <2>3, <3>2 DEF IsSound
    <3> QED BY <1>0, <2>1, <2>2, <3>1, <3>3, Still
  <2>4. CASE m_hr # "S_OK"
    <3>1. ~IsSound'
      BY <2>1, <2>4 DEF IsSound
    <3>2. sending' = <<>>
      BY <2>1, <2>4
    <3>3. InPipe' = Cat(Packet, Behind)
      BY <1>0, <2>2, <3>2, CatEmpty
    <3> QED BY <1>0, <2>1, <3>1, <3>3, Thrown
  <2> QED BY <2>3, <2>4
<1>3. CASE ThreadResult
  <2>1. /\ UNCHANGED <<special, m_ppSamples, m_List, args, last, flushes, m_bTerminate, apc,
                       downFlushing>> /\ qpc = "result" /\ qpc' = "special" /\ sending' = <<>>
        /\ m_hr' = IF m_hr = "S_OK" THEN hr ELSE m_hr
    BY <1>3 DEF ThreadResult, StickyResult, streamVars, queueVars, outVars, countVars
  <2>2. Packet' = Packet /\ Behind' = Behind
    BY <2>1, BehindStays DEF Packet
  <2>3. InPipe' = Cat(Packet, Behind)
    BY <1>0, <2>1, <2>2, CatEmpty
  <2>4. CASE m_hr' = "S_OK"
    <3>1. m_hr = "S_OK" /\ hr = "S_OK"
      BY <2>1, <2>4
    <3>2. sending = <<>>
      BY <2>1, <3>1 DEF Flow, ThreadPlaces
    <3>3. IsSound' = IsSound
      BY <2>1, <2>4, <3>1 DEF IsSound
    <3>4. InPipe' = InPipe
      BY <1>0, <2>3, <3>2, CatEmpty
    <3> QED BY <2>1, <3>3, <3>4, Still
  <2>5. CASE m_hr' # "S_OK"
    <3>1. ~IsSound'
      BY <2>1, <2>5 DEF IsSound
    <3> QED BY <1>0, <2>1, <2>3, <3>1, Thrown
  <2> QED BY <2>4, <2>5
<1>4. CASE ThreadNext \/ ThreadResetDone
  <2>1. /\ UNCHANGED <<sending, m_ppSamples, m_List, args, last, flushes, flagVars, apc,
                       downFlushing>> /\ qpc \notin {"deliver", "inEos"} /\ qpc' = "top"
        /\ special' = NoPacket /\ special.kind \in {"none", "send", "reset"}
    BY <1>4 DEF ThreadNext, ThreadResetDone, ThreadTop, streamVars, queueVars, flagVars, outVars,
       countVars, Inv, Resets
  <2>2. Packet' = Packet /\ Behind' = Behind
    BY <1>0, <2>1, PacketIs, NoPacketAfter, BehindStays
  <2>3. IsSound' = IsSound
    BY <2>1 DEF IsSound, flagVars
  <2> QED BY <1>0, <2>1, <2>2, <2>3, Still
<1>5. CASE ThreadEos
  <2>1. /\ UNCHANGED <<sending, m_ppSamples, m_List, args, last, flushes, m_hr, m_bTerminate, apc,
                       downFlushing>> /\ qpc = "special" /\ special.kind = "eos" /\ sending = <<>>
        /\ \/ m_hr = "S_OK" /\ special' = special
           \/ m_hr # "S_OK" /\ special' = NoPacket /\ qpc' = "top"
    BY <1>5 DEF ThreadEos, ThreadTop, streamVars, queueVars, flagVars, outVars, countVars, Flow,
       ThreadPlaces
  <2>2. Behind' = Behind
    BY <2>1, BehindStays
  <2>3. CASE m_hr = "S_OK"
    <3>1. special' = special /\ Packet' = Packet
      BY <2>1, <2>3 DEF Packet
    <3>2. ~m_bTerminate
      BY <2>3 DEF Flow, Closing
    <3>3. IsSound' = IsSound
      BY <2>1, <2>3, <3>2 DEF IsSound
    <3> QED BY <1>0, <2>1, <2>2, <3>1, <3>3, Still
  <2>4. CASE m_hr # "S_OK"
    <3>1. ~IsSound'
      BY <2>1, <2>4 DEF IsSound
    <3>2. Packet' = <<>> /\ InPipe = Cat(Packet, Behind)
      BY <1>0, <2>1, <2>4, NoPacketAfter, CatEmpty
    <3>3. InPipe' = Behind
      BY <1>0, <2>1, <2>2, <3>2, CatEmpty
    <3> QED BY <1>0, <2>1, <3>1, <3>2, <3>3, Thrown
  <2> QED BY <2>3, <2>4
<1>6. CASE ThreadEosSent \/ ThreadSegment
  <2>1. /\ UNCHANGED <<sending, m_ppSamples, m_List, args, flushes, m_hr, m_bTerminate, apc,
                       downFlushing>> /\ sending = <<>> /\ special' = NoPacket /\ qpc' = "top"
        /\ \/ ThreadEosSent /\ qpc = "inEos" /\ special.kind = "eos"
              /\ last' = (IF downFlushing THEN last ELSE special.n)
           \/ ThreadSegment /\ qpc = "special" /\ special.kind = "segment" /\ last' = special.n
    BY <1>6 DEF ThreadEosSent, ThreadSegment, ThreadTop, streamVars, queueVars, flagVars,
       countVars, Flow, ThreadPlaces
  <2>2. Behind' = Behind /\ Packet' = <<>>
    BY <2>1, BehindStays, NoPacketAfter
  <2>3. special \in Items /\ Packet = <<special>>
    BY <1>0, <2>1, PacketIs
  <2>4. InPipe = Cat(Packet, Behind) /\ InPipe' = Behind
    BY <1>0, <2>1, <2>2, CatEmpty
  <2>5. Len(Packet) = 1 /\ Packet[1] = special
    BY <2>3
  <2>6. CASE IsSound
    <3>1. last' = special.n
      BY <2>1, <2>6 DEF IsSound
    <3>2. 1 \in 1 .. Len(Packet) /\ last' = Packet[1].n /\ ~(1 < Len(Packet))
      BY <2>5, <3>1
    <3>3. Packet \in Seq(Items) /\ Behind \in Seq(Items) /\ flushes' = flushes
      BY <1>0, <2>1
    <3> QED BY <2>4, <2>6, <3>2, <3>3, CameOut
  <2>7. CASE ~IsSound /\ qpc = "inEos"
    <3>1. apc # "destroyed"
      BY <2>1, <2>7 DEF Inv, Control, Flow, Closing, Types
    <3>2. downFlushing
      BY <2>7, <3>1 DEF IsSound
    <3>3. ~IsSound' /\ last' = last
      BY <2>1, <2>7, <3>2 DEF IsSound
    <3> QED BY <1>0, <2>1, <2>4, <3>3, Thrown
  <2>8. CASE ~IsSound /\ qpc = "special"
    <3>1. IsSound' = IsSound
      BY <2>1, <2>8 DEF IsSound
    <3>2. Cat(<<>>, Behind) = Behind /\ Cat(<<>>, Cat(<<special>>, Behind)) = Cat(Packet, Behind)
      BY <1>0, <2>3, CatEmpty
    <3>3. special.kind = "segment" /\ last' = special.n
      BY <2>1, <2>8
    <3> QED BY <1>0, <2>1, <2>3, <2>4, <2>8, <3>1, <3>2, <3>3, NoticeOut
  <2> QED BY <2>1, <2>6, <2>7, <2>8
<1>7. CASE ThreadReset
  <2>1. /\ UNCHANGED <<sending, special, m_ppSamples, m_List, args, last, flushes, m_bTerminate,
                       apc, downFlushing>>
        /\ qpc = "special" /\ qpc' = "inReset" /\ m_hr' = "S_OK"
    BY <1>7 DEF ThreadReset, streamVars, queueVars, outVars, countVars
  <2>2. InPipe' = InPipe
    BY <2>1 DEF InPipe, WithThread, InQueue
  <2>3. CASE IsSound' = IsSound
    BY <2>1, <2>2, <2>3, Still
  <2>4. CASE IsSound' # IsSound
    <3>1. ~IsSound /\ IsSound' = TRUE
      BY <2>1, <2>4 DEF IsSound
    <3> QED BY <2>1, <2>2, <3>1 DEF Pipe!Next, Pipe!Reset
  <2> QED BY <2>3, <2>4
<1> QED
  BY <1>1, <1>2, <1>3, <1>4, <1>5, <1>6, <1>7 DEF ThreadStep

\* Where the first of the list goes makes no difference to what is in the pipe.
LEMMA Turns ==
    ASSUME NEW p \in Seq(Items), NEW f \in Seq(Items), NEW l \in Seq(Items), NEW g \in Seq(Items)
    PROVE  /\ Cat(p, Cat(Cat(f, l), g)) = Cat(p, Cat(f, Cat(l, g)))
           /\ Cat(Cat(p, f), Cat(<<>>, Cat(<<>>, Cat(l, g)))) = Cat(p, Cat(f, Cat(l, g)))
           /\ Cat(<<>>, Cat(<<>>, Cat(Cat(p, f), Cat(l, g)))) = Cat(p, Cat(f, Cat(l, g)))
<1>1. Cat(l, g) \in Seq(Items) /\ Cat(p, f) \in Seq(Items)
  BY CatLaws
<1>3. Cat(Cat(f, l), g) = Cat(f, Cat(l, g))
  BY CatLaws
<1>4. Cat(Cat(p, f), Cat(l, g)) = Cat(p, Cat(f, Cat(l, g)))
  BY <1>1, CatLaws
<1>5. Cat(Cat(p, f), Cat(l, g)) \in Seq(Items)
  BY <1>1, CatLaws
<1>6. /\ Cat(<<>>, Cat(l, g)) = Cat(l, g)
      /\ Cat(<<>>, Cat(Cat(p, f), Cat(l, g))) = Cat(Cat(p, f), Cat(l, g))
  BY <1>1, <1>5, CatEmpty
<1> QED BY <1>1, <1>3, <1>4, <1>6

\* What is first on the list, and what comes after it.
LEMMA FirstListed ==
    ASSUME Stocked, NEW first, first = (IF m_List = <<>> THEN NoPacket ELSE Head(m_List)),
           m_List' = (IF m_List = <<>> THEN <<>> ELSE Tail(m_List))
    PROVE  Listed = Cat(Sift(<<first>>), Listed')
<1>1. CASE m_List = <<>>
  <2>1. Sift(<<first>>) = <<>>
    BY <1>1, SiftOne DEF NoPacket, Items
  <2> QED BY <1>1, <2>1, SiftEmpty, ConcatEmptySeq, EmptySeq DEF Listed, Cat
<1>2. CASE m_List # <<>>
  <2>1. m_List = <<first>> \o m_List'
    BY <1>2, HeadTailProperties DEF Stocked
  <2>2. first \in Seen \cup Commands /\ m_List' \in Seq(Seen \cup Commands)
    BY <1>2, FirstOfList DEF Stocked
  <2>3. <<first>> \in Seq(Seen \cup Commands)
    BY <2>2
  <2>4. Sift(<<first>> \o m_List') = Sift(<<first>>) \o Sift(m_List')
    BY <2>2, <2>3, SiftOfConcat
  <2> QED BY <2>1, <2>4 DEF Listed, Cat
<1> QED BY <1>1, <1>2

\* The thread under the critical section.
LEMMA LoopMoves ==
    ASSUME Inv, Flow, Flow', ThreadLoop \/ ThreadTerminates
    PROVE  [Pipe!Next]_(Pipe!vars)
<1>1. /\ Stocked /\ Stocked' /\ qpc = "loop" /\ sending = <<>> /\ special = NoPacket
      /\ UNCHANGED <<args, last, flushes, m_hr, m_bTerminate, apc, downFlushing>>
      /\ qpc' \notin {"deliver", "inEos"}
  BY DEF ThreadLoop, ThreadTerminates, TakeBatch, Flow, ThreadPlaces, streamVars, flagVars, outVars,
     countVars
<1>2. /\ {<<>>, sending, Packet, m_ppSamples, Listed, args, Behind} \subseteq Seq(Items)
      /\ {<<>>, sending, Packet, m_ppSamples, Listed, args, Behind}' \subseteq Seq(Items)
      /\ InPipe = Cat(sending, Cat(Packet, Behind))
      /\ InPipe' = Cat(sending', Cat(Packet', Behind'))
  BY <1>1, InPieces
<1>3. Packet = <<>>
  BY <1>1, PacketIs DEF NoPacket
<1>4. InPipe = Cat(m_ppSamples, Cat(Listed, args))
  BY <1>1, <1>2, <1>3, CatEmpty DEF Behind
<1>5. CASE ThreadTerminates \/ m_bFlushing
  <2>1. /\ m_List' = <<>> /\ m_ppSamples' = <<>> /\ sending' \in {sending, <<>>}
        /\ special' \in {special, NoPacket}
    BY <1>1, <1>5, PacketKinds DEF ThreadTerminates, ThreadLoop, FreeSamples, TakeBatch, IsData
  <2>2. Packet' = <<>> /\ Listed' = <<>> /\ sending' = <<>>
    BY <1>1, <2>1, NoPacketAfter, SiftEmpty DEF Listed
  <2>3. Behind' = args
    BY <1>1, <1>2, <2>1, <2>2, CatEmpty DEF Behind
  <2>4. InPipe' = args
    BY <1>2, <2>2, <2>3, CatEmpty
  <2>5. m_hr # "S_OK"
    BY <1>1, <1>5 DEF ThreadTerminates, Flow, Closing, Inv, Control
  <2>6. ~IsSound'
    BY <1>1, <2>5 DEF IsSound
  <2>7. PICK front \in Seq(Items) : InPipe = Cat(front, args)
    <3>1. /\ Cat(m_ppSamples, Listed) \in Seq(Items)
          /\ Cat(m_ppSamples, Cat(Listed, args)) = Cat(Cat(m_ppSamples, Listed), args)
      BY <1>2, CatLaws
    <3> QED BY <1>4, <3>1
  <2> QED BY <1>1, <1>2, <2>4, <2>6, <2>7, Thrown
<1>6. CASE ThreadLoop /\ ~m_bFlushing
  <2> DEFINE first == IF m_List = <<>> THEN NoPacket ELSE Head(m_List)
             batch == IF IsData(first) THEN Append(m_ppSamples, first) ELSE m_ppSamples
  <2>1. /\ m_List' = (IF m_List = <<>> THEN <<>> ELSE Tail(m_List))
        /\ \/ sending' = batch /\ special' = NoPacket /\ m_ppSamples' = <<>> /\ IsData(first)
           \/ /\ sending' = sending /\ special' = special /\ m_ppSamples' = batch
              /\ IsData(first) \/ first = Send \/ first = NoPacket
           \/ sending' = batch /\ special' = first /\ m_ppSamples' = <<>> /\ ~IsData(first)
    BY <1>6, Zenon DEF ThreadLoop, TakeBatch
  <2>2. first \in Seen \cup Commands \cup {NoPacket}
    BY <1>1, FirstOfList DEF Stocked
  <2>3. PICK f : f = Sift(<<first>>)
    OBVIOUS
  <2>4. /\ IsData(first) => f = <<first>>
        /\ first = Send \/ first = NoPacket => f = <<>>
    <3>1. IsData(first) => first \in Items
      BY <1>1, <2>2, Pieces, CommandKinds, PacketKinds DEF IsData
    <3>2. Send \notin Items /\ NoPacket \notin Items
      BY DEF Send, NoPacket, Items
    <3> HIDE DEF first
    <3> QED BY <2>3, <3>1, <3>2, SiftOne
  <2>5. f \in Seq(Items)
    <3>1. first \in Seen \cup Commands \cup {NoPacket} => <<first>> \in Seq(Seen \cup Commands \cup {NoPacket})
      OBVIOUS
    <3>2. (Seen \cup Commands \cup {NoPacket}) \cap Items \subseteq Items
      OBVIOUS
    <3> HIDE DEF first
    <3> QED BY <2>2, <2>3, <3>1, <3>2, SiftType
  <2>6. Listed = Cat(f, Listed')
    BY <1>1, <2>1, <2>3, FirstListed
  <2>7. batch = IF IsData(first) THEN Cat(m_ppSamples, f) ELSE m_ppSamples
    <3>1. m_ppSamples \in Seq(Seen) /\ (IsData(first) => first \in Seen)
      BY <1>1, <2>2, CommandKinds, PacketKinds DEF IsData, Stocked
    <3>2. IsData(first) => Append(m_ppSamples, first) = m_ppSamples \o <<first>>
      BY <3>1, AppendIsConcat
    <3> QED BY <2>4, <3>2 DEF Cat
  <2> HIDE DEF first, batch
  <2> DEFINE whole == Cat(m_ppSamples, Cat(f, Cat(Listed', args)))
  <2>8. InPipe = whole
    BY <1>2, <1>4, <2>5, <2>6, Turns
  <2>9. InPipe' = Cat(sending', Cat(Packet', Cat(m_ppSamples', Cat(Listed', args))))
    BY <1>1, <1>2 DEF Behind
  <2>0. /\ m_ppSamples \in Seq(Items) /\ f \in Seq(Items) /\ Listed' \in Seq(Items)
        /\ args \in Seq(Items)
    BY <1>1, <1>2, <2>5
  <2>10. InPipe' = whole
    <3>1. CASE sending' = batch /\ special' = NoPacket /\ m_ppSamples' = <<>> /\ IsData(first)
      <4>1. InPipe' = Cat(Cat(m_ppSamples, f), Cat(<<>>, Cat(<<>>, Cat(Listed', args))))
        BY <2>7, <2>9, <3>1, NoPacketAfter
      <4>2. Cat(Cat(m_ppSamples, f), Cat(<<>>, Cat(<<>>, Cat(Listed', args)))) = whole
        BY <2>0, Turns
      <4> QED BY <4>1, <4>2
    <3>2. CASE sending' = sending /\ special' = special /\ m_ppSamples' = batch /\ IsData(first)
      <4>1. InPipe' = Cat(<<>>, Cat(<<>>, Cat(Cat(m_ppSamples, f), Cat(Listed', args))))
        BY <1>1, <2>7, <2>9, <3>2, NoPacketAfter
      <4>2. Cat(<<>>, Cat(<<>>, Cat(Cat(m_ppSamples, f), Cat(Listed', args)))) = whole
        BY <2>0, Turns
      <4> QED BY <4>1, <4>2
    <3>3. CASE /\ sending' = sending /\ special' = special /\ m_ppSamples' = batch
               /\ ~IsData(first) /\ (first = Send \/ first = NoPacket)
      <4>1. InPipe' = Cat(<<>>, Cat(<<>>, Cat(m_ppSamples, Cat(Listed', args)))) /\ f = <<>>
        BY <1>1, <2>4, <2>7, <2>9, <3>3, NoPacketAfter
      <4>2. Cat(<<>>, Cat(Listed', args)) = Cat(Listed', args)
            /\ Cat(m_ppSamples, Cat(Listed', args)) \in Seq(Items)
        <5>1. Cat(Listed', args) \in Seq(Items)
          BY <2>0, CatLaws
        <5>2. Cat(m_ppSamples, Cat(Listed', args)) \in Seq(Items)
          BY <2>0, <5>1, CatLaws
        <5> QED BY <5>1, <5>2, CatEmpty
      <4> QED BY <4>1, <4>2, CatEmpty
    <3>4. CASE sending' = batch /\ special' = first /\ m_ppSamples' = <<>> /\ ~IsData(first)
      <4>1. Packet' = f
        BY <2>3, <3>4 DEF Packet
      <4>2. InPipe' = Cat(m_ppSamples, Cat(f, Cat(<<>>, Cat(Listed', args))))
        BY <2>7, <2>9, <3>4, <4>1
      <4>3. Cat(m_ppSamples, Cat(f, Cat(<<>>, Cat(Listed', args)))) = whole
        <5>1. Cat(Listed', args) \in Seq(Items)
          BY <2>0, CatLaws
        <5>2. Cat(<<>>, Cat(Listed', args)) = Cat(Listed', args)
          BY <5>1, CatEmpty
        <5> QED BY <5>2
      <4> QED BY <4>2, <4>3
    <3> QED BY <2>1, <3>1, <3>2, <3>3, <3>4
  <2>11. IsSound' = IsSound
    BY <1>1 DEF IsSound
  <2> QED BY <1>1, <2>8, <2>10, <2>11, Still
<1> QED BY <1>5, <1>6

LEMMA SplitAt ==
    ASSUME NEW S, NEW a \in Seq(S), NEW k \in 0 .. Len(a)
    PROVE  \E c, r \in Seq(S) : /\ a = Cat(c, r) /\ r = SubSeq(a, k + 1, Len(a)) /\ Len(c) = k
                                /\ \A i \in 1 .. k : c[i] = a[i]
<1>1. PICK c, r : c = SubSeq(a, 1, k) /\ r = SubSeq(a, k + 1, Len(a))
  OBVIOUS
<1>2. /\ Len(a) \in Nat /\ k \in Nat /\ c \in Seq(S) /\ Len(c) = k
      /\ \A i \in 1 .. k : c[i] = a[i]
  BY <1>1
<1>3. r \in Seq(S) /\ Len(r) = Len(a) - k /\ \A i \in 1 .. Len(a) - k : r[i] = a[k + i]
  BY <1>1, Suffix
<1>4. PICK l \in Seq(S) : l = Cat(c, r)
  BY <1>2, <1>3, CatLaws
<1>5. /\ Len(l) = Len(a)
      /\ \A i \in 1 .. k : l[i] = c[i]
      /\ \A i \in 1 .. Len(a) - k : l[k + i] = r[i]
  <2>1. c \in Seq(S) /\ r \in Seq(S)
    BY <1>2, <1>3
  <2>2. Len(Cat(c, r)) = Len(c) + Len(r)
    BY <2>1, CatParts
  <2>3. \A i \in 1 .. Len(c) : Cat(c, r)[i] = c[i]
    BY <2>1, CatParts
  <2>4. \A i \in 1 .. Len(r) : Cat(c, r)[Len(c) + i] = r[i]
    BY <2>1, CatParts
  <2> QED BY <1>2, <1>3, <1>4, <2>2, <2>3, <2>4
<1>6. ASSUME NEW i \in 1 .. Len(a) PROVE l[i] = a[i]
  <2>1. CASE i <= k
    BY <1>2, <1>5, <2>1
  <2>2. CASE i > k
    <3>1. PICK j \in 1 .. Len(a) - k : i = k + j
      <4>1. i - k \in 1 .. Len(a) - k /\ i = k + (i - k)
        BY <1>2, <2>2
      <4> QED BY <4>1
    <3> QED BY <1>3, <1>5, <3>1
  <2> QED BY <1>2, <2>1, <2>2
<1>7. l = a
  BY <1>5, <1>6, SeqEqual
<1> QED BY <1>1, <1>2, <1>3, <1>4, <1>7

\* Without a thread there is nothing but the batch and what the call has.
LEMMA DirectPipe ==
    ASSUME Inv, Flow, Inv', Flow', ~mode.queued, mode' = mode
    PROVE  /\ InPipe = Cat(m_ppSamples, args) /\ InPipe' = Cat(m_ppSamples', args')
           /\ {<<>>, m_ppSamples, args} \subseteq Seq(Items)
           /\ {<<>>, m_ppSamples, args}' \subseteq Seq(Items)
           /\ qpc = "none" /\ qpc' = "none"
<1>1. qpc = "none" /\ qpc' = "none"
  BY DEF Inv, Control
<1>2. /\ sending = <<>> /\ special = NoPacket /\ m_List = <<>>
      /\ sending' = <<>> /\ special' = NoPacket /\ m_List' = <<>>
  BY <1>1 DEF Flow, ThreadPlaces
<1>3. Packet = <<>> /\ Packet' = <<>> /\ Listed = <<>> /\ Listed' = <<>>
  <2>1. NoPacket \notin Items
    BY DEF NoPacket, Items
  <2> QED BY <1>2, <2>1, SiftOne, SiftEmpty DEF Packet, Listed
<1>4. /\ {<<>>, sending, Packet, m_ppSamples, Listed, args, Behind} \subseteq Seq(Items)
      /\ {<<>>, sending, Packet, m_ppSamples, Listed, args, Behind}' \subseteq Seq(Items)
      /\ InPipe = Cat(sending, Cat(Packet, Behind))
      /\ InPipe' = Cat(sending', Cat(Packet', Behind'))
  BY InPieces DEF Flow
<1>5. Behind = Cat(m_ppSamples, args)
  BY <1>3, <1>4, CatEmpty DEF Behind
<1>6. Behind' = Cat(m_ppSamples', args')
  BY <1>3, <1>4, CatEmpty DEF Behind
<1> QED BY <1>1, <1>2, <1>3, <1>4, <1>5, <1>6, CatEmpty

\* The downstream pin takes some of a batch, or all of it.
LEMMA ReturnMoves ==
    ASSUME Inv, Flow, Inv', Flow', DownstreamReturns
    PROVE  [Pipe!Next]_(Pipe!vars)
<1>1. PICK res \in Results, k \in 0 .. MaxAtOnce + mode.size :
          DirectReturns(k, res) \/ ThreadReturns(k, res)
  BY DEF DownstreamReturns
<1>2. CASE ThreadReturns(k, res)
  <2>1. /\ UNCHANGED <<special, m_ppSamples, m_List, args, flushes, m_hr, m_bTerminate, apc,
                       downFlushing>> /\ qpc = "deliver" /\ qpc' = "result" /\ mode.queued
        /\ Downstream(Len(sending), k, res)
        /\ sending' = SubSeq(sending, k + 1, Len(sending))
        /\ last' = (IF k = 0 THEN last ELSE sending[k].n)
    BY <1>2 DEF ThreadReturns, streamVars, queueVars, signalVars, flagVars, countVars
  <2>2. /\ {<<>>, sending, Packet, Behind} \subseteq Seq(Items)
        /\ InPipe = Cat(sending, Cat(Packet, Behind))
        /\ InPipe' = Cat(sending', Cat(Packet', Behind'))
        /\ Packet' = Packet /\ Behind' = Behind
    BY <2>1, InPieces, BehindStays DEF Flow, Packet
  <2>3. k \in 0 .. Len(sending)
    BY <2>1, <2>2, EmptySeq DEF Downstream
  <2>4. PICK c, r \in Seq(Items) : /\ sending = Cat(c, r) /\ r = sending' /\ Len(c) = k
                                   /\ \A i \in 1 .. k : c[i] = sending[i]
    <3>1. sending \in Seq(Items)
      BY <2>2
    <3>2. PICK c, r \in Seq(Items) :
              /\ sending = Cat(c, r) /\ r = SubSeq(sending, k + 1, Len(sending)) /\ Len(c) = k
              /\ \A i \in 1 .. k : c[i] = sending[i]
      BY <2>3, <3>1, SplitAt
    <3> QED BY <2>1, <3>2
  <2>5. PICK rest \in Seq(Items) : rest = Cat(Packet, Behind)
    BY <2>2, CatLaws
  <2>6. Cat(Cat(c, r), rest) = Cat(c, Cat(r, rest)) /\ Cat(r, rest) \in Seq(Items)
    BY CatLaws
  <2>7. InPipe = Cat(c, InPipe') /\ InPipe' \in Seq(Items)
    BY <2>2, <2>4, <2>5, <2>6
  <2>8. apc # "destroyed"
    BY <2>1 DEF Flow, Closing
  <2>9. CASE k = 0
    <3>1. c = <<>>
      BY <2>4, <2>9, EmptySeq
    <3>2. InPipe = InPipe'
      BY <2>7, <3>1, CatEmpty
    <3>3. last' = last
      BY <2>1, <2>9
    <3>4. CASE IsSound'
      <4>1. IsSound' = IsSound
        BY <2>1, <3>4 DEF IsSound
      <4> QED BY <2>1, <3>2, <3>3, <4>1, Still
    <3>5. CASE ~IsSound'
      BY <2>1, <2>4, <2>7, <3>3, <3>5, Thrown
    <3> QED BY <3>4, <3>5
  <2>10. CASE k # 0
    <3>1. ~downFlushing
      BY <2>1, <2>10 DEF Downstream
    <3>2. IsSound
      BY <2>1, <2>8, <3>1 DEF IsSound
    <3>3. k \in 1 .. Len(c) /\ last' = c[k].n /\ ~(k < Len(c))
      BY <2>1, <2>3, <2>4, <2>10
    <3> QED BY <2>1, <2>4, <2>7, <3>2, <3>3, CameOut
  <2> QED BY <2>9, <2>10
<1>3. CASE DirectReturns(k, res)
  <2>1. /\ UNCHANGED <<mode, args, flushes, m_bTerminate, apc, downFlushing>> /\ spc = "deliver"
        /\ ~mode.queued /\ Downstream(Len(m_ppSamples), k, res) /\ m_ppSamples' = <<>>
        /\ last' = (IF k = 0 THEN last ELSE m_ppSamples[k].n) /\ m_hr' = res
        /\ m_hr = "S_OK" /\ m_ppSamples # <<>> /\ apc # "destroyed"
    BY <1>3 DEF DirectReturns, streamVars, threadVars, countVars, Flow, StreamPlaces, Inv, Control
  <2>2. /\ InPipe = Cat(m_ppSamples, args) /\ InPipe' = Cat(<<>>, args)
        /\ m_ppSamples \in Seq(Items) /\ args \in Seq(Items) /\ qpc = "none" /\ qpc' = "none"
    BY <2>1, DirectPipe
  <2>3. InPipe' = args
    BY <2>2, CatEmpty
  <2>4. k \in 0 .. Len(m_ppSamples) /\ (k < Len(m_ppSamples) => res # "S_OK") /\ Len(m_ppSamples) > 0
    BY <2>1, <2>2, EmptySeq DEF Downstream
  <2>5. CASE k = 0
    <3>1. ~IsSound'
      BY <2>1, <2>2, <2>4, <2>5 DEF IsSound
    <3> QED BY <2>1, <2>2, <2>3, <2>5, <3>1, Thrown
  <2>6. CASE k # 0
    <3>1. ~downFlushing /\ ~m_bTerminate
      BY <2>1, <2>6 DEF Downstream, Flow, Closing
    <3>2. IsSound /\ (k < Len(m_ppSamples) => ~IsSound')
      BY <2>1, <2>2, <2>4, <3>1 DEF IsSound
    <3>3. k \in 1 .. Len(m_ppSamples) /\ last' = m_ppSamples[k].n
      BY <2>1, <2>4, <2>6
    <3> QED BY <2>1, <2>2, <2>3, <3>2, <3>3, CameOut
  <2> QED BY <2>5, <2>6
<1> QED BY <1>1, <1>2, <1>3

\* Items that go to the back of the list go to the back of what is listed.
LEMMA ListedGrows ==
    ASSUME NEW s \in Seq(Items), NEW X, m_List \in Seq(X), s \in Seq(X), m_List' = m_List \o s
    PROVE  Listed' = Cat(Listed, s)
<1>1. Sift(m_List \o s) = Sift(m_List) \o Sift(s)
  BY SiftOfConcat
<1>2. Sift(s) = s
  BY SiftOfItems
<1> QED BY <1>1, <1>2 DEF Listed, Cat

\* A call hands in one or more items of one kind.
LEMMA HandedIn ==
    ASSUME Flow, Flow', args = <<>>, NEW kind \in {"sample", "segment", "eos"}, NEW k \in Nat \ {0},
           issued' = issued + k, k <= MaxItems - issued,
           UNCHANGED <<sending, special, m_ppSamples, last, IsSound, flushes>>,
           \/ m_List' = m_List \o New(kind, k) /\ args' = <<>>
           \/ m_List' = m_List /\ args' = New(kind, k)
    PROVE  Pipe!Next
<1>1. Stocked /\ Stocked'
  BY DEF Flow
<1>2. /\ {<<>>, sending, Packet, m_ppSamples, Listed, args, Behind} \subseteq Seq(Items)
      /\ {<<>>, sending, Packet, m_ppSamples, Listed, args, Behind}' \subseteq Seq(Items)
      /\ InPipe = Cat(sending, Cat(Packet, Behind))
      /\ InPipe' = Cat(sending', Cat(Packet', Behind'))
  BY <1>1, InPieces
<1>3. PICK n : n = New(kind, k)
  OBVIOUS
<1>4. n \in Seq(Seen') /\ Seq(Seen \cup Commands) \subseteq Seq((Seen \cup Commands)')
  BY <1>1, <1>3, NewSeen
<1>5. n \in Seq(Items) /\ n \in Seq((Seen \cup Commands)') /\ m_List \in Seq((Seen \cup Commands)')
  <2>1. Seen' \subseteq Items
    BY <1>1, OutputQueueAssumption DEF Stocked, Seen, Items
  <2> QED BY <1>1, <1>4, <2>1, SeqMonotonic DEF Stocked
<1>6. Cat(Listed', args') = Cat(Listed, n)
  <2>1. CASE m_List' = m_List \o New(kind, k) /\ args' = <<>>
    <3>1. Listed' = Cat(Listed, n)
      BY <1>3, <1>5, <2>1, ListedGrows
    <3> QED BY <1>2, <2>1, <3>1, CatEmpty
  <2>2. CASE m_List' = m_List /\ args' = New(kind, k)
    BY <1>3, <2>2 DEF Listed
  <2> QED BY <2>1, <2>2
<1>7. Cat(Listed, args) = Listed
  BY <1>2, CatEmpty
<1>8. InPipe = Cat(sending, Cat(Packet, Cat(m_ppSamples, Listed)))
  BY <1>2, <1>7 DEF Behind
<1>9. InPipe' = Cat(sending, Cat(Packet, Cat(m_ppSamples, Cat(Listed, n))))
  BY <1>2, <1>6 DEF Behind, Packet
<1>10. sending \in Seq(Items) /\ Packet \in Seq(Items) /\ m_ppSamples \in Seq(Items)
       /\ Listed \in Seq(Items)
  BY <1>2
<1>11. InPipe' = Cat(InPipe, n)
  <2>1. n \in Seq(Items)
    BY <1>5
  <2>2. PICK b \in Seq(Items) : b = Cat(m_ppSamples, Listed)
    BY <1>10, CatLaws
  <2>3. PICK p \in Seq(Items) : p = Cat(Packet, b)
    BY <1>10, CatLaws
  <2>4. Cat(m_ppSamples, Cat(Listed, n)) = Cat(b, n)
    BY <1>10, <2>1, <2>2, CatLaws
  <2>5. Cat(Packet, Cat(b, n)) = Cat(p, n)
    BY <1>10, <2>1, <2>3, CatLaws
  <2>6. Cat(sending, Cat(p, n)) = Cat(Cat(sending, p), n)
    BY <1>10, <2>1, CatLaws
  <2> QED BY <1>8, <1>9, <2>2, <2>3, <2>4, <2>5, <2>6
<1> QED BY <1>1, <1>3, <1>11, GoesIn

\* The streaming thread hands in items.
LEMMA CallMoves ==
    ASSUME Inv, Flow, Flow',
           \/ \E k \in 1 .. MaxAtOnce : ReceiveQueued(k) \/ ReceiveDirect(k)
           \/ EOSQueued \/ EOSDirect \/ NewSegmentQueued \/ NewSegmentDirect
    PROVE  Pipe!Next
<1>0. Stocked /\ issued \in Nat /\ args = <<>> /\ MaxItems \in Nat /\ MaxAtOnce \in Nat
  BY OutputQueueAssumption DEF Flow, Stocked, StreamPlaces, ReceiveQueued, ReceiveDirect, DirectCall,
     EOSQueued, EOSDirect, NewSegmentQueued, NewSegmentDirect, MayCall
<1>1. ASSUME NEW k \in 1 .. MaxAtOnce, ReceiveQueued(k) PROVE Pipe!Next
  <2>1. k \in Nat \ {0}
    BY <1>0
  <2>2. /\ UNCHANGED <<sending, special, m_ppSamples, last, flushes, IsSound, args>>
        /\ issued' = issued + k /\ k <= MaxItems - issued /\ m_List' = m_List \o New("sample", k)
    BY <1>1 DEF ReceiveQueued, IsSound, streamVars, threadVars, outVars
  <2>3. args' = <<>>
    BY <1>0, <2>2
  <2>4. "sample" \in {"sample", "segment", "eos"}
    OBVIOUS
  <2> QED BY <1>0, <2>1, <2>2, <2>3, <2>4, HandedIn
<1>2. ASSUME NEW k \in 1 .. MaxAtOnce, ReceiveDirect(k) PROVE Pipe!Next
  <2>1. k \in Nat \ {0} /\ Len(New("sample", k)) = k
    BY <1>0, NewItems
  <2>2. /\ UNCHANGED <<sending, special, m_ppSamples, m_List, last, flushes, IsSound>>
        /\ issued' = issued + Len(New("sample", k)) /\ k <= MaxItems - issued
        /\ args' = New("sample", k)
    BY <1>2 DEF ReceiveDirect, DirectCall, IsSound, threadVars, queueVars, outVars
  <2>3. issued' = issued + k
    BY <2>1, <2>2
  <2> QED BY <1>0, <2>1, <2>2, <2>3, HandedIn
<1>3. CASE EOSQueued
  <2>1. m_List' = m_List \o New("eos", 1)
    BY <1>3, EnqueueIsConcat DEF EOSQueued
  <2>2. /\ UNCHANGED <<sending, special, m_ppSamples, last, flushes, IsSound, args>>
        /\ issued' = issued + 1 /\ 1 <= MaxItems - issued
    BY <1>0, <1>3 DEF EOSQueued, IsSound, streamVars, threadVars, outVars
  <2> QED BY <1>0, <2>1, <2>2, HandedIn
<1>4. CASE EOSDirect
  <2>1. Len(New("eos", 1)) = 1
    BY <1>0, OneNew
  <2>2. /\ UNCHANGED <<sending, special, m_ppSamples, m_List, last, flushes, IsSound>>
        /\ issued' = issued + Len(New("eos", 1)) /\ 1 <= MaxItems - issued
        /\ args' = New("eos", 1)
    BY <1>0, <1>4 DEF EOSDirect, DirectCall, IsSound, threadVars, queueVars, outVars
  <2>3. issued' = issued + 1
    BY <2>1, <2>2
  <2> QED BY <1>0, <2>2, <2>3, HandedIn
<1>5. CASE NewSegmentQueued \/ NewSegmentDirect
  <2>1. /\ UNCHANGED <<sending, special, m_ppSamples, m_List, last, flushes, IsSound>>
        /\ issued' = issued + 1 /\ 1 <= MaxItems - issued
        /\ args' = New("segment", 1)
    BY <1>0, <1>5 DEF NewSegmentQueued, NewSegmentDirect, IsSound, threadVars, queueVars, flagVars,
       outVars
  <2> QED BY <1>0, <2>1, HandedIn
<1> QED BY <1>1, <1>2, <1>3, <1>4, <1>5

\* A packet that only tells the thread what to do is not in the pipe.
LEMMA CommandListed ==
    ASSUME Stocked, NEW c \in Commands, Enqueue(c)
    PROVE  Listed' = Listed
<1>1. m_List \in Seq(Seen \cup Commands) /\ c \in Seen \cup Commands /\ <<c>> \in Seq(Seen \cup Commands)
  BY DEF Stocked
<1>2. m_List' = m_List \o <<c>>
  BY <1>1, AppendIsConcat DEF Enqueue
<1>3. Sift(m_List \o <<c>>) = Sift(m_List) \o Sift(<<c>>)
  BY <1>1, SiftOfConcat
<1>4. c \notin Items
  BY DEF Commands, Send, ResetMsg, Items
<1>5. Sift(<<c>>) = <<>>
  BY <1>4, SiftOne
<1>6. Listed \in Seq(Items)
  BY ItemsInPieces
<1>7. Listed \o <<>> = Listed
  BY <1>6, ConcatEmptySeq
<1> QED BY <1>2, <1>3, <1>5, <1>7 DEF Listed

\* What the streaming thread does without handing anything in.
LEMMA StreamMoves ==
    ASSUME Inv, Flow, Inv', Flow', \A m \in Modes : m.queued \/ m.exact \/ m.size = 1,
           \/ SendAnywayQueued \/ ResetQueued \/ NewSegmentEnqueue \/ ResetWait
           \/ SendAnywayDirect \/ NewSegmentLock \/ ResetDirect
           \/ DirectLoop \/ DirectEos \/ DirectSegment
    PROVE  [Pipe!Next]_(Pipe!vars)
<1>1. CASE SendAnywayQueued \/ ResetQueued
  <2>1. PICK c \in Commands : Enqueue(c)
    BY <1>1 DEF SendAnywayQueued, ResetQueued, Commands
  <2>2. Listed' = Listed
    BY <2>1, CommandListed DEF Flow
  <2>3. UNCHANGED <<sending, special, m_ppSamples, args, last, flushes, IsSound>>
    BY <1>1 DEF SendAnywayQueued, ResetQueued, IsSound, streamVars, threadVars, flagVars, countVars,
       outVars
  <2>4. InPipe' = InPipe
    BY <2>2, <2>3 DEF InPipe, WithThread, InQueue, Listed
  <2> QED BY <2>3, <2>4, Still
<1>2. CASE NewSegmentEnqueue
  <2>1. /\ UNCHANGED <<sending, special, m_ppSamples, last, flushes, IsSound>>
        /\ m_List' = m_List \o args /\ args' = <<>>
    BY <1>2 DEF NewSegmentEnqueue, StreamIdle, IsSound, threadVars, flagVars, countVars, outVars
  <2>2. args \in Seq(Items) /\ args \in Seq(Seen \cup Commands) /\ m_List \in Seq(Seen \cup Commands)
        /\ Listed \in Seq(Items) /\ Stocked
    BY ItemsInPieces, SeqMonotonic DEF Flow, Stocked
  <2>3. Listed' = Cat(Listed, args)
    BY <2>1, <2>2, ListedGrows
  <2>4. Cat(Listed', args') = Cat(Listed, args)
    <3>1. Cat(Listed, args) \in Seq(Items)
      BY <2>2, CatLaws
    <3> QED BY <2>1, <2>3, <3>1, CatEmpty
  <2>5. InPipe' = InPipe
    BY <2>1, <2>4, InPieces DEF Flow, Behind, Packet
  <2> QED BY <2>1, <2>5, Still
<1>3. CASE ResetWait \/ SendAnywayDirect \/ NewSegmentLock
  <2>1. /\ UNCHANGED <<sending, special, m_ppSamples, m_List, last, flushes, IsSound>>
        /\ args' \in {args, <<>>} /\ (args' # args => spc \in {"idle", "reset"})
    BY <1>3 DEF ResetWait, SendAnywayDirect, DirectCall, MayCall, NewSegmentLock, StreamIdle, IsSound,
       threadVars, queueVars, flagVars, countVars, outVars
  <2>2. args' = args
    BY <2>1 DEF Flow, StreamPlaces
  <2>3. InPipe' = InPipe
    BY <2>1, <2>2 DEF InPipe, WithThread, InQueue
  <2> QED BY <2>1, <2>3, Still
<1>4. CASE ResetDirect
  <2>1. /\ UNCHANGED <<sending, special, m_ppSamples, m_List, args, last, flushes, m_bTerminate,
                       apc, downFlushing, qpc>> /\ m_hr' = "S_OK"
    BY <1>4 DEF ResetDirect, streamVars, threadVars, queueVars, outVars, countVars
  <2>2. InPipe' = InPipe
    BY <2>1 DEF InPipe, WithThread, InQueue
  <2>3. CASE IsSound' = IsSound
    BY <2>1, <2>2, <2>3, Still
  <2>4. CASE IsSound' # IsSound
    <3>1. ~IsSound /\ IsSound' = TRUE
      BY <2>1, <2>4 DEF IsSound
    <3> QED BY <2>1, <2>2, <3>1 DEF Pipe!Next, Pipe!Reset
  <2> QED BY <2>3, <2>4
<1>5. CASE DirectLoop
  <2>1. /\ UNCHANGED <<mode, last, flushes, m_hr, IsSound>> /\ ~mode.queued
    BY <1>5 DEF DirectLoop, IsSound, threadVars, flagVars, countVars, outVars, Inv, Control
  <2>2. /\ InPipe = Cat(m_ppSamples, args) /\ InPipe' = Cat(m_ppSamples', args')
        /\ m_ppSamples \in Seq(Items) /\ args \in Seq(Items) /\ args' \in Seq(Items)
        /\ qpc' = "none"
    BY <2>1, DirectPipe
  <2>3. m_hr # "S_OK" => ~IsSound'
    BY <2>1, <2>2 DEF IsSound
  <2>4. CASE op = "Receive" /\ args # <<>>
    <3>1. /\ args' = Tail(args)
          /\ \/ m_ppSamples' = Append(m_ppSamples, Head(args))
             \/ m_ppSamples' = <<>> /\ m_hr # "S_OK"
      BY <1>5, <2>4 DEF DirectLoop
    <3>2. PICK h \in Seq(Items) : h = <<Head(args)>>
      <4>1. PICK x \in Items : x = Head(args)
        BY <2>2, <2>4, FirstOfList
      <4>2. <<x>> \in Seq(Items)
        OBVIOUS
      <4> QED BY <4>1, <4>2
    <3>3. args = Cat(h, args') /\ Append(m_ppSamples, Head(args)) = Cat(m_ppSamples, h)
      <4>1. args = <<Head(args)>> \o Tail(args)
        BY <2>2, <2>4, HeadTailProperties
      <4>2. Head(args) \in Items
        BY <2>2, <2>4, FirstOfList
      <4>3. Append(m_ppSamples, Head(args)) = m_ppSamples \o <<Head(args)>>
        BY <2>2, <4>2, AppendIsConcat
      <4> QED BY <3>1, <3>2, <4>1, <4>3 DEF Cat
    <3>4. Cat(m_ppSamples, Cat(h, args')) = Cat(Cat(m_ppSamples, h), args')
      BY <2>2, CatLaws
    <3>5. CASE m_ppSamples' = Append(m_ppSamples, Head(args))
      <4>1. InPipe' = InPipe
        BY <2>2, <3>3, <3>4, <3>5
      <4> QED BY <2>1, <4>1, Still
    <3>6. CASE m_ppSamples' = <<>> /\ m_hr # "S_OK"
      <4>1. PICK b \in Seq(Items) : b = Cat(m_ppSamples, h)
        BY <2>2, CatLaws
      <4>2. InPipe = Cat(b, args') /\ InPipe' = args'
        BY <2>2, <3>3, <3>4, <3>6, <4>1, CatEmpty
      <4> QED BY <2>1, <2>2, <2>3, <3>6, <4>2, Thrown
    <3> QED BY <3>1, <3>5, <3>6
  <2>5. CASE ~(op = "Receive" /\ args # <<>>)
    <3>1. /\ args' = args \/ (args' = <<>> /\ op \notin {"EOS", "NewSegment"})
          /\ m_ppSamples' = m_ppSamples \/ (m_ppSamples' = <<>> /\ m_hr # "S_OK")
      BY <1>5, <2>5 DEF DirectLoop, LoopEnds, StreamIdle
    <3>2. args' = args
      BY <1>5, <2>5, <3>1 DEF DirectLoop, Flow, StreamPlaces
    <3>3. CASE m_ppSamples' = m_ppSamples
      <4>1. InPipe' = InPipe
        BY <2>2, <3>2, <3>3
      <4> QED BY <2>1, <4>1, Still
    <3>4. CASE m_ppSamples' = <<>> /\ m_hr # "S_OK"
      <4>1. InPipe' = args
        BY <2>2, <3>2, <3>4, CatEmpty
      <4> QED BY <2>1, <2>2, <2>3, <3>4, <4>1, Thrown
    <3> QED BY <3>1, <3>3, <3>4
  <2> QED BY <2>4, <2>5
<1>6. CASE DirectEos
  <2>1. /\ UNCHANGED <<mode, m_ppSamples, flushes, IsSound>> /\ ~mode.queued /\ args' = <<>>
        /\ spc = "eos" /\ Len(args) = 1
        /\ last' = (IF m_hr = "S_OK" /\ ~downFlushing THEN args[1].n ELSE last)
    BY <1>6 DEF DirectEos, StreamIdle, IsSound, threadVars, queueVars, flagVars, countVars, Inv,
       Control, Flow, StreamPlaces
  <2>2. m_ppSamples = <<>>
    BY <2>1 DEF Flow, Values, StreamPlaces
  <2>3. /\ InPipe = Cat(m_ppSamples, args) /\ InPipe' = Cat(m_ppSamples', args')
        /\ <<>> \in Seq(Items) /\ args \in Seq(Items) /\ qpc = "none"
    BY <2>1, DirectPipe
  <2>4. InPipe = Cat(args, <<>>) /\ InPipe' = <<>>
    BY <2>1, <2>2, <2>3, CatEmpty
  <2>5. CASE IsSound
    <3>1. last' = args[1].n
      BY <2>1, <2>3, <2>5 DEF IsSound
    <3>2. 1 \in 1 .. Len(args) /\ ~(1 < Len(args))
      BY <2>1
    <3> QED BY <2>1, <2>3, <2>4, <2>5, <3>1, <3>2, CameOut
  <2>6. CASE ~IsSound
    <3>1. apc # "destroyed" /\ ~m_bTerminate
      BY <2>1 DEF Inv, Control, Flow, Closing
    <3>2. last' = last
      BY <2>1, <2>6, <3>1 DEF IsSound
    <3> QED BY <2>1, <2>3, <2>4, <2>6, <3>2, Thrown
  <2> QED BY <2>5, <2>6
<1>7. CASE DirectSegment
  <2>1. /\ UNCHANGED <<mode, m_ppSamples, flushes, IsSound>> /\ ~mode.queued /\ args' = <<>>
        /\ spc = "segment" /\ Len(args) = 1 /\ args[1].kind = "segment" /\ last' = args[1].n
    BY <1>7 DEF DirectSegment, StreamIdle, IsSound, threadVars, queueVars, flagVars, countVars,
       Flow, StreamPlaces
  <2>2. /\ InPipe = Cat(m_ppSamples, args) /\ InPipe' = Cat(m_ppSamples, <<>>)
        /\ <<>> \in Seq(Items) /\ args \in Seq(Items) /\ m_ppSamples \in Seq(Items) /\ qpc = "none"
    BY <2>1, DirectPipe
  <2>3. args = <<args[1]>> /\ args[1] \in Items
    BY <2>1, <2>2
  <2>4. CASE IsSound
    <3>1. m_ppSamples = <<>>
      BY <2>1, <2>2, <2>4 DEF IsSound, Flow, Values, StreamPlaces
    <3>2. InPipe = Cat(args, <<>>) /\ InPipe' = <<>>
      BY <2>2, <3>1, CatEmpty
    <3>3. 1 \in 1 .. Len(args) /\ ~(1 < Len(args))
      BY <2>1
    <3> QED BY <2>1, <2>2, <2>4, <3>2, <3>3, CameOut
  <2>5. CASE ~IsSound
    <3>1. PICK e \in Items : e = args[1]
      BY <2>3
    <3>2. InPipe = Cat(m_ppSamples, Cat(<<e>>, <<>>))
      BY <2>2, <2>3, <3>1, CatEmpty
    <3>3. e.kind = "segment" /\ last' = e.n
      BY <2>1, <3>1
    <3> QED BY <2>1, <2>2, <2>5, <3>2, <3>3, NoticeOut
  <2> QED BY <2>4, <2>5
<1> QED BY <1>1, <1>2, <1>3, <1>4, <1>5, <1>6, <1>7

\* When a flush ends there is nothing in the pipe but segment notices.
LEMMA OnlyNotices ==
    ASSUME Inv, Flow, spc = "idle", mode.queued => Drained, ~mode.queued => m_ppSamples = <<>>
    PROVE  /\ \A i \in 1 .. Len(InPipe) : InPipe[i].kind = "segment"
           /\ qpc \notin {"deliver", "inEos"}
<1> DEFINE Notices == {i \in Items : i.kind = "segment"}
           X == {p \in Packets : p.kind \notin {"sample", "eos"}}
<1>0. mode.queued \in BOOLEAN /\ Stocked
  BY DEF Inv, Types, Mode, Flow
<1>1. /\ sending = <<>> /\ m_ppSamples = <<>> /\ args = <<>>
      /\ special.kind \notin {"sample", "eos"} /\ No("sample", m_List) /\ No("eos", m_List)
      /\ qpc \notin {"deliver", "inEos"}
  <2>1. CASE mode.queued
    BY <2>1 DEF Drained, Flow, ThreadPlaces, StreamPlaces
  <2>2. CASE ~mode.queued
    <3>1. qpc = "none" /\ m_List = <<>>
      BY <2>2 DEF Inv, Control, Flow, ThreadPlaces
    <3>2. sending = <<>> /\ special = NoPacket /\ args = <<>>
      BY <3>1 DEF Flow, ThreadPlaces, StreamPlaces
    <3> QED BY <2>2, <3>1, <3>2, EmptyHasNone DEF NoPacket
  <2> QED BY <1>0, <2>1, <2>2
<1>2. X \cap Items \subseteq Notices
  BY DEF Items
<1>3. Listed \in Seq(Notices)
  <2>1. m_List \in Seq(Packets)
    BY DEF Inv, Types
  <2>2. \A i \in 1 .. Len(m_List) : m_List[i] \in X
    BY <1>1, <2>1 DEF No
  <2>3. m_List \in Seq(X)
    BY <2>1, <2>2
  <2> HIDE DEF X, Notices
  <2> QED BY <1>2, <2>3, SiftType DEF Listed
<1>4. Packet \in Seq(Notices)
  <2>1. special \in Items => special \in Notices
    BY <1>1 DEF Items
  <2>2. special \in Notices => <<special>> \in Seq(Notices)
    OBVIOUS
  <2>3. <<>> \in Seq(Notices)
    BY EmptySeq
  <2> HIDE DEF Notices
  <2> QED BY <2>1, <2>2, <2>3, SiftOne DEF Packet
<1>5. InPipe = Cat(Packet, Listed)
  <2>1. InPipe = Cat(Cat(Cat(<<>>, Packet), Cat(<<>>, Listed)), <<>>)
    BY <1>1 DEF InPipe, WithThread, InQueue, Packet, Listed, Cat
  <2>2. Packet \in Seq(Items) /\ Listed \in Seq(Items)
    BY <1>0, ItemsInPieces
  <2>3. Cat(Packet, Listed) \in Seq(Items)
    BY <2>2, CatLaws
  <2> QED BY <2>1, <2>2, <2>3, CatEmpty
<1>6. InPipe \in Seq(Notices)
  <2> HIDE DEF Notices
  <2> QED BY <1>3, <1>4, <1>5, CatLaws
<1>7. \A i \in 1 .. Len(InPipe) : InPipe[i] \in Notices
  BY <1>6, ElementOfSeq
<1> QED BY <1>1, <1>7

\* A flush, and the destructor.
LEMMA ControlMoves ==
    ASSUME Inv, Flow, Inv', Flow', ControlCall \/ ControlStep
    PROVE  [Pipe!Next]_(Pipe!vars)
<1>0. Stocked /\ Stocked' /\ mode.queued \in BOOLEAN
  BY DEF Flow, Inv, Types, Mode
<1>1. CASE EndFlush \/ EndFlushDone
  <2>1. /\ UNCHANGED <<sending, special, m_ppSamples, m_List, args, last, m_bTerminate, downFlushing,
                       qpc>>
        /\ spc = "idle" /\ m_hr # "S_OK" /\ apc \in {"flushing", "sendOk"}
    BY <1>1 DEF EndFlush, EndFlushDone, streamVars, threadVars, queueVars, outVars, Inv, Control,
       Flow, Closing
  <2>2. InPipe' = InPipe
    BY <2>1 DEF InPipe, WithThread, InQueue
  <2>3. CASE EndFlush /\ ~(mode.opt /\ m_bFlushed /\ mode.queued)
    <3>1. UNCHANGED <<flushes, m_hr>> /\ apc = "flushing" /\ apc' = "wait"
      BY <2>3 DEF EndFlush
    <3>2. IsSound' = IsSound
      BY <2>1, <3>1 DEF IsSound
    <3> QED BY <2>1, <2>2, <3>1, <3>2, Still
  <2>4. CASE EndFlushDone \/ (EndFlush /\ mode.opt /\ m_bFlushed /\ mode.queued)
    <3>1. flushes' = flushes + 1 /\ m_hr' = "S_OK" /\ apc' = "idle"
      BY <2>4 DEF EndFlush, EndFlushDone
    <3>2. mode.queued => Drained
      BY <2>1, <2>4 DEF EndFlushDone, Flow, Closing, Inv, Drain
    <3>3. ~mode.queued => m_ppSamples = <<>>
      BY <2>4 DEF EndFlushDone, Flow, Closing
    <3>4. /\ \A i \in 1 .. Len(InPipe) : InPipe[i].kind = "segment"
          /\ qpc \notin {"deliver", "inEos"}
      BY <2>1, <3>2, <3>3, OnlyNotices
    <3>5. ~downFlushing /\ ~m_bTerminate
      BY <2>1, <2>4 DEF EndFlush, EndFlushDone, Flow, Closing
    <3>6. ~IsSound
      BY <2>1, <3>4 DEF IsSound
    <3>7. IsSound' = TRUE
      BY <2>1, <3>1, <3>5 DEF IsSound
    <3>8. Pipe!EndFlush
      BY <2>1, <2>2, <3>1, <3>4, <3>6, <3>7 DEF Pipe!EndFlush, Pipe!IsSegment
    <3> QED BY <3>8 DEF Pipe!Next
  <2> QED BY <1>0, <1>1, <2>3, <2>4 DEF Flow, Values
<1>2. CASE EndFlushFree \/ (Destroy /\ ~mode.queued)
  <2>1. /\ UNCHANGED <<mode, args, last, flushes, m_hr, downFlushing>> /\ ~mode.queued
        /\ m_ppSamples' = <<>>
    BY <1>2 DEF EndFlushFree, Destroy, FreeSamples, streamVars, countVars, outVars, flagVars
  <2>2. /\ InPipe = Cat(m_ppSamples, args) /\ InPipe' = Cat(m_ppSamples', args')
        /\ m_ppSamples \in Seq(Items) /\ args \in Seq(Items) /\ qpc' = "none"
    BY <2>1, DirectPipe
  <2>3. InPipe' = args
    BY <2>1, <2>2, CatEmpty
  <2>4. EndFlushFree => m_hr # "S_OK"
    BY DEF EndFlushFree, Inv, Control
  <2>5. Destroy /\ ~mode.queued => apc' = "destroyed"
    BY DEF Destroy
  <2>6. ~IsSound'
    BY <1>2, <2>1, <2>2, <2>4, <2>5 DEF IsSound
  <2> QED BY <2>1, <2>2, <2>3, <2>6, Thrown
<1>3. CASE \/ BeginFlush \/ BeginFlushLocked \/ BeginFlushDownstream \/ EndFlushWait
           \/ EndFlushClear \/ EndFlushDownstream \/ DestroyJoined \/ (Destroy /\ mode.queued)
  <2>1. /\ UNCHANGED <<sending, special, m_ppSamples, m_List, args, last, flushes, qpc>>
        /\ m_bTerminate' = m_bTerminate \/ m_hr' # "S_OK"
    BY <1>3 DEF BeginFlush, BeginFlushLocked, BeginFlushDownstream, EndFlushWait, EndFlushClear,
       EndFlushDownstream, DestroyJoined, Destroy, streamVars, threadVars, queueVars, flagVars,
       countVars, outVars
  <2>2. InPipe' = InPipe
    BY <2>1 DEF InPipe, WithThread, InQueue
  <2>3. IsSound' = IsSound \/ ~IsSound'
    <3>1. CASE BeginFlush \/ EndFlushWait \/ EndFlushClear \/ BeginFlushDownstream
      BY <3>1 DEF BeginFlush, EndFlushWait, EndFlushClear, BeginFlushDownstream, IsSound, flagVars,
         outVars, threadVars
    <3>2. CASE BeginFlushLocked \/ (Destroy /\ mode.queued)
      <4>1. /\ apc \notin {"destroyed"} /\ apc' \notin {"destroyed"} /\ m_hr' # "S_OK"
            /\ UNCHANGED <<downFlushing, qpc>>
        BY <2>1, <3>2 DEF BeginFlushLocked, Destroy, outVars
      <4> QED BY <4>1 DEF IsSound
    <3>3. CASE EndFlushDownstream
      <4>1. /\ UNCHANGED <<qpc, m_hr>> /\ m_hr # "S_OK" /\ m_bFlushed /\ spc = "idle"
            /\ apc = "sendEnd"
        BY <3>3 DEF EndFlushDownstream, threadVars, flagVars, Flow, Closing, Inv, Control
      <4>2. mode.queued => Drained
        BY <4>1 DEF Inv, Drain
      <4>3. qpc \notin {"deliver", "inEos"}
        BY <4>1, <4>2, OnlyNotices DEF Flow, Closing
      <4> QED BY <4>1, <4>3 DEF IsSound
    <3>4. CASE DestroyJoined
      BY <3>4 DEF DestroyJoined, IsSound
    <3> QED BY <1>3, <3>1, <3>2, <3>3, <3>4
  <2>4. CASE IsSound' = IsSound
    BY <2>1, <2>2, <2>4, Still
  <2>5. CASE ~IsSound'
    BY <1>0, <2>1, <2>2, <2>5, NothingMoves
  <2> QED BY <2>3, <2>4, <2>5
<1> QED
  BY <1>0, <1>1, <1>2, <1>3 DEF ControlCall, ControlStep

\* Whatever the interleaving of the streaming thread, the control thread and the
\* thread of the queue, items come out in the order they went in, none is passed
\* over while the downstream pin accepts everything, and nothing from before the
\* end of a flush comes out after it: for batches that are exact or of one sample
\* if there is no thread.
THEOREM QueueImplementsPipe ==
    ASSUME ~ResetAndFlush, \A m \in Modes : m.queued \/ m.exact \/ m.size = 1
    PROVE  Spec => ImplementsPipe
<1>1. Init => Pipe!Init
  <2> SUFFICES ASSUME Init PROVE Pipe!Init
    OBVIOUS
  <2>1. Flow /\ Inv
    BY InitFlow, InitInv
  <2>2. Sift(<<special>>) = <<>> /\ Sift(m_List) = <<>>
    BY SiftOne, SiftEmpty DEF Init, NoPacket, Items
  <2>3. InPipe = ((<<>> \o <<>>) \o (<<>> \o <<>>)) \o <<>>
    BY <2>2 DEF Init, InPipe, WithThread, InQueue
  <2>4. InPipe = <<>>
    BY <2>3
  <2>5. IsSound = TRUE
    BY DEF Init, IsSound
  <2> QED BY <2>4, <2>5 DEF Init, Pipe!Init
<1>2. ASSUME Inv /\ Flow, (Inv /\ Flow)', [Next]_vars PROVE [Pipe!Next]_(Pipe!vars)
  <2>1. CASE UNCHANGED vars
    BY <2>1, Still DEF vars, streamVars, threadVars, queueVars, flagVars, countVars, outVars, InPipe,
       WithThread, InQueue, IsSound
  <2>2. CASE StreamCall \/ StreamStep
    BY <1>2, <2>2, CallMoves, StreamMoves DEF StreamCall, StreamStep
  <2>3. CASE ThreadStep
    BY <1>2, <2>3, ThreadMoves, LoopMoves
  <2>4. CASE DownstreamReturns \/ ControlCall \/ ControlStep
    BY <1>2, <2>4, ReturnMoves, ControlMoves
  <2> QED
    BY <1>2, <2>1, <2>2, <2>3, <2>4 DEF Next, Destroyed
<1> QED
  BY <1>1, <1>2, FlowInvariance, PTL DEF Spec, ImplementsPipe, Pipe!Spec
=============================================================================
