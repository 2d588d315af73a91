------------------------- MODULE MemAllocatorProofs -------------------------
(***************************************************************************)
(* Proofs about MemAllocator, for any number of threads and samples: the   *)
(* types; the argument of amfilter.h:1412-1426 that no wake-up of          *)
(* GetBuffer is lost, with claim (2) corrected; that buffers and           *)
(* references are accounted for; and that the allocator implements the     *)
(* pool of BufferPool.                                                     *)
(***************************************************************************)
EXTENDS MemAllocator, FiniteSetTheorems, TLAPS

\* Threads are a finite set, so the set of those that wait is finite too.
LEMMA WaitingFinite ==
    /\ IsFiniteSet(Waiting)
    /\ Cardinality(Waiting) \in Nat
    /\ IsFiniteSet(Waiting')
    /\ Cardinality(Waiting') \in Nat
BY AllocatorAssumption, FS_Subset, FS_CardinalityType DEF Waiting

\* Moving one thread between labels other than "wait" leaves Waiting alone.
LEMMA GotoElsewhere ==
    ASSUME TypeOK, NEW t \in Threads, NEW l \in PCs,
           pc[t] # "wait", l # "wait", Goto(t, l)
    PROVE  Waiting' = Waiting
BY DEF TypeOK, Waiting, Goto

\* What a Commit does to the flags and to the allocator's own reference: it
\* cancels a pending decommit, or allocates, or fails to.
LEMMA CommitOutcome ==
    ASSUME NEW t \in Threads, Commit(t)
    PROVE  /\ ~m_bCommitted
           /\ \/ m_bDecommitInProgress /\ m_bCommitted' = TRUE /\ m_bDecommitInProgress' = FALSE
                   /\ UNCHANGED poolState /\ UNCHANGED m_cRef
              \/ /\ ~m_bDecommitInProgress /\ UNCHANGED m_bDecommitInProgress
                 /\ m_bCommitted' = TRUE /\ m_cRef' = m_cRef + 1 /\ Alloc(TRUE)
              \/ /\ ~m_bDecommitInProgress /\ UNCHANGED m_bDecommitInProgress
                 /\ m_bCommitted' = FALSE /\ m_cRef' = m_cRef /\ Alloc(FALSE)
<1>1. CASE m_bDecommitInProgress
  BY <1>1 DEF Commit, Pending, poolState
<1>2. CASE ~m_bDecommitInProgress
  <2>1. PICK ok \in BOOLEAN : Alloc(ok) /\ AddRefIf(ok) /\ m_bCommitted' = ok
    BY <1>2 DEF Commit, Pending
  <2>2. CASE ok = TRUE
    BY <1>2, <2>1, <2>2 DEF Commit, AddRefIf, Pending
  <2>3. CASE ok = FALSE
    BY <1>2, <2>1, <2>3 DEF Commit, AddRefIf, Pending
  <2> QED BY <2>2, <2>3
<1> QED BY <1>1, <1>2

\* The initial states have the right types.
LEMMA InitType == Init => TypeOK
<1> SUFFICES ASSUME Init PROVE TypeOK
  OBVIOUS
<1>1. Cardinality(client) \in Nat
  BY AllocatorAssumption, FS_Subset, FS_CardinalityType DEF Init
<1>2. m_cRef \in Int /\ client \in SUBSET Threads
  BY <1>1 DEF Init
<1>3. \A t \in Threads : pSample[t] # NoSample <=> pc[t] \in {"got", "last", "dec", "release"}
  BY DEF Init
<1>4. /\ sampleRef \in [Samples -> Int] /\ made \in [Samples -> Sizes \cup {0}]
      /\ pc \in [Threads -> PCs] /\ pSample \in [Threads -> Samples \cup {NoSample}]
      /\ held \in [Threads -> SUBSET Samples]
  BY DEF Init, PCs
<1> QED BY <1>2, <1>3, <1>4 DEF Init, TypeOK

\* Every step of every thread keeps the types.
LEMMA NextType == TypeOK /\ [Next]_vars => TypeOK'
<1> SUFFICES ASSUME TypeOK, [Next]_vars PROVE TypeOK'
  OBVIOUS
<1> USE AllocatorAssumption
<1>1. CASE UNCHANGED vars
  BY <1>1 DEF TypeOK, vars, poolState, flags, signals, lifetime, local, refs
<1>2. ASSUME NEW t \in Threads, SetProperties(t) PROVE TypeOK'
  BY <1>2 DEF SetProperties, TypeOK, MayResize, flags, signals, lifetime, local, refs
<1>3. ASSUME NEW t \in Threads, Commit(t) PROVE TypeOK'
  <2>1. m_cRef' \in Int /\ m_bCommitted' \in BOOLEAN /\ m_bDecommitInProgress' \in BOOLEAN
    <3>1. /\ m_bCommitted' = TRUE \/ m_bCommitted' = FALSE
          /\ m_bDecommitInProgress' = FALSE \/ m_bDecommitInProgress' = m_bDecommitInProgress
          /\ m_cRef' = m_cRef \/ m_cRef' = m_cRef + 1
      BY <1>3, CommitOutcome
    <3>2. m_cRef' \in Int
      BY <3>1 DEF TypeOK
    <3> QED BY <3>1, <3>2 DEF TypeOK
  <2>2. /\ m_lFree' \in SUBSET Samples
        /\ made' \in [Samples -> Sizes \cup {0}]
        /\ m_bChanged' \in BOOLEAN
        /\ m_lCount' = m_lCount /\ m_lSize' = m_lSize
    <3>1. CASE UNCHANGED poolState
      BY <3>1 DEF poolState, TypeOK
    <3>2. CASE \E ok \in BOOLEAN : Alloc(ok)
      <4>1. PICK ok \in BOOLEAN : Alloc(ok)
        BY <3>2
      <4>2. m_lCount' = m_lCount /\ m_lSize' = m_lSize
        BY <4>1 DEF Alloc
      <4>3. CASE UNCHANGED <<m_lFree, made, m_bChanged>>
        BY <4>2, <4>3 DEF TypeOK
      <4>4. ASSUME NEW new \in SUBSET Samples,
                   made' = [s \in Samples |-> IF s \in new THEN m_lSize ELSE 0],
                   m_lFree' = new,
                   m_bChanged' = FALSE \/ UNCHANGED m_bChanged
            PROVE  /\ m_lFree' \in SUBSET Samples
                   /\ made' \in [Samples -> Sizes \cup {0}]
                   /\ m_bChanged' \in BOOLEAN
        BY <4>4 DEF TypeOK
      <4> QED BY <4>1, <4>2, <4>3, <4>4 DEF Alloc
    <3> QED BY <1>3, <3>1, <3>2 DEF Commit
  <2> QED BY <1>3, <2>1, <2>2 DEF Commit, TypeOK, signals, local, refs
<1>4. ASSUME NEW t \in Threads, Decommit(t) PROVE TypeOK'
  <2>1. m_bCommitted' \in BOOLEAN /\ m_bDecommitInProgress' \in BOOLEAN
    BY <1>4, Zenon DEF Decommit
  <2>2. pc' \in [Threads -> PCs] /\ pSample' = pSample
    BY <1>4 DEF Decommit, Goto, TypeOK, PCs
  <2>3. \A u \in Threads : pSample'[u] # NoSample <=> pc'[u] \in {"got", "last", "dec", "release"}
    BY <1>4 DEF Decommit, Calls, Goto, TypeOK, PCs
  <2>4. m_hSem' \in Nat /\ m_lWaiting' \in Nat /\ timeouts' \in Nat
    BY <1>4 DEF Decommit, NotifySample, TypeOK
  <2> QED BY <1>4, <2>1, <2>2, <2>3, <2>4 DEF Decommit, TypeOK, poolState, lifetime, refs
<1>5. ASSUME NEW t \in Threads, ReleaseAfterFree(t) \/ ReleaseClient(t) PROVE TypeOK'
  <2>1. /\ m_lFree' \in SUBSET Samples
        /\ made' \in [Samples -> Sizes \cup {0}]
        /\ m_cRef' \in Int /\ deleted' \in BOOLEAN
        /\ UNCHANGED <<m_lCount, m_lSize, m_bChanged>>
    <3>1. ReleaseObject
      BY <1>5 DEF ReleaseAfterFree, ReleaseClient
    <3>2. CASE m_cRef = 1
      BY <3>1, <3>2 DEF ReleaseObject, TypeOK
    <3>3. CASE m_cRef # 1
      BY <3>1, <3>3 DEF ReleaseObject, TypeOK, poolState
    <3> QED BY <3>2, <3>3
  <2> QED BY <1>5, <2>1 DEF ReleaseAfterFree, ReleaseClient, Goto, TypeOK, PCs,
                            flags, signals, local, refs
<1>6. ASSUME NEW t \in Threads, GetBufferCall(t) PROVE TypeOK'
  BY <1>6 DEF GetBufferCall, Calls, Goto, TypeOK, PCs, poolState, flags, signals,
              lifetime, refs
<1>7. ASSUME NEW t \in Threads, GetBuffer(t) PROVE TypeOK'
  BY <1>7 DEF GetBuffer, MayLend, Goto, TypeOK, PCs, flags, lifetime, refs
<1>8. ASSUME NEW t \in Threads, Wake(t) PROVE TypeOK'
  BY <1>8 DEF Wake, Signalled, Goto, TypeOK, PCs, poolState, flags, lifetime, refs
<1>9. ASSUME NEW t \in Threads, GetBufferReturn(t) PROVE TypeOK'
  BY <1>9 DEF GetBufferReturn, Goto, TypeOK, PCs, poolState, flags, signals, lifetime
<1>10. ASSUME NEW t \in Threads, NEW u \in Threads, NEW s \in Samples,
              SampleAddRef(t, u, s)
       PROVE TypeOK'
  BY <1>10 DEF SampleAddRef, TypeOK, poolState, flags, signals, lifetime, local
<1>11. ASSUME NEW t \in Threads, NEW s \in Samples, SampleRelease(t, s) PROVE TypeOK'
  BY <1>11 DEF SampleRelease, Goto, TypeOK, PCs, poolState, flags, signals, lifetime
<1>12. ASSUME NEW t \in Threads, SampleDecrement(t) PROVE TypeOK'
  BY <1>12 DEF SampleDecrement, Goto, TypeOK, PCs, poolState, flags, signals, lifetime
<1>13. ASSUME NEW t \in Threads, ReleaseBuffer(t) PROVE TypeOK'
  <2>1. pSample[t] \in Samples /\ m_lFree' \in SUBSET Samples
    BY <1>13 DEF ReleaseBuffer, TypeOK
  <2>2. m_bDecommitInProgress' \in BOOLEAN /\ m_bCommitted' \in BOOLEAN
    BY <1>13 DEF ReleaseBuffer, LastBufferBack, TypeOK
  <2>3. /\ pc' \in [Threads -> PCs] /\ pSample' \in [Threads -> Samples \cup {NoSample}]
        /\ pc' = [pc EXCEPT ![t] = pc'[t]] /\ pc'[t] \in {"notify", "notifyFree"}
    BY <1>13 DEF ReleaseBuffer, Goto, TypeOK, PCs
  <2>4. \A u \in Threads : pSample'[u] # NoSample <=> pc'[u] \in {"got", "last", "dec", "release"}
    BY <1>13, <2>3 DEF ReleaseBuffer, TypeOK
  <2>5. m_hSem' \in Nat /\ m_lWaiting' \in Nat /\ timeouts' \in Nat
    BY <1>13 DEF ReleaseBuffer, NotifySample, TypeOK
  <2> QED BY <1>13, <2>1, <2>2, <2>3, <2>4, <2>5 DEF ReleaseBuffer, TypeOK, lifetime, refs
<1>14. ASSUME NEW t \in Threads, NotifyRelease(t) PROVE TypeOK'
  BY <1>14 DEF NotifyRelease, Goto, TypeOK, PCs, poolState, flags, signals,
               lifetime, refs
<1>15. ASSUME NEW t \in Threads, SampleStore(t) PROVE TypeOK'
  BY <1>15 DEF SampleStore, Goto, TypeOK, PCs, poolState, flags, signals, lifetime
<1> QED
  BY <1>1, <1>2, <1>3, <1>4, <1>5, <1>6, <1>7, <1>8, <1>9, <1>10, <1>11, <1>12,
     <1>13, <1>14, <1>15 DEF Next, Internal, ReleaseHeld, Call

\* The variables have their types in every reachable state.
THEOREM TypeCorrect == Spec => []TypeOK
BY InitType, NextType, PTL DEF Spec
-----------------------------------------------------------------------------
\* The inductive invariant behind the signalling scheme: besides claim (1) and
\* the corrected claim (2), nobody remains to be signalled once decommitted.
\* Commit needs that conjunct, because it puts samples on the free list without
\* signalling anybody.
SignalInv ==
    /\ TypeOK
    /\ FreeMeansNobodyWaits
    /\ ~m_bCommitted => m_lWaiting = 0
    /\ SignalBalance

\* A step that leaves the signals and the waiting threads alone, and neither
\* frees a sample nor decommits while somebody is to be signalled.
LEMMA QuietStep ==
    ASSUME SignalInv, TypeOK', UNCHANGED signals, Waiting' = Waiting,
           m_lFree' # {} => m_lFree # {} \/ ~m_bCommitted,
           ~m_bCommitted' => ~m_bCommitted
    PROVE  SignalInv'
BY DEF SignalInv, FreeMeansNobodyWaits, SignalBalance, signals

\* A step that signals everybody counted in m_lWaiting.
LEMMA NotifyStep ==
    ASSUME SignalInv, TypeOK', NotifySample, Waiting' = Waiting
    PROVE  SignalInv'
BY WaitingFinite DEF SignalInv, TypeOK, FreeMeansNobodyWaits, SignalBalance, NotifySample

\* The free list after a reference on the allocator is released.
LEMMA ReleaseObjectFree ==
    ASSUME ReleaseObject
    PROVE  m_lFree' = {} \/ m_lFree' = m_lFree
BY DEF ReleaseObject, poolState

\* At the start nobody waits and there is nothing to wait for.
LEMMA InitSignal == Init => SignalInv
<1> SUFFICES ASSUME Init PROVE SignalInv
  OBVIOUS
<1>1. Waiting = {}
  BY DEF Init, Waiting
<1> QED BY <1>1, InitType, FS_EmptySet
        DEF Init, SignalInv, FreeMeansNobodyWaits, SignalBalance

\* Every step keeps the signalling invariant.
LEMMA NextSignal == SignalInv /\ [Next]_vars => SignalInv'
<1> SUFFICES ASSUME SignalInv, [Next]_vars PROVE SignalInv'
  OBVIOUS
<1>0. TypeOK /\ TypeOK'
  BY NextType DEF SignalInv
<1>1. CASE UNCHANGED vars
  <2>1. Waiting' = Waiting /\ UNCHANGED <<signals, m_lFree, m_bCommitted>>
    BY <1>1 DEF vars, local, signals, poolState, flags, Waiting
  <2> QED BY <1>0, <2>1, QuietStep
<1>2. ASSUME NEW t \in Threads, SetProperties(t) PROVE SignalInv'
  <2>1. Waiting' = Waiting /\ UNCHANGED <<signals, m_lFree, m_bCommitted>>
    BY <1>2 DEF SetProperties, local, signals, flags, Waiting
  <2> QED BY <1>0, <2>1, QuietStep
<1>3. ASSUME NEW t \in Threads, Commit(t) PROVE SignalInv'
  <2>1. Waiting' = Waiting /\ UNCHANGED signals
    BY <1>3 DEF Commit, local, signals, Waiting
  <2>2. ~m_bCommitted
    BY <1>3, CommitOutcome
  <2> QED BY <1>0, <2>1, <2>2, QuietStep
<1>4. ASSUME NEW t \in Threads, Decommit(t) PROVE SignalInv'
  <2>1. NotifySample
    BY <1>4 DEF Decommit
  <2>2. Waiting' = Waiting
    <3>1. CASE UNCHANGED pc
      BY <3>1 DEF Waiting
    <3>2. CASE Goto(t, "freed")
      BY <1>0, <1>4, <3>2, GotoElsewhere DEF Decommit, Calls, PCs
    <3> QED BY <1>4, <3>1, <3>2 DEF Decommit
  <2> QED BY <1>0, <2>1, <2>2, NotifyStep
<1>5. ASSUME NEW t \in Threads, ReleaseAfterFree(t) PROVE SignalInv'
  <2>1. Waiting' = Waiting
    BY <1>0, <1>5, GotoElsewhere DEF ReleaseAfterFree, PCs
  <2> QED BY <1>0, <1>5, <2>1, ReleaseObjectFree, QuietStep DEF ReleaseAfterFree, flags
<1>6. ASSUME NEW t \in Threads, ReleaseClient(t) PROVE SignalInv'
  <2>1. Waiting' = Waiting
    BY <1>6 DEF ReleaseClient, local, Waiting
  <2> QED BY <1>0, <1>6, <2>1, ReleaseObjectFree, QuietStep DEF ReleaseClient, flags
<1>7. ASSUME NEW t \in Threads, GetBufferCall(t) PROVE SignalInv'
  <2>1. Waiting' = Waiting
    BY <1>0, <1>7, GotoElsewhere DEF GetBufferCall, Calls, PCs
  <2>2. UNCHANGED <<signals, m_lFree, m_bCommitted>>
    BY <1>7 DEF GetBufferCall, poolState, flags, signals
  <2> QED BY <1>0, <2>1, <2>2, QuietStep
<1>8. ASSUME NEW t \in Threads, GetBuffer(t) PROVE SignalInv'
  <2>1. pc[t] \in {"get", "getNoWait"} /\ UNCHANGED <<m_bCommitted, m_hSem>>
    BY <1>8 DEF GetBuffer, flags
  <2>2. CASE /\ UNCHANGED <<m_lWaiting, timeouts>> /\ m_lFree' \in SUBSET m_lFree
             /\ Goto(t, "idle") \/ Goto(t, "got")
    <3>1. Waiting' = Waiting
      BY <1>0, <2>1, <2>2, GotoElsewhere DEF PCs
    <3> QED BY <1>0, <2>1, <2>2, <3>1, QuietStep DEF signals
  <2>3. CASE /\ m_bCommitted /\ m_lFree = {} /\ m_lFree' = m_lFree
             /\ m_lWaiting' = m_lWaiting + 1 /\ UNCHANGED timeouts /\ Goto(t, "wait")
    <3>1. Waiting' = Waiting \cup {t} /\ t \notin Waiting
      BY <1>0, <2>1, <2>3 DEF Waiting, Goto, TypeOK
    <3>2. Cardinality(Waiting') = Cardinality(Waiting) + 1
      BY <3>1, WaitingFinite, FS_AddElement
    <3> QED BY <1>0, <2>1, <2>3, <3>2, WaitingFinite
            DEF SignalInv, TypeOK, FreeMeansNobodyWaits, SignalBalance
  <2>4. CASE /\ m_bCommitted /\ m_lFree = {} /\ m_lFree' = m_lFree
             /\ m_lWaiting' = m_lWaiting + 1 /\ timeouts' = timeouts + 1 /\ Goto(t, "idle")
    <3>1. Waiting' = Waiting
      BY <1>0, <2>1, <2>4, GotoElsewhere DEF PCs
    <3> QED BY <1>0, <2>1, <2>4, <3>1, WaitingFinite
            DEF SignalInv, TypeOK, FreeMeansNobodyWaits, SignalBalance
  <2> QED BY <1>8, <2>2, <2>3, <2>4 DEF GetBuffer, MayLend
<1>9. ASSUME NEW t \in Threads, Wake(t) PROVE SignalInv'
  <2>1. Waiting' = Waiting \ {t} /\ t \in Waiting
    BY <1>0, <1>9 DEF Wake, Waiting, Goto, TypeOK
  <2>2. Cardinality(Waiting') = Cardinality(Waiting) - 1
    BY <2>1, WaitingFinite, FS_RemoveElement
  <2>3. m_hSem' = m_hSem - 1 /\ UNCHANGED <<m_lFree, m_bCommitted, m_lWaiting, timeouts>>
    BY <1>9 DEF Wake, poolState, flags
  <2> QED BY <1>0, <2>2, <2>3, WaitingFinite
          DEF SignalInv, TypeOK, FreeMeansNobodyWaits, SignalBalance
<1>10. ASSUME NEW t \in Threads, GetBufferReturn(t) PROVE SignalInv'
  <2>1. Waiting' = Waiting
    BY <1>0, <1>10, GotoElsewhere DEF GetBufferReturn, PCs
  <2>2. UNCHANGED <<signals, m_lFree, m_bCommitted>>
    BY <1>10 DEF GetBufferReturn, poolState, flags, signals
  <2> QED BY <1>0, <2>1, <2>2, QuietStep
<1>11. ASSUME NEW t \in Threads, NEW u \in Threads, NEW s \in Samples,
              SampleAddRef(t, u, s)
       PROVE SignalInv'
  <2>1. Waiting' = Waiting /\ UNCHANGED <<signals, m_lFree, m_bCommitted>>
    BY <1>11 DEF SampleAddRef, poolState, flags, signals, local, Waiting
  <2> QED BY <1>0, <2>1, QuietStep
<1>12. ASSUME NEW t \in Threads, NEW s \in Samples, SampleRelease(t, s) PROVE SignalInv'
  <2>1. Waiting' = Waiting
    BY <1>0, <1>12, GotoElsewhere DEF SampleRelease, PCs
  <2>2. UNCHANGED <<signals, m_lFree, m_bCommitted>>
    BY <1>12 DEF SampleRelease, poolState, flags, signals
  <2> QED BY <1>0, <2>1, <2>2, QuietStep
<1>13. ASSUME NEW t \in Threads, SampleDecrement(t) PROVE SignalInv'
  <2>1. Waiting' = Waiting
    BY <1>0, <1>13, GotoElsewhere DEF SampleDecrement, PCs
  <2>2. UNCHANGED <<signals, m_lFree, m_bCommitted>>
    BY <1>13 DEF SampleDecrement, poolState, flags, signals
  <2> QED BY <1>0, <2>1, <2>2, QuietStep
<1>14. ASSUME NEW t \in Threads, ReleaseBuffer(t) PROVE SignalInv'
  <2>1. Waiting' = Waiting
    BY <1>0, <1>14, GotoElsewhere DEF ReleaseBuffer, PCs
  <2> QED BY <1>0, <1>14, <2>1, NotifyStep DEF ReleaseBuffer
<1>15. ASSUME NEW t \in Threads, NotifyRelease(t) PROVE SignalInv'
  <2>1. Waiting' = Waiting
    BY <1>0, <1>15, GotoElsewhere DEF NotifyRelease, PCs
  <2>2. UNCHANGED <<signals, m_lFree, m_bCommitted>>
    BY <1>15 DEF NotifyRelease, poolState, flags, signals
  <2> QED BY <1>0, <2>1, <2>2, QuietStep
<1>16. ASSUME NEW t \in Threads, SampleStore(t) PROVE SignalInv'
  <2>1. Waiting' = Waiting
    BY <1>0, <1>16, GotoElsewhere DEF SampleStore, PCs
  <2>2. UNCHANGED <<signals, m_lFree, m_bCommitted>>
    BY <1>16 DEF SampleStore, poolState, flags, signals
  <2> QED BY <1>0, <2>1, <2>2, QuietStep
<1> QED
  BY <1>1, <1>2, <1>3, <1>4, <1>5, <1>6, <1>7, <1>8, <1>9, <1>10, <1>11, <1>12,
     <1>13, <1>14, <1>15, <1>16 DEF Next, Internal, ReleaseHeld, Call

\* While a sample is free nobody is counted as waiting: whoever puts a sample into
\* the free list has signalled everybody.
THEOREM FreeSampleMeansNobodyWaits == Spec => []FreeMeansNobodyWaits
<1>1. SignalInv => FreeMeansNobodyWaits
  BY DEF SignalInv
<1> QED BY <1>1, InitSignal, NextSignal, PTL DEF Spec

\* Signals owed and given always cover the waiting threads, with a surplus of
\* one per timed-out NOWAIT call: claim (2) of amfilter.h:1416 as the code has it.
THEOREM SignalsCoverWaiters == Spec => []SignalBalance
<1>1. SignalInv => SignalBalance
  BY DEF SignalInv
<1> QED BY <1>1, InitSignal, NextSignal, PTL DEF Spec

\* No thread waits without a signal to take while a sample is free or after the
\* allocator has been decommitted (amfilter.h:1418-1426).
THEOREM NoWakeupIsLost == Spec => []NoLostWakeup
<1>1. SignalInv => NoLostWakeup
  BY WaitingFinite DEF SignalInv, TypeOK, FreeMeansNobodyWaits, SignalBalance, NoLostWakeup
<1> QED BY <1>1, InitSignal, NextSignal, PTL DEF Spec

\* The whole of the signalling scheme of amfilter.h:1412-1426, for any number of
\* threads and samples.
THEOREM WaitersAreSignalled == Spec => []WaitersAreWoken
BY FreeSampleMeansNobodyWaits, SignalsCoverWaiters, NoWakeupIsLost, PTL DEF WaitersAreWoken
-----------------------------------------------------------------------------
\* What is true of the samples and of the allocator's own reference.  Matching is
\* kept from the Commit that made the samples until SetProperties asks for others,
\* also while the allocator is not committed, because a Commit without a change
\* makes nothing.
PoolInv ==
    /\ TypeOK
    /\ m_lFree \subseteq Allocated
    /\ ~(m_bCommitted /\ m_bDecommitInProgress)
    /\ SampleAccounting
    /\ PendingWhileOut
    /\ RefBalance
    /\ m_bCommitted \/ m_bDecommitInProgress => ~m_bChanged
    /\ ~m_bChanged /\ ~deleted => Matching

\* Sets of threads are finite; their sizes as threads come and go.
LEMMA ThreadSet ==
    ASSUME NEW T \in SUBSET Threads
    PROVE  IsFiniteSet(T) /\ Cardinality(T) \in Nat /\ (Cardinality(T) = 0 <=> T = {})
BY AllocatorAssumption, FS_Subset, FS_CardinalityType, FS_EmptySet

LEMMA ThreadComes ==
    ASSUME NEW T \in SUBSET Threads, NEW t \in Threads, t \notin T
    PROVE  Cardinality(T \cup {t}) = Cardinality(T) + 1
BY ThreadSet, FS_AddElement

LEMMA ThreadGoes ==
    ASSUME NEW T \in SUBSET Threads, NEW t \in T
    PROVE  Cardinality(T \ {t}) = Cardinality(T) - 1
BY ThreadSet, FS_RemoveElement

LEMMA OnlyThread ==
    ASSUME NEW T \in SUBSET Threads, NEW t \in T, Cardinality(T) <= 1
    PROVE  T = {t}
<1>1. T \ {t} \in SUBSET Threads /\ Cardinality(T \ {t}) = Cardinality(T) - 1
  BY ThreadGoes
<1> QED BY <1>1, ThreadSet

LEMMA OneThread ==
    ASSUME NEW t \in Threads
    PROVE  Cardinality({t}) = 1
BY FS_Singleton

LEMMA Places ==
    /\ \A s : Holders(s) \in SUBSET Threads /\ Droppers(s) \in SUBSET Threads
                /\ Carriers(s) \in SUBSET Threads
    /\ Finishing \in SUBSET Threads
BY DEF Holders, Droppers, Carriers, Finishing

\* Whoever is about to store 0 is the only one with the sample.
LEMMA StorerAlone ==
    ASSUME NEW s \in Samples, Accounted(s), NEW t \in Storers(s)
    PROVE  Holders(s) = {} /\ Droppers(s) = {t} /\ Storers(s) = {t} /\ Carriers(s) = {}
<1>1. t \in Droppers(s) /\ Storers(s) \subseteq Droppers(s) /\ sampleRef[s] = 1
  BY DEF Storers, Accounted
<1>2. /\ Cardinality(Holders(s)) \in Nat /\ Cardinality(Droppers(s)) \in Nat
      /\ Cardinality(Droppers(s)) # 0
  BY <1>1, ThreadSet, Places
<1>3. Cardinality(Holders(s)) = 0 /\ Cardinality(Droppers(s)) <= 1
  BY <1>1, <1>2 DEF Accounted
<1>4. Holders(s) = {} /\ Droppers(s) = {t}
  BY <1>1, <1>3, ThreadSet, OnlyThread, Places
<1> QED BY <1>1, <1>4 DEF Accounted

\* A sample that no step touches.
LEMMA AccountStays ==
    ASSUME NEW s \in Samples, Accounted(s), sampleRef'[s] = sampleRef[s],
           Holders(s)' = Holders(s), Droppers(s)' = Droppers(s), Storers(s)' = Storers(s),
           Carriers(s)' = Carriers(s),
           s \in Outstanding' <=> s \in Outstanding
    PROVE  Accounted(s)'
BY DEF Accounted

\* A thread that goes between labels where it has no sample in its hands.
LEMMA PlacesStay ==
    ASSUME TypeOK, NEW t \in Threads, NEW l \in PCs,
           pSample[t] = NoSample, UNCHANGED <<pSample, held>>, Goto(t, l) \/ UNCHANGED pc
    PROVE  \A s \in Samples : /\ Holders(s)' = Holders(s) /\ Droppers(s)' = Droppers(s)
                              /\ Storers(s)' = Storers(s)
                              /\ Carriers(s)' = Carriers(s)
BY AllocatorAssumption DEF TypeOK, Goto, Holders, Droppers, Storers, Carriers

\* With no sample out nobody has one.
LEMMA NobodyHasOne ==
    ASSUME SampleAccounting, Outstanding = {}, NEW s \in Samples
    PROVE  Holders(s) = {} /\ Droppers(s) = {} /\ Carriers(s) = {} /\ sampleRef[s] = 0
BY FS_EmptySet DEF SampleAccounting, Accounted

\* The samples are disposed of, or made, when none is out.
LEMMA AccountAnew ==
    ASSUME SampleAccounting, Outstanding = {}, Outstanding' = {}, UNCHANGED sampleRef,
           \A s \in Samples : /\ Holders(s)' = Holders(s) /\ Droppers(s)' = Droppers(s)
                              /\ Storers(s)' = Storers(s)
                              /\ Carriers(s)' = Carriers(s)
    PROVE  SampleAccounting'
BY NobodyHasOne, AccountStays DEF SampleAccounting

\* GetBuffer carries a sample off the free list.
LEMMA LendAccount ==
    ASSUME PoolInv, NEW t \in Threads, NEW f \in m_lFree, pc[t] \in {"get", "getNoWait"},
           m_lFree' = m_lFree \ {f}, pSample' = [pSample EXCEPT ![t] = f], Goto(t, "got"),
           UNCHANGED <<made, sampleRef, held>>
    PROVE  SampleAccounting'
<1> SUFFICES ASSUME NEW s \in Samples PROVE Accounted(s)'
  BY DEF SampleAccounting
<1>1. Accounted(s) /\ TypeOK /\ m_lFree \subseteq Allocated /\ f \in Samples
  BY DEF PoolInv, SampleAccounting, TypeOK
<1>2. Holders(s)' = Holders(s) /\ Droppers(s)' = Droppers(s)
      /\ Storers(s)' = Storers(s)
  BY <1>1 DEF TypeOK, Goto, Holders, Droppers, Storers
<1>3. CASE s = f
  <2>1. s \notin Outstanding /\ s \in Outstanding'
    BY <1>1, <1>3 DEF Outstanding, Allocated
  <2>2. Carriers(s)' = Carriers(s) \cup {t}
    BY <1>1, <1>3 DEF TypeOK, Goto, Carriers
  <2> QED BY <1>1, <1>2, <2>1, <2>2, OneThread DEF Accounted
<1>4. CASE s # f
  <2>1. s \in Outstanding' <=> s \in Outstanding
    BY <1>4 DEF Outstanding, Allocated
  <2>2. Carriers(s)' = Carriers(s)
    BY <1>1, <1>4, AllocatorAssumption DEF TypeOK, Goto, Carriers
  <2> QED BY <1>1, <1>2, <2>1, <2>2, AccountStays
<1> QED BY <1>3, <1>4

\* GetBuffer returns: its thread becomes the first owner.
LEMMA ReturnAccount ==
    ASSUME PoolInv, NEW t \in Threads, GetBufferReturn(t)
    PROVE  SampleAccounting'
<1> SUFFICES ASSUME NEW s \in Samples PROVE Accounted(s)'
  BY DEF SampleAccounting
<1>1. Accounted(s) /\ TypeOK /\ pSample[t] \in Samples
  BY DEF PoolInv, SampleAccounting, TypeOK, GetBufferReturn
<1>2. (s \in Outstanding' <=> s \in Outstanding) /\ Droppers(s)' = Droppers(s)
      /\ Storers(s)' = Storers(s)
  BY <1>1 DEF GetBufferReturn, poolState, Outstanding, Allocated, TypeOK, Goto, Droppers, Storers
<1>3. CASE s = pSample[t]
  <2>1. t \in Carriers(s) /\ Carriers(s)' = Carriers(s) \ {t} /\ Holders(s)' = Holders(s) \cup {t}
        /\ sampleRef'[s] = 1
    BY <1>1, <1>3, AllocatorAssumption DEF GetBufferReturn, TypeOK, Goto, Carriers, Holders
  <2>2. Carriers(s)' = {} /\ Holders(s)' = {t} /\ Droppers(s) = {}
    BY <1>1, <2>1, OnlyThread, Places DEF Accounted
  <2> QED BY <1>1, <1>2, <2>1, <2>2, OneThread, FS_EmptySet DEF Accounted, Storers
<1>4. CASE s # pSample[t]
  <2>1. /\ Carriers(s)' = Carriers(s) /\ Holders(s)' = Holders(s) /\ sampleRef'[s] = sampleRef[s]
    BY <1>1, <1>4, AllocatorAssumption DEF GetBufferReturn, TypeOK, Goto, Carriers, Holders
  <2> QED BY <1>1, <1>2, <2>1, AccountStays
<1> QED BY <1>3, <1>4

\* A thread hands a reference to another.
LEMMA AddRefAccount ==
    ASSUME PoolInv, NEW t \in Threads, NEW u \in Threads, NEW f \in Samples, SampleAddRef(t, u, f)
    PROVE  SampleAccounting'
<1> SUFFICES ASSUME NEW s \in Samples PROVE Accounted(s)'
  BY DEF SampleAccounting
<1>1. Accounted(s) /\ TypeOK
  BY DEF PoolInv, SampleAccounting
<1>2. /\ s \in Outstanding' <=> s \in Outstanding
      /\ Droppers(s)' = Droppers(s) /\ Storers(s)' = Storers(s) /\ Carriers(s)' = Carriers(s)
  BY DEF SampleAddRef, poolState, local, Outstanding, Allocated, Droppers, Storers, Carriers
<1>3. CASE s = f
  <2>1. /\ t \in Holders(s) /\ u \notin Holders(s) /\ Holders(s)' = Holders(s) \cup {u}
        /\ sampleRef'[s] = sampleRef[s] + 1
    BY <1>1, <1>3 DEF SampleAddRef, TypeOK, Holders
  <2>2. Cardinality(Holders(s)') = Cardinality(Holders(s)) + 1
    BY <2>1, ThreadComes, Places
  <2>3. Storers(s) = {}
    BY <1>1, <2>1, StorerAlone
  <2> QED BY <1>1, <1>2, <2>1, <2>2, <2>3, ThreadSet, Places DEF Accounted
<1>4. CASE s # f
  <2>1. Holders(s)' = Holders(s) /\ sampleRef'[s] = sampleRef[s]
    BY <1>1, <1>4 DEF SampleAddRef, TypeOK, Holders
  <2> QED BY <1>1, <1>2, <2>1, AccountStays
<1> QED BY <1>3, <1>4

\* The first step of CMediaSample::Release: its thread owns the sample no more, and
\* is about to change the count; to store 0 only if the count is 1.
LEMMA ReleaseAccount ==
    ASSUME PoolInv, NEW t \in Threads, NEW f \in Samples, SampleRelease(t, f)
    PROVE  SampleAccounting'
<1> SUFFICES ASSUME NEW s \in Samples PROVE Accounted(s)'
  BY DEF SampleAccounting
<1>1. Accounted(s) /\ TypeOK /\ pSample[t] = NoSample
  BY DEF PoolInv, SampleAccounting, TypeOK, SampleRelease
<1>2. (s \in Outstanding' <=> s \in Outstanding) /\ sampleRef'[s] = sampleRef[s]
  BY DEF SampleRelease, poolState, Outstanding, Allocated
<1>3. CASE s = f
  <2>1. t \in Holders(s) /\ Holders(s)' = Holders(s) \ {t} /\ t \notin Droppers(s)
    BY <1>1, <1>3 DEF SampleRelease, TypeOK, Holders, Droppers
  <2>2. Carriers(s) = {} /\ s \in Outstanding /\ Storers(s) = {}
    BY <1>1, <2>1, StorerAlone DEF Accounted
  <2>3. Droppers(s)' = Droppers(s) \cup {t} /\ Carriers(s)' = Carriers(s)
    BY <1>1, <1>3 DEF SampleRelease, Goto, TypeOK, Droppers, Carriers
  <2>4. Storers(s)' # {} => sampleRef[s] = 1
    BY <1>1, <1>3, <2>2 DEF SampleRelease, LastOwner, Goto, TypeOK, Droppers, Storers
  <2>5. /\ Cardinality(Holders(s)') = Cardinality(Holders(s)) - 1
        /\ Cardinality(Droppers(s)') = Cardinality(Droppers(s)) + 1
    BY <2>1, <2>3, ThreadGoes, ThreadComes, Places
  <2> QED BY <1>1, <1>2, <2>2, <2>3, <2>4, <2>5, ThreadSet, Places, FS_EmptySet DEF Accounted
<1>4. CASE s # f
  <2>1. Holders(s)' = Holders(s)
    BY <1>1, <1>4 DEF SampleRelease, TypeOK, Holders
  <2>2. /\ Droppers(s)' = Droppers(s) /\ Storers(s)' = Storers(s) /\ Carriers(s)' = Carriers(s)
    BY <1>1, <1>4, AllocatorAssumption
       DEF SampleRelease, TypeOK, Goto, Droppers, Storers, Carriers
  <2> QED BY <1>1, <1>2, <2>1, <2>2, AccountStays
<1> QED BY <1>3, <1>4

\* The last owner stores 0, and carries the sample.
LEMMA StoreAccount ==
    ASSUME PoolInv, NEW t \in Threads, SampleStore(t)
    PROVE  SampleAccounting'
<1> SUFFICES ASSUME NEW s \in Samples PROVE Accounted(s)'
  BY DEF SampleAccounting
<1>1. Accounted(s) /\ TypeOK /\ pSample[t] \in Samples
  BY DEF PoolInv, SampleAccounting, TypeOK, SampleStore
<1>2. (s \in Outstanding' <=> s \in Outstanding) /\ Holders(s)' = Holders(s)
  BY DEF SampleStore, poolState, Outstanding, Allocated, Holders
<1>3. CASE s = pSample[t]
  <2>1. t \in Storers(s) /\ t \in Droppers(s)
    BY <1>3 DEF SampleStore, Storers, Droppers
  <2>2. Holders(s) = {} /\ Droppers(s) = {t} /\ Carriers(s) = {} /\ s \in Outstanding
    BY <1>1, <2>1, StorerAlone DEF Accounted
  <2>3. Droppers(s)' = Droppers(s) \ {t} /\ Carriers(s)' = Carriers(s) \cup {t} /\ sampleRef'[s] = 0
    BY <1>1, <1>3 DEF SampleStore, Goto, TypeOK, Droppers, Carriers
  <2>4. Droppers(s)' = {} /\ Storers(s)' = {} /\ Carriers(s)' = {t}
    BY <2>2, <2>3 DEF Storers
  <2> QED BY <1>2, <2>2, <2>3, <2>4, OneThread, FS_EmptySet DEF Accounted
<1>4. CASE s # pSample[t]
  <2>1. /\ sampleRef'[s] = sampleRef[s] /\ Droppers(s)' = Droppers(s) /\ Storers(s)' = Storers(s)
        /\ Carriers(s)' = Carriers(s)
    BY <1>1, <1>4 DEF SampleStore, TypeOK, Goto, Droppers, Storers, Carriers
  <2> QED BY <1>1, <1>2, <2>1, AccountStays
<1> QED BY <1>3, <1>4

\* Or it decrements: the one that reaches zero makes its thread carry the
\* sample.
LEMMA DecrementAccount ==
    ASSUME PoolInv, NEW t \in Threads, SampleDecrement(t)
    PROVE  SampleAccounting'
<1> SUFFICES ASSUME NEW s \in Samples PROVE Accounted(s)'
  BY DEF SampleAccounting
<1>1. Accounted(s) /\ TypeOK /\ pSample[t] \in Samples
  BY DEF PoolInv, SampleAccounting, TypeOK, SampleDecrement
<1>2. (s \in Outstanding' <=> s \in Outstanding) /\ Holders(s)' = Holders(s)
  BY DEF SampleDecrement, poolState, Outstanding, Allocated, Holders
<1>3. CASE s = pSample[t]
  <2>1. t \in Droppers(s) /\ Droppers(s)' = Droppers(s) \ {t} /\ sampleRef'[s] = sampleRef[s] - 1
    BY <1>1, <1>3, AllocatorAssumption DEF SampleDecrement, TypeOK, Goto, Droppers, Storers
  <2>2. /\ Carriers(s) = {} /\ s \in Outstanding
        /\ Cardinality(Droppers(s)') = Cardinality(Droppers(s)) - 1
    BY <1>1, <2>1, ThreadGoes, Places DEF Accounted
  <2>5. Storers(s)' = {}
    <3>1. t \notin Storers(s)
      BY DEF SampleDecrement, Storers
    <3>2. Storers(s) = {}
      BY <1>1, <2>1, <3>1, StorerAlone
    <3> QED BY <1>1, <3>2 DEF SampleDecrement, TypeOK, Goto, Droppers, Storers
  <2>3. CASE sampleRef[s] = 1
    <3>1. Carriers(s)' = Carriers(s) \cup {t}
      BY <1>1, <1>3, <2>3 DEF SampleDecrement, TypeOK, Goto, Carriers
    <3>2. Cardinality(Droppers(s)') = 0 /\ Cardinality(Holders(s)) = 0
      <4>1. /\ Cardinality(Holders(s)) \in Nat /\ Cardinality(Droppers(s)) \in Nat \ {0}
        BY <2>1, ThreadSet, Places
      <4> QED BY <1>1, <2>2, <2>3, <4>1 DEF Accounted
    <3>3. Droppers(s)' = {} /\ Holders(s) = {}
      BY <2>1, <3>2, ThreadSet, Places
    <3> QED BY <1>2, <2>5, <2>1, <2>2, <2>3, <3>1, <3>3, OneThread, FS_EmptySet DEF Accounted
  <2>4. CASE sampleRef[s] # 1
    <3>1. Carriers(s)' = Carriers(s)
      BY <1>1, <1>3, <2>4, AllocatorAssumption DEF SampleDecrement, TypeOK, Goto, Carriers
    <3>2. sampleRef'[s] = Cardinality(Holders(s)') + Cardinality(Droppers(s)')
      BY <1>1, <1>2, <2>1, <2>2, ThreadSet, Places DEF Accounted
    <3>3. Holders(s)' \cup Droppers(s)' # {}
      <4>1. sampleRef'[s] # 0
        BY <1>1, <2>1, <2>4 DEF TypeOK
      <4> QED BY <3>2, <4>1, FS_EmptySet
    <3> QED BY <1>2, <2>5, <2>2, <3>1, <3>2, <3>3, FS_EmptySet DEF Accounted
  <2> QED BY <2>3, <2>4
<1>4. CASE s # pSample[t]
  <2>1. /\ sampleRef'[s] = sampleRef[s] /\ Droppers(s)' = Droppers(s) /\ Storers(s)' = Storers(s)
        /\ Carriers(s)' = Carriers(s)
    BY <1>1, <1>4, AllocatorAssumption DEF SampleDecrement, TypeOK, Goto, Droppers, Storers, Carriers
  <2> QED BY <1>1, <1>2, <2>1, AccountStays
<1> QED BY <1>3, <1>4

\* ReleaseBuffer puts the sample its thread carries on the free list.
LEMMA ReturnedAccount ==
    ASSUME PoolInv, NEW t \in Threads, ReleaseBuffer(t)
    PROVE  /\ SampleAccounting' /\ pSample[t] \in Outstanding
           /\ Outstanding' = Outstanding \ {pSample[t]}
<1>1. TypeOK /\ pSample[t] \in Samples /\ m_lFree \subseteq Allocated
  BY DEF PoolInv, TypeOK, ReleaseBuffer
<1>2. t \in Carriers(pSample[t])
  BY <1>1 DEF Carriers, ReleaseBuffer
<1>3. pSample[t] \in Outstanding /\ Outstanding' = Outstanding \ {pSample[t]}
  BY <1>1, <1>2 DEF PoolInv, SampleAccounting, Accounted, ReleaseBuffer, Outstanding, Allocated
<1>4. ASSUME NEW s \in Samples PROVE Accounted(s)'
  <2>1. Accounted(s)
    BY DEF PoolInv, SampleAccounting
  <2>2. /\ sampleRef'[s] = sampleRef[s] /\ Holders(s)' = Holders(s) /\ Droppers(s)' = Droppers(s)
                                        /\ Storers(s)' = Storers(s)
    BY <1>1 DEF ReleaseBuffer, TypeOK, Goto, refs, Holders, Droppers, Storers
  <2>3. CASE s = pSample[t]
    <3>1. Carriers(s)' = Carriers(s) \ {t}
      BY <1>1, <2>3, AllocatorAssumption DEF ReleaseBuffer, TypeOK, Goto, Carriers
    <3>2. Carriers(s)' = {} /\ Holders(s) = {} /\ Droppers(s) = {}
      BY <1>2, <2>1, <2>3, <3>1, OnlyThread, Places DEF Accounted
    <3> QED BY <1>3, <2>1, <2>2, <2>3, <3>2, FS_EmptySet DEF Accounted, Storers
  <2>4. CASE s # pSample[t]
    <3>1. Carriers(s)' = Carriers(s)
      BY <1>1, <2>4, AllocatorAssumption DEF ReleaseBuffer, TypeOK, Goto, Carriers
    <3> QED BY <1>3, <2>1, <2>2, <2>4, <3>1, AccountStays
  <2> QED BY <2>3, <2>4
<1> QED BY <1>3, <1>4 DEF SampleAccounting

\* Alloc makes new samples, all of them free, or leaves them as they were; when it
\* succeeds they are what the properties say.
LEMMA AllocOutcome ==
    ASSUME NEW ok \in BOOLEAN, Alloc(ok), m_lFree \subseteq Allocated, Outstanding = {},
           ~m_bChanged => Matching, TypeOK
    PROVE  /\ m_lFree' \subseteq Allocated' /\ Outstanding' = {}
           /\ ok => ~m_bChanged' 
           /\ ~m_bChanged' => Matching'
<1>1. UNCHANGED <<m_lCount, m_lSize>>
  BY DEF Alloc
<1>2. CASE UNCHANGED <<m_lFree, made, m_bChanged>> /\ (ok => ~m_bChanged)
  BY <1>1, <1>2 DEF Allocated, Outstanding, Matching
<1>3. ASSUME NEW new \in SUBSET Samples, m_lSize # 0,
             made' = [s \in Samples |-> IF s \in new THEN m_lSize ELSE 0], m_lFree' = new,
             \/ ok /\ Cardinality(new) = m_lCount /\ m_bChanged' = FALSE
             \/ ~ok /\ m_bChanged'
      PROVE  /\ m_lFree' \subseteq Allocated' /\ Outstanding' = {}
             /\ ok => ~m_bChanged'
             /\ ~m_bChanged' => Matching'
  <2>1. Allocated' = new
    BY <1>3 DEF Allocated
  <2>2. \A s \in new : made'[s] = m_lSize
    BY <1>3
  <2> QED BY <1>1, <1>3, <2>1, <2>2 DEF Outstanding, Matching
<1>4. CASE /\ m_lSize # 0 /\ m_bChanged
           /\ \E new \in SUBSET Samples :
                 /\ made' = [s \in Samples |-> IF s \in new THEN m_lSize ELSE 0]
                 /\ m_lFree' = new
                 /\ \/ ok /\ Cardinality(new) = m_lCount /\ m_bChanged' = FALSE
                    \/ ~ok /\ Cardinality(new) < m_lCount /\ UNCHANGED m_bChanged
  BY <1>3, <1>4
<1> QED BY <1>2, <1>4 DEF Alloc

\* The allocator is there while a client or a commit refers to it.
LEMMA Referred ==
    ASSUME PoolInv
    PROVE  /\ Cardinality(client) \in Nat /\ Cardinality(Finishing) \in Nat
           /\ client # {} \/ Finishing # {} \/ m_bCommitted \/ m_bDecommitInProgress
                 => m_cRef > 0 /\ ~deleted
<1>1. client \in SUBSET Threads /\ m_cRef \in Int
  BY DEF PoolInv, TypeOK
<1>2. Cardinality(client) \in Nat /\ Cardinality(Finishing) \in Nat
  BY <1>1, ThreadSet, Places
<1>3. /\ client # {} => Cardinality(client) # 0
      /\ Finishing # {} => Cardinality(Finishing) # 0
  BY <1>1, ThreadSet, Places
<1> QED BY <1>1, <1>2, <1>3 DEF PoolInv, RefBalance

\* The last reference goes when no sample is out and nobody decommits: the
\* samples disposed of are those on the free list.
LEMMA LastReference ==
    ASSUME PoolInv, m_cRef = 1, client # {} \/ Finishing # {}
    PROVE  ~m_bCommitted /\ ~m_bDecommitInProgress /\ Outstanding = {} /\ ~deleted
<1>1. client \in SUBSET Threads
  BY DEF PoolInv, TypeOK
<1>2. Cardinality(client) + Cardinality(Finishing) > 0
  BY <1>1, ThreadSet, Places
<1> QED BY <1>2, Referred DEF PoolInv, RefBalance, PendingWhileOut

\* What is left of the invariant when the samples do not change hands.
LEMMA FlagsStay ==
    ASSUME PoolInv, TypeOK', SampleAccounting', UNCHANGED flags, UNCHANGED lifetime,
           UNCHANGED <<made, m_lCount, m_lSize, m_bChanged>>,
           m_lFree' \subseteq Allocated, Outstanding' = {} <=> Outstanding = {},
           Finishing' = Finishing
    PROVE  PoolInv'
<1>1. Allocated' = Allocated /\ Matching' = Matching
  BY DEF Allocated, Matching
<1> QED BY <1>1 DEF PoolInv, flags, lifetime, PendingWhileOut, RefBalance

\* A thread goes between labels outside the end of a decommit.
LEMMA StillFinishing ==
    ASSUME TypeOK, NEW t \in Threads, NEW l \in PCs, Goto(t, l) \/ UNCHANGED pc,
           pc[t] \notin {"notifyFree", "freed"} <=> l \notin {"notifyFree", "freed"}
    PROVE  Finishing' = Finishing
<1>1. pc \in [Threads -> PCs]
  BY DEF TypeOK
<1> QED BY <1>1 DEF Goto, Finishing

\* A thread that comes to the end of a decommit is one more of those there.
LEMMA NowFinishing ==
    ASSUME TypeOK, NEW t \in Threads, NEW l \in {"notifyFree", "freed"}, Goto(t, l),
           pc[t] \notin {"notifyFree", "freed"}
    PROVE  Finishing' = Finishing \cup {t} /\ t \notin Finishing
<1>1. pc \in [Threads -> PCs]
  BY DEF TypeOK
<1>2. pc'[t] = l /\ \A u \in Threads \ {t} : pc'[u] = pc[u]
  BY <1>1 DEF Goto
<1> QED BY <1>2 DEF Finishing

\* At the start there is no sample, and the clients are the references.
LEMMA InitPool == Init => PoolInv
<1> SUFFICES ASSUME Init PROVE PoolInv
  OBVIOUS
<1>1. TypeOK
  BY InitType
<1>2. Allocated = {} /\ Outstanding = {} /\ Finishing = {}
  BY DEF Init, Allocated, Outstanding, Finishing
<1>3. \A s \in Samples : Holders(s) = {} /\ Droppers(s) = {} /\ Carriers(s) = {}
  BY DEF Init, Holders, Droppers, Storers, Carriers
<1>4. SampleAccounting
  BY <1>2, <1>3, FS_EmptySet DEF Init, SampleAccounting, Accounted, Storers
<1>5. Cardinality(client) \in Nat \ {0}
  BY ThreadSet DEF Init
<1> QED BY <1>1, <1>2, <1>4, <1>5, FS_EmptySet
        DEF Init, PoolInv, PendingWhileOut, RefBalance, Matching

\* Every step of every thread keeps the samples and the references in balance.
LEMMA NextPool == PoolInv /\ [Next]_vars => PoolInv'
<1> SUFFICES ASSUME PoolInv, [Next]_vars PROVE PoolInv'
  OBVIOUS
<1>0. TypeOK /\ TypeOK' /\ SampleAccounting
  BY NextType DEF PoolInv
<1>1. CASE UNCHANGED vars
  <2>1. UNCHANGED <<poolState, flags, lifetime, local, refs>>
    BY <1>1 DEF vars
  <2>2. /\ Allocated' = Allocated /\ Outstanding' = Outstanding /\ Finishing' = Finishing
        /\ Matching' = Matching
        /\ \A s \in Samples : Holders(s)' = Holders(s) /\ Droppers(s)' = Droppers(s)
                              /\ Storers(s)' = Storers(s)
                                /\ Carriers(s)' = Carriers(s)
    BY <2>1 DEF poolState, local, refs, Allocated, Outstanding, Finishing, Matching, Holders,
                Droppers, Storers, Carriers
  <2>3. SampleAccounting'
    BY <1>0, <2>1, <2>2, AccountStays DEF refs, SampleAccounting
  <2> QED BY <1>0, <2>1, <2>2, <2>3, FlagsStay DEF poolState, PoolInv
<1>2. ASSUME NEW t \in Threads, SetProperties(t) PROVE PoolInv'
  <2>1. /\ UNCHANGED <<m_lFree, made, flags, lifetime, local, refs>> /\ m_bChanged' = TRUE
        /\ ~m_bCommitted /\ m_lFree = Allocated
    BY <1>2 DEF SetProperties, MayResize
  <2>2. /\ Allocated' = Allocated /\ Outstanding' = Outstanding /\ Finishing' = Finishing
        /\ Outstanding = {}
        /\ \A s \in Samples : Holders(s)' = Holders(s) /\ Droppers(s)' = Droppers(s)
                              /\ Storers(s)' = Storers(s)
                                /\ Carriers(s)' = Carriers(s)
    BY <2>1 DEF local, refs, Allocated, Outstanding, Finishing, Holders, Droppers, Storers, Carriers
  <2>3. SampleAccounting'
    BY <1>0, <2>1, <2>2, AccountStays DEF refs, SampleAccounting
  <2> QED BY <1>0, <2>1, <2>2, <2>3
          DEF PoolInv, flags, lifetime, PendingWhileOut, RefBalance
<1>3. ASSUME NEW t \in Threads, Commit(t) PROVE PoolInv'
  <2>1. /\ t \in client /\ UNCHANGED <<deleted, client, local, refs>> /\ Finishing' = Finishing
        /\ \A s \in Samples : Holders(s)' = Holders(s) /\ Droppers(s)' = Droppers(s)
                              /\ Storers(s)' = Storers(s)
                                /\ Carriers(s)' = Carriers(s)
    BY <1>3 DEF Commit, Calls, local, refs, Finishing, Holders, Droppers, Storers, Carriers
  <2>2. ~deleted /\ m_cRef \in Int /\ Cardinality(client) \in Nat /\ Cardinality(Finishing) \in Nat
    BY <2>1, Referred, <1>0 DEF TypeOK
  <2>3. CASE /\ m_bDecommitInProgress /\ m_bCommitted' = TRUE /\ m_bDecommitInProgress' = FALSE
             /\ UNCHANGED poolState /\ UNCHANGED m_cRef
    <3>1. Allocated' = Allocated /\ Outstanding' = Outstanding /\ Matching' = Matching
      BY <2>3 DEF poolState, Allocated, Outstanding, Matching
    <3>2. SampleAccounting'
      BY <1>0, <2>1, <3>1, AccountStays DEF refs, SampleAccounting
    <3> QED BY <1>0, <2>1, <2>3, <3>1, <3>2
            DEF PoolInv, poolState, PendingWhileOut, RefBalance
  <2>4. CASE /\ ~m_bCommitted /\ ~m_bDecommitInProgress /\ UNCHANGED m_bDecommitInProgress
             /\ \/ m_bCommitted' = TRUE /\ m_cRef' = m_cRef + 1 /\ Alloc(TRUE)
                \/ m_bCommitted' = FALSE /\ m_cRef' = m_cRef /\ Alloc(FALSE)
    <3>1. Outstanding = {} /\ m_lFree \subseteq Allocated /\ (~m_bChanged => Matching)
      BY <2>2, <2>4 DEF PoolInv, PendingWhileOut
    <3>2. /\ m_lFree' \subseteq Allocated' /\ Outstanding' = {} /\ (~m_bChanged' => Matching')
          /\ m_bCommitted' => ~m_bChanged'
      BY <1>0, <2>4, <3>1, AllocOutcome
    <3>3. SampleAccounting'
      BY <1>0, <2>1, <3>1, <3>2, AccountAnew DEF refs
    <3>4. RefBalance'
      <4>1. m_cRef = Cardinality(client) + Cardinality(Finishing) /\ m_cRef # 0
        BY <2>2, <2>4 DEF PoolInv, RefBalance
      <4>2. m_cRef' = m_cRef + (IF m_bCommitted' THEN 1 ELSE 0)
        <5>1. CASE m_bCommitted' = TRUE /\ m_cRef' = m_cRef + 1
          BY <5>1
        <5>2. CASE m_bCommitted' = FALSE /\ m_cRef' = m_cRef
          BY <2>2, <5>2
        <5> QED BY <2>4, <5>1, <5>2
      <4>3. m_cRef' # 0 /\ ~deleted' /\ ~m_bDecommitInProgress'
        BY <2>1, <2>2, <2>4, <4>1, <4>2
      <4> QED BY <2>1, <2>2, <4>1, <4>2, <4>3 DEF RefBalance
    <3> QED BY <1>0, <2>4, <3>2, <3>3, <3>4 DEF PoolInv, PendingWhileOut
  <2> QED BY <1>3, <2>3, <2>4, CommitOutcome
<1>4. ASSUME NEW t \in Threads, Decommit(t) PROVE PoolInv'
  <2>1. /\ UNCHANGED <<poolState, lifetime, pSample, refs>> /\ pSample[t] = NoSample
        /\ t \in client /\ t \notin Finishing /\ (m_bCommitted \/ m_bDecommitInProgress)
        /\ m_bCommitted' = FALSE /\ m_bDecommitInProgress' = (m_lFree # Allocated)
        /\ IF m_lFree = Allocated THEN Goto(t, "freed") ELSE UNCHANGED pc
    BY <1>0, <1>4 DEF Decommit, Calls, TypeOK, Finishing
  <2>2. /\ Allocated' = Allocated /\ Outstanding' = Outstanding /\ Matching' = Matching
        /\ Outstanding = {} <=> m_lFree = Allocated
    BY <2>1 DEF PoolInv, poolState, Allocated, Outstanding, Matching
  <2>3. SampleAccounting'
    BY <1>0, <2>1, <2>2, PlacesStay, AccountStays DEF refs, SampleAccounting, PCs
  <2>4. /\ ~deleted /\ m_cRef \in Int /\ Cardinality(client) \in Nat /\ Cardinality(Finishing) \in Nat
        /\ ~m_bChanged
    BY <1>0, <2>1, Referred DEF TypeOK, PoolInv
  <2>5. RefBalance'
    <3>1. CASE m_lFree = Allocated
      <4>1. Finishing' = Finishing \cup {t}
        BY <1>0, <2>1, <3>1, NowFinishing DEF Finishing
      <4>2. Cardinality(Finishing') = Cardinality(Finishing) + 1
        BY <2>1, <4>1, ThreadComes, Places
      <4>3. m_cRef = Cardinality(client) + Cardinality(Finishing) + 1 /\ m_cRef # 0
        BY <2>1, <2>4 DEF PoolInv, RefBalance
      <4>4. /\ ~m_bCommitted' /\ ~m_bDecommitInProgress' /\ ~deleted' /\ client' = client
            /\ m_cRef' = m_cRef
        BY <2>1, <2>4, <3>1 DEF lifetime
      <4> QED BY <2>4, <4>2, <4>3, <4>4 DEF RefBalance
    <3>2. CASE m_lFree # Allocated
      <4>1. Finishing' = Finishing
        BY <2>1, <3>2 DEF Finishing
      <4> QED BY <2>1, <2>4, <3>2, <4>1 DEF PoolInv, RefBalance, lifetime
    <3> QED BY <3>1, <3>2
  <2> QED BY <1>0, <2>1, <2>2, <2>3, <2>4, <2>5 DEF PoolInv, PendingWhileOut, poolState, lifetime
<1>5. ASSUME NEW t \in Threads, ReleaseAfterFree(t) \/ ReleaseClient(t) PROVE PoolInv'
  <2>1. /\ ReleaseObject /\ UNCHANGED <<flags, pSample, refs>> /\ pSample[t] = NoSample
        /\ Goto(t, "idle") \/ UNCHANGED pc
        /\ t \in client \/ t \in Finishing
    BY <1>0, <1>5 DEF ReleaseAfterFree, ReleaseClient, Calls, TypeOK, Finishing, local
  <2>2. \A s \in Samples : /\ Holders(s)' = Holders(s) /\ Droppers(s)' = Droppers(s)
                           /\ Storers(s)' = Storers(s)
                           /\ Carriers(s)' = Carriers(s)
    BY <1>0, <2>1, PlacesStay DEF refs, PCs
  <2>3. m_cRef \in Int /\ Cardinality(client) \in Nat /\ Cardinality(Finishing) \in Nat
        /\ m_cRef > 0 /\ ~deleted
    BY <1>0, <2>1, Referred DEF TypeOK
  <2>4. Cardinality(client') + Cardinality(Finishing') = Cardinality(client) + Cardinality(Finishing) - 1
    <3>1. CASE ReleaseAfterFree(t)
      <4>1. Finishing' = Finishing \ {t} /\ t \in Finishing /\ client' = client
        BY <1>0, <3>1 DEF ReleaseAfterFree, TypeOK, Goto, Finishing
      <4>2. Cardinality(Finishing') = Cardinality(Finishing) - 1
        BY <4>1, ThreadGoes, Places
      <4> QED BY <2>3, <4>1, <4>2
    <3>2. CASE ReleaseClient(t)
      <4>1. client' = client \ {t} /\ t \in client /\ Finishing' = Finishing
        BY <3>2 DEF ReleaseClient, Calls, local, Finishing
      <4>2. Cardinality(client') = Cardinality(client) - 1
        BY <1>0, <4>1, ThreadGoes DEF TypeOK
      <4> QED BY <2>3, <4>1, <4>2
    <3> QED BY <1>5, <3>1, <3>2
  <2>5. CASE m_cRef = 1
    <3>1. ~m_bCommitted /\ ~m_bDecommitInProgress /\ Outstanding = {}
      BY <2>1, <2>5, LastReference
    <3>2. /\ deleted' = TRUE /\ m_cRef' = 0 /\ m_lFree' = {} /\ Outstanding' = {}
          /\ UNCHANGED flags
      BY <2>1, <2>5 DEF ReleaseObject, Outstanding, Allocated
    <3>3. SampleAccounting'
      BY <1>0, <2>1, <2>2, <3>1, <3>2, AccountAnew DEF refs
    <3>4. RefBalance'
      BY <2>3, <2>4, <2>5, <3>1, <3>2 DEF PoolInv, RefBalance, flags
    <3> QED BY <1>0, <3>1, <3>2, <3>3, <3>4 DEF PoolInv, PendingWhileOut, flags
  <2>6. CASE m_cRef # 1
    <3>1. m_cRef' = m_cRef - 1 /\ UNCHANGED <<deleted, poolState, flags>>
      BY <2>1, <2>6 DEF ReleaseObject
    <3>2. Allocated' = Allocated /\ Outstanding' = Outstanding /\ Matching' = Matching
      BY <3>1 DEF poolState, Allocated, Outstanding, Matching
    <3>3. SampleAccounting'
      BY <1>0, <2>1, <2>2, <3>2, AccountStays DEF refs, SampleAccounting
    <3>4. RefBalance'
      BY <2>3, <2>4, <2>6, <3>1 DEF PoolInv, RefBalance, flags
    <3> QED BY <1>0, <3>1, <3>2, <3>3, <3>4 DEF PoolInv, PendingWhileOut, flags, poolState
  <2> QED BY <2>5, <2>6
<1>6. ASSUME NEW t \in Threads,
             \/ GetBufferCall(t) \/ Wake(t) \/ NotifyRelease(t)
             \/ /\ GetBuffer(t) /\ UNCHANGED <<m_lFree, pSample>>
                /\ Goto(t, "idle") \/ Goto(t, "wait")
      PROVE  PoolInv'
  <2>1. /\ UNCHANGED <<poolState, flags, lifetime, pSample, refs>>
        /\ pSample[t] = NoSample
        /\ \E l \in PCs : Goto(t, l) /\ (pc[t] \notin {"notifyFree", "freed"}
                                            <=> l \notin {"notifyFree", "freed"})
    BY <1>0, <1>6 DEF GetBufferCall, Calls, Wake, NotifyRelease, GetBuffer, TypeOK, PCs, poolState
  <2>2. /\ Finishing' = Finishing
        /\ \A s \in Samples : Holders(s)' = Holders(s) /\ Droppers(s)' = Droppers(s)
                              /\ Storers(s)' = Storers(s)
                                /\ Carriers(s)' = Carriers(s)
    BY <1>0, <2>1, PlacesStay, StillFinishing DEF refs
  <2>3. Allocated' = Allocated /\ Outstanding' = Outstanding
    BY <2>1 DEF poolState, Allocated, Outstanding
  <2>4. SampleAccounting'
    BY <1>0, <2>1, <2>2, <2>3, AccountStays DEF refs, SampleAccounting
  <2> QED BY <1>0, <2>1, <2>2, <2>3, <2>4, FlagsStay DEF poolState, PoolInv
<1>7. ASSUME NEW t \in Threads, GetBuffer(t), ~UNCHANGED m_lFree PROVE PoolInv'
  <2>1. PICK f \in m_lFree : m_lFree' = m_lFree \ {f} /\ pSample' = [pSample EXCEPT ![t] = f]
    BY <1>7 DEF GetBuffer
  <2>2. /\ pc[t] \in {"get", "getNoWait"} /\ Goto(t, "got") /\ m_bCommitted
        /\ UNCHANGED <<made, m_lCount, m_lSize, m_bChanged, flags, lifetime, sampleRef, held>>
    BY <1>7, <2>1 DEF GetBuffer, MayLend, refs
  <2>3. SampleAccounting'
    BY <2>1, <2>2, LendAccount
  <2>4. Finishing' = Finishing
    BY <1>0, <2>2, StillFinishing DEF PCs
  <2>5. Allocated' = Allocated /\ Matching' = Matching /\ m_lFree' \subseteq Allocated
    BY <2>1, <2>2 DEF Allocated, Matching, PoolInv
  <2> QED BY <1>0, <2>2, <2>3, <2>4, <2>5
          DEF PoolInv, flags, lifetime, PendingWhileOut, RefBalance
<1>8. ASSUME NEW t \in Threads,
             \/ GetBufferReturn(t) \/ SampleStore(t) \/ SampleDecrement(t)
             \/ \E s \in Samples : SampleRelease(t, s)
             \/ \E u \in Threads, s \in Samples : SampleAddRef(t, u, s)
      PROVE  PoolInv'
  <2>1. SampleAccounting'
    BY <1>8, ReturnAccount, StoreAccount, DecrementAccount, ReleaseAccount, AddRefAccount
  <2>2. UNCHANGED <<poolState, flags, lifetime>>
    BY <1>8 DEF GetBufferReturn, SampleStore, SampleDecrement, SampleRelease, SampleAddRef
  <2>3. Finishing' = Finishing
    BY <1>0, <1>8 DEF GetBufferReturn, SampleStore, SampleDecrement, SampleRelease, SampleAddRef,
                      Goto, local, Finishing, TypeOK
  <2> QED BY <1>0, <2>1, <2>2, <2>3, FlagsStay DEF poolState, PoolInv, Outstanding, Allocated
<1>9. ASSUME NEW t \in Threads, ReleaseBuffer(t) PROVE PoolInv'
  <2>1. /\ SampleAccounting' /\ pSample[t] \in Outstanding
        /\ Outstanding' = Outstanding \ {pSample[t]}
    BY <1>9, ReturnedAccount
  <2>2. /\ UNCHANGED <<made, m_lCount, m_lSize, m_bChanged, m_bCommitted, lifetime>>
        /\ m_lFree' = m_lFree \cup {pSample[t]} /\ pc[t] = "release"
        /\ IF m_bDecommitInProgress /\ m_lFree' = Allocated
             THEN m_bDecommitInProgress' = FALSE /\ Goto(t, "notifyFree")
             ELSE UNCHANGED m_bDecommitInProgress /\ Goto(t, "notify")
    BY <1>9 DEF ReleaseBuffer, LastBufferBack
  <2>3. /\ Allocated' = Allocated /\ Matching' = Matching /\ m_lFree' \subseteq Allocated
        /\ m_lFree' = Allocated <=> Outstanding' = {}
    BY <2>1, <2>2 DEF Allocated, Outstanding, Matching, PoolInv
  <2>4. m_cRef \in Int /\ Cardinality(client) \in Nat /\ Cardinality(Finishing) \in Nat
    BY <1>0, Referred DEF TypeOK
  <2>5. RefBalance'
    <3>1. CASE m_bDecommitInProgress /\ m_lFree' = Allocated
      <4>1. Finishing' = Finishing \cup {t} /\ t \notin Finishing
        BY <1>0, <2>2, <3>1, NowFinishing
      <4>2. Cardinality(Finishing') = Cardinality(Finishing) + 1
        BY <4>1, ThreadComes, Places
      <4>3. ~m_bCommitted /\ m_cRef = Cardinality(client) + Cardinality(Finishing) + 1 /\ m_cRef # 0
        BY <2>1, <2>2, <2>4, <3>1, Referred DEF PoolInv, RefBalance, PendingWhileOut
      <4>4. /\ ~m_bCommitted' /\ ~m_bDecommitInProgress' /\ m_cRef' = m_cRef /\ client' = client
            /\ deleted' = deleted
        BY <2>2, <3>1, <4>3 DEF lifetime
      <4>5. ~deleted
        BY <4>3 DEF PoolInv, RefBalance
      <4> QED BY <2>4, <4>2, <4>3, <4>4, <4>5 DEF RefBalance
    <3>2. CASE ~(m_bDecommitInProgress /\ m_lFree' = Allocated)
      <4>1. Finishing' = Finishing
        BY <1>0, <2>2, <3>2, StillFinishing DEF PCs
      <4> QED BY <2>2, <2>4, <3>2, <4>1 DEF PoolInv, RefBalance, lifetime
    <3> QED BY <3>1, <3>2
  <2> QED BY <1>0, <2>1, <2>2, <2>3, <2>5 DEF PoolInv, PendingWhileOut, lifetime
<1>10. ASSUME NEW t \in Threads, GetBuffer(t), UNCHANGED m_lFree PROVE PoolInv'
  <2>1. UNCHANGED pSample /\ (Goto(t, "idle") \/ Goto(t, "wait"))
    BY <1>10, <1>0 DEF GetBuffer, MayLend
  <2> QED BY <1>6, <1>10, <2>1
<1> QED
  BY <1>1, <1>2, <1>3, <1>4, <1>5, <1>6, <1>7, <1>8, <1>9, <1>10
  DEF Next, Internal, ReleaseHeld, Call

\* Every buffer is in one place and returned once, however Release races with
\* AddRef, and while buffers can be out they are as many and as large as agreed:
\* for any number of threads, samples and references handed over.
THEOREM BuffersAreAccounted == Spec => []BuffersAccounted
<1>1. PoolInv => BuffersAccounted
  BY Referred DEF PoolInv, BuffersAccounted, BuffersMatchProperties
<1> QED BY <1>1, InitPool, NextPool, PTL DEF Spec

\* A decommit is completed once, by the Decommit that finds no buffer out or by the
\* last buffer that comes back, and the reference of Commit is given up with it,
\* so the allocator goes with the last reference and not before.
THEOREM DecommitCompletesOnce == Spec => []DecommitOnce
<1>1. PoolInv => DecommitOnce
  BY DEF PoolInv, DecommitOnce
<1> QED BY <1>1, InitPool, NextPool, PTL DEF Spec
-----------------------------------------------------------------------------
\* The steps of the allocator as steps of the pool it promises.  A buffer that is
\* lent or returned, a Commit and the last reference are seen there; of Decommit
\* only the flag, and nothing of waiting, signalling and reference counts.
LEMMA StepImplements == PoolInv /\ [Next]_vars => [Pool!PoolNext]_(Pool!poolVars)
<1> SUFFICES ASSUME PoolInv, [Next]_vars
             PROVE  Pool!PoolNext \/ UNCHANGED <<m_bCommitted, Allocated, Outstanding, ~deleted>>
  BY DEF Pool!poolVars
<1> USE DEF Pool!PoolNext
<1>0. TypeOK /\ m_lFree \subseteq Allocated /\ PendingWhileOut
  BY DEF PoolInv
<1>1. CASE UNCHANGED <<m_bCommitted, m_lFree, made, deleted>>
  BY <1>1 DEF Allocated, Outstanding
<1>2. ASSUME NEW t \in Threads, Commit(t)
      PROVE  Pool!PoolNext
  <2>1. t \in client /\ UNCHANGED deleted
    BY <1>2 DEF Commit, Calls
  <2>2. ~deleted
    BY <2>1, Referred
  <2>3. CASE UNCHANGED poolState /\ m_bCommitted' = TRUE /\ m_bDecommitInProgress /\ ~m_bCommitted
    <3>1. Allocated' = Allocated /\ Outstanding' = Outstanding /\ Outstanding # {}
      BY <1>0, <2>3 DEF poolState, Allocated, Outstanding, PendingWhileOut
    <3> QED BY <2>1, <2>2, <2>3, <3>1 DEF Pool!Open
  <2>4. CASE /\ ~m_bCommitted /\ ~m_bDecommitInProgress /\ m_bCommitted' \in BOOLEAN
             /\ Alloc(TRUE) \/ Alloc(FALSE)
    <3>1. Outstanding = {} /\ (~m_bChanged => Matching)
      BY <2>2, <2>4 DEF PoolInv, PendingWhileOut
    <3>2. Outstanding' = {}
      BY <1>0, <2>4, <3>1, AllocOutcome
    <3>3. Allocated' \in SUBSET Samples
      BY DEF Allocated
    <3> QED BY <2>1, <2>2, <2>4, <3>1, <3>2, <3>3 DEF Pool!Open
  <2> QED BY <1>2, <2>3, <2>4, CommitOutcome
<1>3. ASSUME NEW t \in Threads, Decommit(t), m_bCommitted
      PROVE  Pool!PoolNext
  <2>1. Allocated' = Allocated /\ Outstanding' = Outstanding /\ UNCHANGED deleted
        /\ m_bCommitted' = FALSE
    BY <1>3 DEF Decommit, poolState, lifetime, Allocated, Outstanding
  <2> QED BY <1>3, <2>1, Referred DEF Pool!Close
<1>4. ASSUME ReleaseObject, UNCHANGED flags, client # {} \/ Finishing # {}
      PROVE  Pool!PoolNext \/ UNCHANGED <<m_bCommitted, m_lFree, made, deleted>>
  <2>1. CASE m_cRef = 1
    <3>1. ~m_bCommitted /\ Outstanding = {} /\ ~deleted
      BY <1>4, <2>1, LastReference
    <3>2. deleted' = TRUE /\ Allocated' = {} /\ Outstanding' = {} /\ UNCHANGED m_bCommitted
      BY <1>4, <2>1 DEF ReleaseObject, Allocated, Outstanding, flags
    <3> QED BY <3>1, <3>2 DEF Pool!Dispose
  <2>2. CASE m_cRef # 1
    BY <1>4, <2>2 DEF ReleaseObject, poolState, flags
  <2> QED BY <2>1, <2>2
<1>5. ASSUME NEW t \in Threads, ReleaseAfterFree(t) \/ ReleaseClient(t)
      PROVE  Pool!PoolNext \/ UNCHANGED <<m_bCommitted, m_lFree, made, deleted>>
  <2>1. ReleaseObject /\ UNCHANGED flags /\ (client # {} \/ Finishing # {})
    BY <1>5 DEF ReleaseAfterFree, ReleaseClient, Calls, Finishing
  <2> QED BY <1>4, <2>1
<1>6. ASSUME NEW t \in Threads, GetBuffer(t)
      PROVE  Pool!PoolNext \/ UNCHANGED <<m_bCommitted, m_lFree, made, deleted>>
  <2>1. UNCHANGED <<m_bCommitted, made, deleted>>
    BY <1>6 DEF GetBuffer, flags, lifetime
  <2>2. ASSUME NEW f \in m_lFree, m_lFree' = m_lFree \ {f}, m_bCommitted PROVE Pool!Lend
    <3>1. /\ Allocated' = Allocated /\ f \in Allocated \ Outstanding
          /\ Outstanding' = Outstanding \cup {f}
      BY <1>0, <2>1, <2>2 DEF Allocated, Outstanding
    <3> QED BY <2>1, <2>2, <3>1, Referred DEF Pool!Lend
  <2> QED BY <1>6, <2>1, <2>2 DEF GetBuffer, MayLend
<1>7. ASSUME NEW t \in Threads, ReleaseBuffer(t)
      PROVE  Pool!PoolNext
  <2>1. pSample[t] \in Outstanding /\ Outstanding' = Outstanding \ {pSample[t]}
    BY <1>7, ReturnedAccount
  <2>2. UNCHANGED <<m_bCommitted, deleted>> /\ Allocated' = Allocated
    BY <1>7 DEF ReleaseBuffer, lifetime, Allocated
  <2>3. ~deleted
    BY <1>0, <2>1, Referred DEF PendingWhileOut
  <2> QED BY <2>1, <2>2, <2>3 DEF Pool!Return
<1>8. ASSUME NEW t \in Threads,
             \/ SetProperties(t) \/ (Decommit(t) /\ ~m_bCommitted) \/ GetBufferCall(t) \/ Wake(t)
             \/ GetBufferReturn(t) \/ SampleStore(t) \/ SampleDecrement(t) \/ NotifyRelease(t)
             \/ \E s \in Samples : SampleRelease(t, s)
             \/ \E u \in Threads, s \in Samples : SampleAddRef(t, u, s)
      PROVE  UNCHANGED <<m_bCommitted, m_lFree, made, deleted>>
  BY <1>0, <1>8 DEF SetProperties, Decommit, GetBufferCall, Wake, GetBufferReturn, SampleStore,
     SampleDecrement, NotifyRelease, SampleRelease, SampleAddRef, poolState, flags, lifetime, TypeOK
<1>9. CASE UNCHANGED vars
  BY <1>1, <1>9 DEF vars, poolState, flags, lifetime
<1> QED
  BY <1>1, <1>2, <1>3, <1>5, <1>6, <1>7, <1>8, <1>9 DEF Next, Internal, ReleaseHeld, Call

\* The allocator implements the pool of BufferPool: buffers are lent by an open
\* pool only, each to one borrower at a time, and the pool is neither rebuilt nor
\* disposed of under a buffer that is lent.
THEOREM AllocatorImplementsPool == Spec => ImplementsPool
<1>1. Init => Pool!PoolInit
  BY DEF Init, Pool!PoolInit, Allocated, Outstanding
<1> QED BY <1>1, InitPool, NextPool, StepImplements, PTL DEF Spec, ImplementsPool, Pool!PoolSpec
=============================================================================
