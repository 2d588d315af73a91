---------------------------- MODULE MemAllocator ----------------------------
(***************************************************************************)
(* CBaseAllocator / CMemAllocator and the reference count of CMediaSample  *)
(* (baseclasses/amfilter.cpp).  The allocator owns the buffers the worker  *)
(* thread of the filter fills; GetBuffer blocks on a semaphore with a lazy *)
(* signalling scheme, Decommit is completed by whoever returns the last    *)
(* buffer, and the allocator is kept alive by a reference it takes on      *)
(* itself.                                                                 *)
(*                                                                         *)
(* A critical section (CAutoLock on the allocator) is one step; what a     *)
(* thread does after leaving it is another.  The free list is the set of   *)
(* its members, so RemoveHead takes any of them.  Calls that return early  *)
(* and change nothing are not steps, except in GetBuffer, where the early  *)
(* return ends a wait.                                                     *)
(***************************************************************************)
EXTENDS Integers, FiniteSets

CONSTANTS
    Threads,      \* application, worker and renderer threads
    Samples,      \* the CMediaSample objects there can be
    Counts,       \* values of pRequest->cBuffers
    Sizes,        \* values of pRequest->cbBuffer, rounded as SetProperties does
    NoSample,     \* NULL in a thread's local pSample
    MaxTimeouts,  \* bound on GetBuffer(AM_GBF_NOWAIT) calls that time out
    MaxShares     \* bound on references handed from one thread to another

ASSUME AllocatorAssumption ==
    /\ IsFiniteSet(Threads) /\ IsFiniteSet(Samples)
    /\ NoSample \notin Samples
    /\ Counts \subseteq Nat /\ Sizes \subseteq Nat \ {0}
    /\ MaxTimeouts \in Nat /\ MaxShares \in Nat

VARIABLES
    m_lFree,                \* samples on the free list
    made,                   \* made[s] = GetSize() of sample s, 0: no such object
    m_lCount, m_lSize,      \* agreed properties
    m_bChanged, m_bCommitted, m_bDecommitInProgress,
    m_lWaiting,             \* threads that will have to be signalled
    m_hSem,                 \* count of the semaphore
    m_cRef,                 \* references on the allocator (CUnknown)
    deleted,                \* the last of them has been released
    sampleRef,              \* CMediaSample::m_cRef
    pc, pSample,            \* where each thread is, and its local pSample
    held,                   \* references on samples a thread owns
    client,                 \* threads that own a reference on the allocator
    timeouts, shares        \* history: NOWAIT time-outs, references handed over

poolState == <<m_lFree, made, m_lCount, m_lSize, m_bChanged>>
flags     == <<m_bCommitted, m_bDecommitInProgress>>
signals   == <<m_lWaiting, m_hSem, timeouts>>
lifetime  == <<m_cRef, deleted, client>>
local     == <<pc, pSample>>
refs      == <<sampleRef, held, shares>>

vars == <<poolState, flags, signals, lifetime, local, refs>>

Allocated   == {s \in Samples : made[s] # 0}
Outstanding == Allocated \ m_lFree
Waiting     == {t \in Threads : pc[t] = "wait"}

PCs == {"idle", "get", "getNoWait", "wait", "got", "last", "dec",
        "release", "notify", "notifyFree", "freed"}

Init ==
    /\ m_lFree = {} /\ made = [s \in Samples |-> 0]
    /\ m_lCount = 0 /\ m_lSize = 0
    /\ m_bChanged = FALSE /\ m_bCommitted = FALSE /\ m_bDecommitInProgress = FALSE
    /\ m_lWaiting = 0 /\ m_hSem = 0
    /\ client \in SUBSET Threads /\ client # {}
    /\ m_cRef = Cardinality(client) /\ deleted = FALSE
    /\ sampleRef = [s \in Samples |-> 0]
    /\ pc = [t \in Threads |-> "idle"] /\ pSample = [t \in Threads |-> NoSample]
    /\ held = [t \in Threads |-> {}]
    /\ timeouts = 0 /\ shares = 0
-----------------------------------------------------------------------------
\* IUnknown::Release on the allocator.  At zero the destructor runs: its
\* Decommit() finds both flags clear and returns, then ReallyFree().
ReleaseObject ==
    /\ m_cRef' = m_cRef - 1
    /\ IF m_cRef = 1
         THEN /\ deleted' = TRUE
              /\ made' = [s \in Samples |-> 0] /\ m_lFree' = {}
              /\ UNCHANGED <<m_lCount, m_lSize, m_bChanged>>
         ELSE UNCHANGED <<deleted, poolState>>

\* A thread enters an interface method of the allocator.
Calls(t) == pc[t] = "idle" /\ t \in client

Goto(t, label) == pc' = [pc EXCEPT ![t] = label]

\* VFW_E_ALREADY_COMMITTED and VFW_E_BUFFERS_OUTSTANDING.
MayResize == ~m_bCommitted /\ m_lFree = Allocated

\* SetProperties: refused while committed or while a sample is out.  The new
\* memory is only allocated by the next Commit.
SetProperties(t) ==
    /\ Calls(t) /\ MayResize
    /\ m_lCount' \in Counts /\ m_lSize' \in Sizes
    /\ m_bChanged' = TRUE
    /\ UNCHANGED <<m_lFree, made, flags, signals, lifetime, local, refs>>

\* Alloc: E_FAIL before SetProperties; nothing to do when the requirements are
\* the same; otherwise the old samples are freed and new ones made.  Running out
\* of memory leaves none of them (VirtualAlloc, an overflow) or some (new).
Alloc(ok) ==
    /\ UNCHANGED <<m_lCount, m_lSize>>
    /\ \/ /\ m_lCount = 0 \/ m_lSize = 0
          /\ ~ok /\ UNCHANGED <<m_lFree, made, m_bChanged>>
       \/ /\ m_lCount # 0 /\ m_lSize # 0 /\ ~m_bChanged
          /\ ok /\ UNCHANGED <<m_lFree, made, m_bChanged>>
       \/ /\ m_lCount # 0 /\ m_lSize # 0 /\ m_bChanged
          /\ \E new \in SUBSET Samples :
                /\ made' = [s \in Samples |-> IF s \in new THEN m_lSize ELSE 0]
                /\ m_lFree' = new
                /\ \/ ok /\ Cardinality(new) = m_lCount /\ m_bChanged' = FALSE
                   \/ ~ok /\ Cardinality(new) < m_lCount /\ UNCHANGED m_bChanged

\* Commit finds a decommit that waits for samples.
Pending == m_bDecommitInProgress

\* Mutant: the reference is taken whether or not the samples could be made.
AlwaysAddRef(ok) == m_cRef' = m_cRef + 1

\* The AddRef of a Commit that allocated.
AddRefIf(ok) == m_cRef' = IF ok THEN m_cRef + 1 ELSE m_cRef

\* Commit: a pending decommit is cancelled, keeping the reference it holds;
\* otherwise the samples are made and the allocator takes that reference.
Commit(t) ==
    /\ Calls(t) /\ ~m_bCommitted
    /\ UNCHANGED <<signals, deleted, client, local, refs>>
    /\ \/ /\ Pending
          /\ m_bCommitted' = TRUE /\ m_bDecommitInProgress' = FALSE
          /\ UNCHANGED <<poolState, m_cRef>>
       \/ /\ ~Pending /\ UNCHANGED m_bDecommitInProgress
          /\ \E ok \in BOOLEAN :
                /\ Alloc(ok) /\ AddRefIf(ok)
                /\ m_bCommitted' = ok

\* Mutant: one waiter is signalled and all are forgotten.
NotifyOne ==
    /\ m_hSem' = IF m_lWaiting # 0 THEN m_hSem + 1 ELSE m_hSem
    /\ m_lWaiting' = 0 /\ UNCHANGED timeouts

\* Mutant: nobody is signalled.
NotifyNobody == UNCHANGED signals

\* NotifySample: one count of the semaphore for every thread counted in
\* m_lWaiting.
NotifySample ==
    /\ m_hSem' = m_hSem + m_lWaiting /\ m_lWaiting' = 0
    /\ UNCHANGED timeouts

\* Decommit: pending while samples are out, complete otherwise; the waiters
\* are woken in both cases.
Decommit(t) ==
    /\ Calls(t)
    /\ m_bCommitted \/ m_bDecommitInProgress
    /\ m_bCommitted' = FALSE
    /\ m_bDecommitInProgress' = (m_lFree # Allocated)
    /\ NotifySample
    /\ IF m_lFree = Allocated THEN Goto(t, "freed") ELSE UNCHANGED pc
    /\ UNCHANGED <<poolState, lifetime, pSample, refs>>

\* After its critical section Decommit or ReleaseBuffer gives up the reference
\* Commit took.
ReleaseAfterFree(t) ==
    /\ pc[t] = "freed"
    /\ ReleaseObject /\ Goto(t, "idle")
    /\ UNCHANGED <<flags, signals, client, pSample, refs>>

\* A client lets go of the allocator.
ReleaseClient(t) ==
    /\ Calls(t)
    /\ ReleaseObject /\ client' = client \ {t}
    /\ UNCHANGED <<flags, signals, local, refs>>
-----------------------------------------------------------------------------
\* GetBuffer is called, with or without AM_GBF_NOWAIT.
GetBufferCall(t) ==
    /\ Calls(t)
    /\ \/ Goto(t, "get")
       \/ timeouts < MaxTimeouts /\ Goto(t, "getNoWait")
    /\ UNCHANGED <<poolState, flags, signals, lifetime, pSample, refs>>

\* Mutant: buffers are still handed out while a decommit is pending.
LendWhilePending == m_bCommitted \/ m_bDecommitInProgress

\* GetBuffer's check that the allocator is committed.
MayLend == m_bCommitted

\* The critical section of GetBuffer's loop: not committed, a sample taken off
\* the free list, or none and SetWaiting().  A NOWAIT call has counted itself
\* too when it then returns VFW_E_TIMEOUT instead of waiting.
GetBuffer(t) ==
    /\ pc[t] \in {"get", "getNoWait"}
    /\ UNCHANGED <<made, m_lCount, m_lSize, m_bChanged, flags, lifetime, refs, m_hSem>>
    /\ \/ /\ ~MayLend
          /\ Goto(t, "idle") /\ UNCHANGED <<m_lFree, pSample, m_lWaiting, timeouts>>
       \/ /\ MayLend
          /\ \E s \in m_lFree :
                m_lFree' = m_lFree \ {s} /\ pSample' = [pSample EXCEPT ![t] = s]
          /\ Goto(t, "got") /\ UNCHANGED <<m_lWaiting, timeouts>>
       \/ /\ MayLend /\ m_lFree = {}
          /\ m_lWaiting' = m_lWaiting + 1
          /\ IF pc[t] = "get"
               THEN Goto(t, "wait") /\ UNCHANGED timeouts
               ELSE Goto(t, "idle") /\ timeouts' = timeouts + 1
          /\ UNCHANGED <<m_lFree, pSample>>

\* The semaphore has a count to take.
Signalled == m_hSem > 0

\* WaitForSingleObject(m_hSem, INFINITE) returns; round the loop again.
Wake(t) ==
    /\ pc[t] = "wait" /\ Signalled
    /\ m_hSem' = m_hSem - 1 /\ Goto(t, "get")
    /\ UNCHANGED <<poolState, flags, m_lWaiting, timeouts, lifetime, pSample, refs>>

\* GetBuffer returns the sample with a reference count of one.
GetBufferReturn(t) ==
    /\ pc[t] = "got"
    /\ sampleRef' = [sampleRef EXCEPT ![pSample[t]] = 1]
    /\ held' = [held EXCEPT ![t] = @ \cup {pSample[t]}]
    /\ pSample' = [pSample EXCEPT ![t] = NoSample] /\ Goto(t, "idle")
    /\ UNCHANGED <<poolState, flags, signals, lifetime, shares>>
-----------------------------------------------------------------------------
\* CMediaSample::AddRef for another thread, as a queue or a renderer that keeps
\* a delivered sample does.
SampleAddRef(t, u, s) ==
    /\ pc[t] = "idle" /\ s \in held[t] /\ s \notin held[u]
    /\ shares < MaxShares /\ shares' = shares + 1
    /\ sampleRef' = [sampleRef EXCEPT ![s] = @ + 1]
    /\ held' = [held EXCEPT ![u] = @ \cup {s}]
    /\ UNCHANGED <<poolState, flags, signals, lifetime, local>>

\* Mutant: the reference count is compared with the wrong number.
LastOwnerOffByOne(s) == sampleRef[s] \in {1, 2}

\* The test "m_cRef == 1" of CMediaSample::Release.
LastOwner(s) == sampleRef[s] = 1

\* CMediaSample::Release reads m_cRef without a lock: one means the caller is
\* the last owner.  What it does about the count is a second step.
SampleRelease(t, s) ==
    /\ pc[t] = "idle" /\ s \in held[t]
    /\ held' = [held EXCEPT ![t] = @ \ {s}]
    /\ pSample' = [pSample EXCEPT ![t] = s]
    /\ Goto(t, IF LastOwner(s) THEN "last" ELSE "dec")
    /\ UNCHANGED <<poolState, flags, signals, lifetime, sampleRef, shares>>

\* The last owner stores 0, whatever the count is by now.
SampleStore(t) ==
    /\ pc[t] = "last"
    /\ sampleRef' = [sampleRef EXCEPT ![pSample[t]] = 0]
    /\ Goto(t, "release")
    /\ UNCHANGED <<poolState, flags, signals, lifetime, pSample, held, shares>>

\* InterlockedDecrement: whoever reaches zero returns the buffer.
SampleDecrement(t) ==
    /\ pc[t] = "dec"
    /\ sampleRef' = [sampleRef EXCEPT ![pSample[t]] = @ - 1]
    /\ IF sampleRef[pSample[t]] = 1
         THEN Goto(t, "release") /\ UNCHANGED pSample
         ELSE Goto(t, "idle") /\ pSample' = [pSample EXCEPT ![t] = NoSample]
    /\ UNCHANGED <<poolState, flags, signals, lifetime, held, shares>>

\* Mutant: the free list is counted before the sample is put back.
LastBufferWasBack == m_bDecommitInProgress /\ m_lFree = Allocated

\* The sample just put back is the one a pending decommit waits for.
LastBufferBack == m_bDecommitInProgress /\ m_lFree' = Allocated

\* ReleaseBuffer's critical section: the sample is free again, the waiters are
\* signalled, and the last sample completes a pending decommit.
ReleaseBuffer(t) ==
    /\ pc[t] = "release"
    /\ m_lFree' = m_lFree \cup {pSample[t]}
    /\ NotifySample
    /\ pSample' = [pSample EXCEPT ![t] = NoSample]
    /\ IF LastBufferBack
         THEN m_bDecommitInProgress' = FALSE /\ Goto(t, "notifyFree")
         ELSE UNCHANGED m_bDecommitInProgress /\ Goto(t, "notify")
    /\ UNCHANGED <<made, m_lCount, m_lSize, m_bChanged, m_bCommitted, lifetime, refs>>

\* The rest of ReleaseBuffer reads m_pNotify (nobody has set it) without the
\* critical section, and returns or goes on to Release().
NotifyRelease(t) ==
    /\ \/ pc[t] = "notify" /\ Goto(t, "idle")
       \/ pc[t] = "notifyFree" /\ Goto(t, "freed")
    /\ UNCHANGED <<poolState, flags, signals, lifetime, pSample, refs>>
-----------------------------------------------------------------------------
\* Steps a thread takes once it is inside a call.
Internal(t) ==
    \/ GetBuffer(t) \/ Wake(t) \/ GetBufferReturn(t)
    \/ SampleStore(t) \/ SampleDecrement(t) \/ ReleaseBuffer(t)
    \/ NotifyRelease(t) \/ ReleaseAfterFree(t)

ReleaseHeld(t) == \E s \in Samples : SampleRelease(t, s)

\* Calls a thread may make or not.
Call(t) ==
    \/ SetProperties(t) \/ Commit(t) \/ Decommit(t) \/ ReleaseClient(t)
    \/ GetBufferCall(t)
    \/ \E u \in Threads, s \in Samples : SampleAddRef(t, u, s)

Next == \E t \in Threads : Internal(t) \/ ReleaseHeld(t) \/ Call(t)

Spec == Init /\ [][Next]_vars

\* The scheduler runs every thread that is inside a call (a wait on a signalled
\* semaphore ends), and whoever holds a sample gives it back, whatever other
\* calls it makes before.
FairSpec == Spec /\ \A t \in Threads : WF_vars(Internal(t)) /\ SF_vars(ReleaseHeld(t))
-----------------------------------------------------------------------------
\* The values of the variables; a thread has a sample in its hands exactly
\* inside GetBuffer and CMediaSample::Release.  That the two reference counts
\* are not negative is SampleAccounting and RefBalance.
TypeOK ==
    /\ m_lFree \in SUBSET Samples
    /\ made \in [Samples -> Sizes \cup {0}]
    /\ m_lCount \in Counts \cup {0} /\ m_lSize \in Sizes \cup {0}
    /\ m_bChanged \in BOOLEAN /\ m_bCommitted \in BOOLEAN
    /\ m_bDecommitInProgress \in BOOLEAN
    /\ m_lWaiting \in Nat /\ m_hSem \in Nat
    /\ m_cRef \in Int /\ deleted \in BOOLEAN
    /\ sampleRef \in [Samples -> Int]
    /\ pc \in [Threads -> PCs] /\ pSample \in [Threads -> Samples \cup {NoSample}]
    /\ held \in [Threads -> SUBSET Samples]
    /\ client \in SUBSET Threads
    /\ timeouts \in Nat /\ shares \in Nat
    /\ \A t \in Threads :
          pSample[t] # NoSample <=> pc[t] \in {"got", "last", "dec", "release"}

\* Who has a sample off the free list: threads with a reference, threads that
\* are about to change the count for one they have given up (the same thread
\* may be handed a new one meanwhile), and threads that carry the sample without
\* a reference, between the list and its first or last owner.
Holders(s)  == {t \in Threads : s \in held[t]}
Droppers(s) == {t \in Threads : pc[t] \in {"last", "dec"} /\ pSample[t] = s}
Storers(s)  == {t \in Droppers(s) : pc[t] = "last"}
Carriers(s) == {t \in Threads : pc[t] \in {"got", "release"} /\ pSample[t] = s}

\* A sample is in one place: on the free list, carried by one thread, or owned
\* by as many as its reference count says, and whoever is about to store 0 is the
\* only one.  So CMediaSample::Release, without a lock, returns each buffer once
\* (amfilter.cpp:3368-3400).
Accounted(s) ==
    /\ sampleRef[s] = Cardinality(Holders(s)) + Cardinality(Droppers(s))
    /\ Storers(s) # {} => sampleRef[s] = 1
    /\ Cardinality(Carriers(s)) <= 1
    /\ Carriers(s) # {} => Holders(s) \cup Droppers(s) = {}
    /\ s \in Outstanding <=> Holders(s) \cup Droppers(s) \cup Carriers(s) # {}

SampleAccounting == \A s \in Samples : Accounted(s)

\* Claim (1) of amfilter.h:1415: nobody remains to be signalled while a sample
\* is free.
FreeMeansNobodyWaits == m_lFree # {} => m_lWaiting = 0

\* What the code makes true instead of claim (2) of amfilter.h:1416: signals
\* given and owed cover the waiting threads, plus one for ever for each NOWAIT
\* call that timed out.
SignalBalance == m_lWaiting + m_hSem = Cardinality(Waiting) + timeouts

\* No wake-up is lost: with a sample free, or after a Decommit, every waiting
\* thread has a count of the semaphore to take (amfilter.h:1418-1426).
NoLostWakeup ==
    m_lFree # {} \/ ~m_bCommitted => m_hSem >= Cardinality(Waiting)

\* A decommit is pending exactly while a decommitted allocator has samples out,
\* whatever Commit, Decommit and ReleaseBuffer calls came before.
PendingWhileOut == ~m_bCommitted => (m_bDecommitInProgress <=> Outstanding # {})

\* While samples can be out, they are as many and as large as GetProperties
\* says, although SetProperties changes the numbers before memory is made.
Matching == Cardinality(Allocated) = m_lCount /\ \A s \in Allocated : made[s] = m_lSize

BuffersMatchProperties ==
    m_bCommitted \/ m_bDecommitInProgress => ~m_bChanged /\ Matching

\* Threads that have completed a decommit and not yet given up the reference
\* that Commit took.
Finishing == {t \in Threads : pc[t] \in {"notifyFree", "freed"}}

\* The reference Commit takes is given up once, by the Decommit or the
\* ReleaseBuffer that finished, however commits and decommits overlap; the
\* allocator goes with the last reference.
RefBalance ==
    /\ m_cRef = Cardinality(client) + Cardinality(Finishing)
                  + (IF m_bCommitted \/ m_bDecommitInProgress THEN 1 ELSE 0)
    /\ deleted <=> m_cRef = 0

\* The buffers are accounted for: each is in one place, is returned once, and is
\* of the size GetProperties says, so that none is resized while it is out.
BuffersAccounted == SampleAccounting /\ BuffersMatchProperties

\* A decommit is completed once, when it is due: with the last sample, and with
\* the release of the reference that Commit took.
DecommitOnce == PendingWhileOut /\ RefBalance

\* The signalling scheme of amfilter.h:1412-1426: whoever waits in GetBuffer is
\* woken by a free sample or a Decommit.
WaitersAreWoken == FreeMeansNobodyWaits /\ SignalBalance /\ NoLostWakeup

\* A thread blocked in GetBuffer is let go after a Decommit, unless another
\* Commit comes first.
DecommitFreesWaiters ==
    \A t \in Threads : (pc[t] = "wait" /\ ~m_bCommitted)
                          ~> (pc[t] # "wait" \/ m_bCommitted)

\* A pending decommit ends: the last sample comes back, or a Commit cancels it.
PendingDecommitEnds == m_bDecommitInProgress ~> ~m_bDecommitInProgress

\* A Decommit gets its way with the threads that wait and with those that hold.
DecommitEnds == DecommitFreesWaiters /\ PendingDecommitEnds

Pool == INSTANCE BufferPool WITH
            Buffers <- Samples, open <- m_bCommitted, pool <- Allocated,
            lent <- Outstanding, alive <- ~deleted

\* Every step of the allocator is a step of the pool it promises, or none.
ImplementsPool == Pool!PoolSpec
-----------------------------------------------------------------------------
\* "For each buffer there is one AddRef, made in GetBuffer and released here"
\* (amfilter.cpp:4834): the allocator is there for as long as a thread is
\* inside ReleaseBuffer.
AliveDuringReleaseBuffer ==
    deleted => \A t \in Threads : pc[t] \notin {"release", "notify", "notifyFree"}
=============================================================================
