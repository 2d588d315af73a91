--------------------------- MODULE ReferenceClock ---------------------------
(***************************************************************************)
(* CBaseReferenceClock (baseclasses/refclock.cpp) and the CAMSchedule it   *)
(* owns (baseclasses/schedule.cpp): the linked list of advise packets, its *)
(* cache of packets, and the thread that sleeps until the first of them is *)
(* due.                                                                    *)
(*                                                                         *)
(* An application thread adds and removes advises, moves the clock and     *)
(* destroys it; the advise thread waits for m_ev or for its timeout, reads *)
(* the time, and works off the list under m_Serialize, one packet at a     *)
(* step.  Time is counted in halves of a millisecond, so that the half     *)
(* millisecond SetTimeDelta ignores can happen; MAX_TIME is later than any *)
(* time an advise can have, and too far away to be waited for.  A new      *)
(* packet never fails to be allocated, and 64 bit times do not wrap.       *)
(***************************************************************************)
EXTENDS Integers, Sequences, FiniteSetsExt

CONSTANTS
    Packets,      \* what "new CAdvisePacket" can return
    CacheMax,     \* dwCacheMax: 5 in the code
    Times,        \* the times asked for
    Periods,      \* the periods asked for; 0 is a single advise
    Deltas,       \* what SetTimeDelta is called with
    MaxAdvises,   \* bound on the advises
    MaxDeltas,    \* bound on the calls of SetTimeDelta
    Horizon,      \* bound on the time
    UintMax       \* UINT_MAX: as a timeout in milliseconds it means INFINITE

Ms       == 2                      \* a millisecond, 10000 units of 100 ns
HalfMs   == 1                      \* 5000 units
MAX_TIME == 2 * Horizon + (UintMax + 1) * Ms
INFINITE == -1

ASSUME ReferenceClockAssumption ==
    /\ CacheMax \in Nat /\ MaxAdvises \in Nat /\ MaxDeltas \in Nat /\ Horizon \in Nat
    /\ UintMax \in Nat
    /\ IsFiniteSet(Packets) /\ Cardinality(Packets) >= MaxAdvises + CacheMax
    /\ {"head", "z", "null"} \cap Packets = {}
    /\ Times \subseteq 1 .. Horizon - 1 /\ Periods \subseteq 0 .. Horizon - 1
    /\ Deltas \subseteq Int

Nodes   == Packets \cup {"head", "z"}
Cookies == 1 .. MaxAdvises

VARIABLES
    m_next, m_rtEventTime, m_rtPeriod, m_dwAdviseCookie,   \* of each packet
    m_pAdviseCache, m_dwCacheCount,
    m_dwNextCookie, m_dwAdviseCount,
    m_ev,                  \* auto-reset event: look at the list again
    m_rtPrivateTime,       \* what GetPrivateTime returns now
    m_bAbort,
    tpc, dwWait, rtNow,    \* advise thread: label, what remains of its wait, time it read
    apc,                   \* application: label
    rung,                  \* how often the event or semaphore of each cookie was set
    late,                  \* time the thread could not allow for when it began to wait
    deltas                 \* calls of SetTimeDelta

listVars   == <<m_next, m_rtEventTime, m_rtPeriod, m_dwAdviseCookie>>
cacheVars  == <<m_pAdviseCache, m_dwCacheCount>>
countVars  == <<m_dwNextCookie, m_dwAdviseCount>>
threadVars == <<tpc, dwWait, rtNow>>
clockVars == <<listVars, cacheVars, countVars, m_ev, m_rtPrivateTime, m_bAbort, threadVars,
               apc, rung, late, deltas>>

ClockInit ==
    /\ m_next = [n \in Nodes |-> IF n = "head" THEN "z" ELSE "null"]
    /\ m_rtEventTime = [n \in Nodes |-> IF n = "z" THEN MAX_TIME ELSE 0]
    /\ m_rtPeriod = [n \in Nodes |-> 0]
    /\ m_dwAdviseCookie = [n \in Nodes |-> 0]
    /\ m_pAdviseCache = "null" /\ m_dwCacheCount = 0
    /\ m_dwNextCookie = 0 /\ m_dwAdviseCount = 0
    /\ m_ev = FALSE /\ m_rtPrivateTime = 0 /\ m_bAbort = FALSE
    /\ tpc = "wait" /\ dwWait = INFINITE /\ rtNow = 0
    /\ apc = "idle" /\ rung = [c \in Cookies |-> 0] /\ late = 0 /\ deltas = 0
-----------------------------------------------------------------------------
\* The packets reached from node n, up to but without the end of the chain.
Chain(n) ==
    LET from[p \in Nodes \cup {"null"}] ==
            IF p \in {"z", "null"} THEN <<>> ELSE <<p>> \o from[m_next[p]]
    IN from[n]

List  == Chain(m_next["head"])
Cache == Chain(m_pAdviseCache)

\* The list with its head.
ListNodes == <<"head">> \o List

InChain(chain) == {chain[i] : i \in DOMAIN chain}

\* m_Serialize is held by the thread while it works off the list.
Unlocked == tpc # "advise"

\* Mutant: a packet goes behind the first one.
AfterFirst(t) == IF m_next["head"] = "z" THEN "head" ELSE m_next["head"]

\* A walk along the list ends at the first of the nodes with these positions.
WalkEnd(stops) == ListNodes[Min(stops)]

\* Where AddAdvisePacket inserts: before the first packet not earlier than t, which
\* may be z.
InsertAfter(t) ==
    WalkEnd({i \in DOMAIN ListNodes : m_rtEventTime[m_next[ListNodes[i]]] >= t})

\* Mutant: only an empty list makes the thread look again.
FirstOfAll(p) == m_next["head"] = "z"

\* Mutant: the thread is only woken when it already waits for a time.
EarlierThanFirst(p) == p = "head" /\ m_next["head"] # "z"

\* The thread must look at the list again if the packet is the first to fire.
FirstToFire(p) == p = "head"

\* AddAdvisePacket: a packet of the cache, or a new one.
AddAdvisePacket(time, period) ==
    /\ m_dwNextCookie < MaxAdvises
    /\ \E p \in Packets :
          /\ IF m_pAdviseCache # "null"
               THEN /\ p = m_pAdviseCache /\ m_pAdviseCache' = m_next[p]
                    /\ m_dwCacheCount' = m_dwCacheCount - 1
               ELSE /\ p = CHOOSE q \in Packets : q \notin InChain(List)
                    /\ UNCHANGED cacheVars
          /\ LET prev == InsertAfter(time)
             IN /\ m_next' = [m_next EXCEPT ![p] = m_next[prev], ![prev] = p]
                /\ m_ev' = (m_ev \/ FirstToFire(prev))
          /\ m_rtEventTime' = [m_rtEventTime EXCEPT ![p] = time]
          /\ m_rtPeriod' = [m_rtPeriod EXCEPT ![p] = period]
          /\ m_dwAdviseCookie' = [m_dwAdviseCookie EXCEPT ![p] = m_dwNextCookie + 1]
    /\ m_dwNextCookie' = m_dwNextCookie + 1 /\ m_dwAdviseCount' = m_dwAdviseCount + 1

\* AdviseTime and AdvisePeriodic refuse times they cannot schedule.
Advise(time, period) ==
    /\ apc = "idle" /\ Unlocked /\ time > 0 /\ time # MAX_TIME
    /\ AddAdvisePacket(time, period)
    /\ UNCHANGED <<m_rtPrivateTime, m_bAbort, threadVars, apc, rung, late, deltas>>

\* Delete keeps a packet for later use unless the cache is full.
MayCache == m_dwCacheCount < CacheMax

\* RemoveNext of prev, and Delete of the packet removed, whose fields are
\* overwritten before they are read again.
Remove(prev) ==
    LET p == m_next[prev]
    IN /\ m_next' = [m_next EXCEPT ![prev] = m_next[p],
                                   ![p] = IF MayCache THEN m_pAdviseCache ELSE "null"]
       /\ m_pAdviseCache' = (IF MayCache THEN p ELSE m_pAdviseCache)
       /\ m_dwCacheCount' = (IF MayCache THEN m_dwCacheCount + 1 ELSE m_dwCacheCount)
       /\ m_dwAdviseCount' = m_dwAdviseCount - 1
       /\ m_rtEventTime' = [m_rtEventTime EXCEPT ![p] = 0]
       /\ m_rtPeriod' = [m_rtPeriod EXCEPT ![p] = 0]
       /\ m_dwAdviseCookie' = [m_dwAdviseCookie EXCEPT ![p] = 0]

\* Unadvise; a cookie that is not on the list is S_FALSE.
Unadvise(cookie) ==
    /\ apc = "idle" /\ Unlocked
    /\ \E prev \in InChain(List) \cup {"head"} :
          /\ m_next[prev] # "z" /\ m_dwAdviseCookie[m_next[prev]] = cookie
          /\ Remove(prev)
    /\ UNCHANGED <<m_dwNextCookie, m_ev, m_rtPrivateTime, m_bAbort, threadVars, apc, rung, late,
                   deltas>>
-----------------------------------------------------------------------------
(* The clock. *)

\* A millisecond passes, for the clock and for a thread that waits; at the
\* horizon only the wait goes on.
Tick ==
    /\ m_rtPrivateTime' = (IF m_rtPrivateTime + Ms <= Horizon THEN m_rtPrivateTime + Ms
                                                              ELSE m_rtPrivateTime)
    /\ dwWait' = IF tpc = "wait" /\ dwWait > 0 THEN dwWait - 1 ELSE dwWait
    /\ late' = IF tpc = "wait" THEN late ELSE late + (m_rtPrivateTime' - m_rtPrivateTime)
    /\ UNCHANGED <<listVars, cacheVars, countVars, m_ev, m_bAbort, tpc, rtNow, apc, rung, deltas>>

\* SetTimeDelta moves the clock under its lock ...
SetTimeDelta(d) ==
    /\ apc = "idle" /\ deltas < MaxDeltas /\ deltas' = deltas + 1
    /\ m_rtPrivateTime + d \in 0 .. Horizon
    /\ m_rtPrivateTime' = m_rtPrivateTime + d
    /\ apc' = IF d > HalfMs THEN "trigger" ELSE "idle"
    /\ late' = IF d > 0 /\ d <= HalfMs THEN late + d ELSE late
    /\ UNCHANGED <<listVars, cacheVars, countVars, m_ev, m_bAbort, threadVars, rung>>

\* The number of packets, read without m_Serialize.
AnyAdvise == m_dwAdviseCount > 0

\* ... and wakes the thread after a jump forwards, before it releases the lock.
SetTimeDeltaTrigger ==
    /\ apc = "trigger" /\ m_ev' = (m_ev \/ AnyAdvise) /\ apc' = "idle"
    /\ UNCHANGED <<listVars, cacheVars, countVars, m_rtPrivateTime, m_bAbort, threadVars, rung,
                   late, deltas>>

\* The destructor ends the thread.
Abort ==
    /\ apc = "idle" /\ m_bAbort' = TRUE /\ m_ev' = TRUE /\ apc' = "join"
    /\ UNCHANGED <<listVars, cacheVars, countVars, m_rtPrivateTime, threadVars, rung, late, deltas>>

Joined ==
    /\ apc = "join" /\ tpc = "exit" /\ apc' = "destroyed"
    /\ UNCHANGED <<listVars, cacheVars, countVars, m_ev, m_rtPrivateTime, m_bAbort, threadVars,
                   rung, late, deltas>>
-----------------------------------------------------------------------------
(* The advise thread. *)

\* The wait ends with the event or with the timeout.
ThreadWakes ==
    /\ tpc = "wait" /\ (m_ev \/ dwWait = 0)
    /\ m_ev' = FALSE /\ dwWait' = 0
    /\ tpc' = IF m_bAbort THEN "exit" ELSE "woken"
    /\ UNCHANGED <<listVars, cacheVars, countVars, m_rtPrivateTime, m_bAbort, rtNow, apc,
                   rung, late, deltas>>

\* GetPrivateTime, under the lock of the clock; then Advise of one millisecond
\* more takes m_Serialize.
ThreadReadsTime ==
    /\ tpc = "woken" /\ apc # "trigger" /\ rtNow' = m_rtPrivateTime /\ late' = 0 /\ tpc' = "advise"
    /\ UNCHANGED <<listVars, cacheVars, countVars, m_ev, m_rtPrivateTime, m_bAbort, dwWait, apc,
                   rung, deltas>>

\* Mutant: two milliseconds are allowed for.
TwiceResolution == 2 * Ms

\* The resolution of the wait.
Resolution == Ms

HeadExpired ==
    m_next["head"] # "z" /\ rtNow + Resolution >= m_rtEventTime[m_next["head"]]

SetNotify(p) == rung' = [rung EXCEPT ![m_dwAdviseCookie[p]] = @ + 1]

\* A single advise: set its event and delete it.
AdviseOnce ==
    /\ tpc = "advise" /\ HeadExpired /\ m_rtPeriod[m_next["head"]] = 0
    /\ SetNotify(m_next["head"]) /\ Remove("head")
    /\ UNCHANGED <<m_dwNextCookie, m_ev, m_rtPrivateTime, m_bAbort, threadVars, apc, late, deltas>>

\* The node ShuntHead puts the first packet behind, when its time is t: the last
\* one not later.
ShuntAfter(t) ==
    WalkEnd({i \in DOMAIN ListNodes :
                LET next == m_next[ListNodes[i]]
                IN (IF next = m_next["head"] THEN t ELSE m_rtEventTime[next]) > t})

ShuntBehind(t) == ShuntAfter(t)

\* A periodic advise: release its semaphore, add the period to its time and move
\* it to its new place.  The bound on the time is a bound on the periods.
AdvisePeriodic ==
    /\ tpc = "advise" /\ HeadExpired /\ m_rtPeriod[m_next["head"]] > 0
    /\ LET p == m_next["head"]
           t == m_rtEventTime[p] + m_rtPeriod[p]
           prev == ShuntBehind(t)
       IN /\ SetNotify(p)
          /\ m_rtEventTime' = [m_rtEventTime EXCEPT ![p] = t]
          /\ m_next' = IF prev = p THEN m_next
                       ELSE [m_next EXCEPT !["head"] = m_next[p], ![prev] = p, ![p] = m_next[prev]]
    /\ UNCHANGED <<m_rtPeriod, m_dwAdviseCookie, cacheVars, countVars, m_ev, m_rtPrivateTime,
                   m_bAbort, threadVars, apc, late, deltas>>

\* Nothing more is due: wait until the next packet is, in whole milliseconds.  More
\* than UINT_MAX of them become UINT_MAX, and that many are INFINITE: for the end of
\* the list, z, as for a packet that is too far away.
AdviseEnds ==
    /\ tpc = "advise" /\ ~HeadExpired
    /\ LET llWait == (m_rtEventTime[m_next["head"]] - rtNow) \div Ms
       IN dwWait' = IF llWait >= UintMax THEN INFINITE ELSE llWait
    /\ tpc' = (IF m_bAbort THEN "exit" ELSE "wait")
    /\ UNCHANGED <<listVars, cacheVars, countVars, m_ev, m_rtPrivateTime, m_bAbort, rtNow, apc,
                   rung, late, deltas>>
-----------------------------------------------------------------------------
Destroyed == apc = "destroyed" /\ UNCHANGED clockVars

ThreadStep == ThreadWakes \/ ThreadReadsTime \/ AdviseOnce \/ AdvisePeriodic \/ AdviseEnds

ClockNext ==
        \/ \E t \in Times, p \in Periods : Advise(t, p)
        \/ \E c \in Cookies : Unadvise(c)
        \/ \E d \in Deltas : SetTimeDelta(d)
        \/ SetTimeDeltaTrigger \/ Abort \/ Joined \/ Tick \/ ThreadStep \/ Destroyed

\* Time passes, the thread runs, and SetTimeDelta and the destructor return.
Fairness == WF_clockVars(Tick) /\ WF_clockVars(ThreadStep) /\ WF_clockVars(SetTimeDeltaTrigger \/ Joined)

ClockSpec == ClockInit /\ [][ClockNext]_clockVars /\ Fairness
-----------------------------------------------------------------------------
\* The chains are what schedule.h says: the list leads from head through the
\* packets in the order of their times to z, the cache has none of its packets,
\* and the counts and cookies are those of the packets there are.
ListAndCache ==
    LET list == List  cache == Cache
    IN /\ Len(list) = m_dwAdviseCount /\ Len(cache) = m_dwCacheCount
       /\ InChain(list) \cup InChain(cache) \subseteq Packets
       /\ InChain(list) \cap InChain(cache) = {} /\ Len(cache) <= CacheMax
       /\ \A i, j \in DOMAIN list : i < j =>
             /\ m_rtEventTime[list[i]] <= m_rtEventTime[list[j]]
             /\ m_dwAdviseCookie[list[i]] # m_dwAdviseCookie[list[j]]
       /\ \A i \in DOMAIN list : m_dwAdviseCookie[list[i]] \in 1 .. m_dwNextCookie

\* The first packet was so far away, when the thread last read the time, that a
\* timeout cannot express it: UINT_MAX milliseconds are 49.7 days.
TooFar == m_rtEventTime[m_next["head"]] - rtNow >= UintMax * Ms

\* No advise is slept through that is not too far away: a thread that waits with no
\* event on its way will wake by the time of the first packet, but for the time that
\* passed before it began to wait and the small steps of the clock nobody told it of.
\* It waits without an end only for a packet that was too far away.
WakesInTime ==
    tpc = "wait" /\ ~m_ev /\ apc # "trigger" /\ m_next["head"] # "z" =>
        \/ dwWait = INFINITE /\ TooFar
        \/ dwWait = 0
        \/ dwWait > 0 /\ m_rtPrivateTime + dwWait * Ms <= m_rtEventTime[m_next["head"]] + late

\* An advise whose time has come.
HeadDue == m_next["head"] # "z" /\ m_rtEventTime[m_next["head"]] <= m_rtPrivateTime

\* The thread sleeps, and nothing but another call will wake it, because the first
\* packet was too far away.
SleepsOn == tpc = "wait" /\ ~m_ev /\ dwWait = INFINITE /\ m_next["head"] # "z" /\ TooFar

\* An advise whose time has come is notified, or removed, or the clock goes back or
\* away; or it was too far away when the thread last looked, and no call wakes it.
AdvisesFire == HeadDue ~> (~HeadDue \/ m_bAbort \/ []SleepsOn)

\* Every advise whose time has come is notified, however far away it was.  The code
\* does not keep this: nothing wakes the thread when 49.7 days are over.
AllAdvisesFire == HeadDue ~> ~HeadDue \/ m_bAbort

\* The list and the thread make an alarm clock.
Clock == INSTANCE AlarmClock WITH
    Alarm   <- [cookie : Cookies, due : Times, period : Periods],
    pending <- {[cookie |-> m_dwAdviseCookie[p], due |-> m_rtEventTime[p],
                 period |-> m_rtPeriod[p]] : p \in InChain(List)},
    seen    <- rtNow

ImplementsClock == Clock!Spec
=============================================================================
