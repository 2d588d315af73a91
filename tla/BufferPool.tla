----------------------------- MODULE BufferPool -----------------------------
(***************************************************************************)
(* What a DirectShow allocator promises its clients, with none of its      *)
(* machinery: a pool of buffers that is open or closed, every buffer of    *)
(* the pool idle in it or lent to somebody, no buffer lent by a closed     *)
(* pool, and the pool never changed or destroyed under a lent buffer.      *)
(* MemAllocator (CBaseAllocator and CMemAllocator) is shown to implement   *)
(* it.                                                                     *)
(***************************************************************************)
CONSTANT Buffers

VARIABLES open,    \* buffers may be lent
          pool,    \* the buffers that exist
          lent,    \* those of them somebody is using
          alive    \* the pool has not been destroyed

poolVars == <<open, pool, lent, alive>>

PoolInit == open = FALSE /\ pool = {} /\ lent = {} /\ alive = TRUE

\* Opening keeps the buffers when some are still lent; otherwise the pool may
\* be built anew, whether or not the opening then succeeds.
Open ==
    /\ alive /\ ~open
    /\ open' \in BOOLEAN
    /\ IF lent = {} THEN pool' \in SUBSET Buffers ELSE pool' = pool
    /\ UNCHANGED <<lent, alive>>

Close == alive /\ open /\ open' = FALSE /\ UNCHANGED <<pool, lent, alive>>

Lend ==
    /\ alive /\ open
    /\ \E b \in pool \ lent : lent' = lent \cup {b}
    /\ UNCHANGED <<open, pool, alive>>

Return ==
    /\ alive
    /\ \E b \in lent : lent' = lent \ {b}
    /\ UNCHANGED <<open, pool, alive>>

Dispose ==
    /\ alive /\ ~open /\ lent = {}
    /\ alive' = FALSE /\ pool' = {}
    /\ UNCHANGED <<open, lent>>

PoolNext == Open \/ Close \/ Lend \/ Return \/ Dispose

PoolSpec == PoolInit /\ [][PoolNext]_poolVars
=============================================================================
