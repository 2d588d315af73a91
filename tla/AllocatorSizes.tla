--------------------------- MODULE AllocatorSizes ---------------------------
(***************************************************************************)
(* The arithmetic of CMemAllocator (baseclasses/amfilter.cpp): how         *)
(* SetProperties rounds the size of a buffer and how Alloc lays the        *)
(* buffers out in one block, in LONGs that wrap around.  When the two are  *)
(* called is module MemAllocator's.                                        *)
(***************************************************************************)
EXTENDS Integers

CONSTANTS MAXLONG,       \* The largest LONG; 2^31 - 1 in the code
          Granularity    \* dwAllocationGranularity, a power of two

ASSUME SizesAssumption == MAXLONG \in Nat /\ Granularity \in Nat \ {0}

\* A LONG keeps the lower bits.
Wrap(n) == LET u == n % (2 * MAXLONG + 2) IN IF u > MAXLONG THEN u - (2 * MAXLONG + 2) ELSE u

\* C's remainder has the sign of the dividend, whatever the divisor's.
Remainder(n, m) ==
    LET size == IF m > 0 THEN m ELSE -m IN IF n >= 0 THEN n % size ELSE -((-n) % size)

RoundUp(n, align) ==
    LET r == Remainder(n, align) IN IF r = 0 THEN n ELSE Wrap(Wrap(n - r) + align)

\* The test of the granularity's bit against cbAlign - 1: it lets negative
\* alignments through, the granularity's opposite among them.
AlignmentAccepted(align) == align # 0 /\ ((align - 1) \div Granularity) % 2 = 0

\* SetProperties rounds the size with the prefix in it.
SizeSet(r) == Wrap(RoundUp(Wrap(r.cbBuffer + r.cbPrefix), r.cbAlign) - r.cbPrefix)

\* Mutant: the sum of size and prefix is not checked.
OnlyNegativeRefused(size, aligned, rounded) == rounded < aligned

\* Alloc's checks that neither sum has wrapped.
Overflows(size, aligned, rounded) == aligned < size \/ rounded < aligned

\* Alloc: refused, or the stride between buffers and the size of the block.
\* VirtualAlloc does not allocate nothing.
Alloc(r) ==
    LET size    == SizeSet(r)
        aligned == Wrap(size + r.cbPrefix)
        rounded == IF r.cbAlign > 1 THEN RoundUp(aligned, r.cbAlign) ELSE aligned
    IN  IF \/ size < 0 \/ r.cbPrefix < 0 \/ r.cBuffers < 0
           \/ Overflows(size, aligned, rounded)
           \/ r.cBuffers * rounded > MAXLONG \/ r.cBuffers * rounded = 0
          THEN [done |-> FALSE, stride |-> 0, block |-> 0]
          ELSE [done |-> TRUE, stride |-> rounded, block |-> r.cBuffers * rounded]

\* The pointer of the i-th sample, behind its prefix.
Pointer(r, i) == i * Alloc(r).stride + r.cbPrefix

\* Alloc refuses the request, or every buffer, of the size Alloc takes it to have,
\* lies in the block behind its prefix, and apart from the next one.
BuffersApart(r) ==
    Alloc(r).done =>
        /\ Alloc(r).block <= MAXLONG
        /\ \A i \in 0 .. r.cBuffers - 1 :
              /\ Pointer(r, i) >= r.cbPrefix
              /\ Pointer(r, i) + SizeSet(r) <=
                    IF i = r.cBuffers - 1 THEN Alloc(r).block
                                          ELSE Pointer(r, i + 1) - r.cbPrefix

\* Alloc refuses the request, or every buffer has the size and the alignment that
\* were requested.
BuffersAsRequested(r) ==
    Alloc(r).done =>
        /\ SizeSet(r) >= r.cbBuffer
        /\ \A i \in 0 .. r.cBuffers - 1 : Remainder(Pointer(r, i) - r.cbPrefix, r.cbAlign) = 0
=============================================================================
