------------------------------- MODULE MulDiv -------------------------------
(***************************************************************************)
(* llMulDiv and Int64x32Div32 (baseclasses/arithutil.cpp): (a * b + d) / c *)
(* with a product wider than the machine's, made of DWORDs.  A DWORD has   *)
(* WordBits bits here, and every intermediate value keeps its width.       *)
(***************************************************************************)
EXTENDS Integers

CONSTANT WordBits   \* Width of a DWORD; 32 in the code

ASSUME WordAssumption == WordBits \in Nat \ {0}

Word == 2 ^ WordBits
Quad == Word * Word

Long     == -(Word \div 2) .. (Word \div 2) - 1
LongLong == -(Quad \div 2) .. (Quad \div 2) - 1

HighPart(x) == x \div Word
LowPart(x)  == x % Word

\* The cast from DWORDLONG to LONGLONG.
Signed(x) == IF x >= Quad \div 2 THEN x - Quad ELSE x

Unsigned(x) == x % Quad
Magnitude(x) == Unsigned(IF x >= 0 THEN x ELSE -x)

\* The product, with its upper part of the width top.
LongMultiply(ua, ub, top) ==
    LET p0 == LowPart(ua) * LowPart(ub)
        x  == Unsigned(LowPart(ua) * HighPart(ub) + HighPart(ua) * LowPart(ub) + HighPart(p0))
    IN  [low |-> LowPart(x) * Word + LowPart(p0),
         high |-> (HighPart(ua) * HighPart(ub) + HighPart(x)) % top]

\* Mutant: the second carry is lost.
CarryLost(total) == 0

Carry(total) == HighPart(total)

\* The sum with d, which is negated first if the product is negative.
ExtendedAdd(p, d, bSign, top) ==
    LET ud     == Unsigned(IF bSign THEN -d ELSE d)
        upper  == IF (bSign /\ d > 0) \/ (~bSign /\ d < 0) THEN top - 1 ELSE 0
        first  == LowPart(ud) + LowPart(p.low)
        second == HighPart(first) + HighPart(ud) + HighPart(p.low)
    IN  [low |-> LowPart(second) * Word + LowPart(first),
         high |-> (p.high + upper + Carry(second)) % top]

Negative(p, top) == p.high >= top \div 2

Negate(p, top) ==
    LET low == Unsigned(-p.low)
    IN  [low |-> low, high |-> (top - 1 - p.high + (IF low = 0 THEN 1 ELSE 0)) % top]

\* The divisor is a DWORD: two divisions, of the upper DWORDs and of the rest.
WordDivide(p, uc) ==
    LET upper == LowPart(p.high) * Word + HighPart(p.low)
        rest  == LowPart(upper % uc) * Word + LowPart(p.low)
    IN  LowPart(upper \div uc) * Word + rest \div uc

\* Long division, bit by bit.
LongDivide(p, uc) ==
    LET Bits == 2 * WordBits
        step[i \in 0 .. Bits] ==
            IF i = 0 THEN [low |-> p.low, high |-> p.high, quotient |-> 0]
            ELSE LET s == step[i - 1]
                     high == Unsigned(2 * s.high) + s.low \div (Quad \div 2)
                     fits == IF uc <= high THEN 1 ELSE 0
                 IN  [low |-> Unsigned(2 * s.low), high |-> high - fits * uc,
                      quotient |-> Unsigned(2 * s.quotient) + fits]
    IN  step[Bits].quotient

Divide(p, uc) ==
    IF p.high = 0 THEN p.low \div uc
    ELSE IF HighPart(uc) = 0 THEN WordDivide(p, uc) ELSE LongDivide(p, uc)

\* What is returned for c = 0 and for an overflow.
Saturated(bSign) == IF bSign THEN -(Quad \div 2) ELSE (Quad \div 2) - 1

\* Both functions: top is the width of the upper part of the product.
MulDivWidth(a, b, c, d, top) ==
    LET negative == (a < 0) # (b < 0)
        product  == LongMultiply(Magnitude(a), Magnitude(b), top)
        sum      == IF d = 0 THEN product ELSE ExtendedAdd(product, d, negative, top)
        turned   == d # 0 /\ Negative(sum, top)
        p        == IF turned THEN Negate(sum, top) ELSE sum
        bSign    == (negative # turned) # (c < 0)
        uc       == Magnitude(c)
        quotient == Divide(p, uc)
    IN  IF uc <= p.high THEN Saturated(bSign)
        ELSE IF bSign THEN Signed(Unsigned(-quotient)) ELSE Signed(quotient)

llMulDiv(a, b, c, d)      == MulDivWidth(a, b, c, d, Quad)
Int64x32Div32(a, b, c, d) == MulDivWidth(a, b, c, d, Word)
-----------------------------------------------------------------------------
Abs(n) == IF n >= 0 THEN n ELSE -n

\* What both functions promise, in unbounded arithmetic: the quotient rounded
\* towards zero.
Quotient(a, b, c, d) ==
    LET n == a * b + d
        q == Abs(n) \div Abs(c)
    IN  IF (n < 0) # (c < 0) THEN -q ELSE q
=============================================================================
