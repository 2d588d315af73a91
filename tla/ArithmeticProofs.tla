-------------------------- MODULE ArithmeticProofs --------------------------
(***************************************************************************)
(* Theorems about the computations of MulDiv, AllocatorSizes and           *)
(* FrameConvert: llMulDiv and Int64x32Div32 compute the quotient for a     *)
(* DWORD of any width, Alloc's buffers are large enough for a LONG of any  *)
(* width, and frames of any size are converted and placed; and the         *)
(* invariants of MCArithmetic.                                             *)
(***************************************************************************)
EXTENDS MCArithmetic, FiniteSetTheorems, WellFoundedInduction, FunctionTheorems, TLAPS

-----------------------------------------------------------------------------
(* Integers: quotients, remainders and powers of two. *)

\* A number is its quotient times the divisor, and the remainder.
LEMMA Division ==
    ASSUME NEW n \in Int, NEW m \in Int, m > 0
    PROVE  n = m * (n \div m) + (n % m)
BY Z3

\* ... with a remainder below the divisor.
LEMMA DivMod ==
    ASSUME NEW n \in Int, NEW m \in Nat \ {0}
    PROVE  n % m \in 0 .. m - 1 /\ n \div m \in Int /\ n = m * (n \div m) + (n % m)
<1>1. n % m \in 0 .. m - 1
  OBVIOUS
<1>2. n \div m \in Int
  OBVIOUS
<1>3. m \in Int /\ m > 0
  OBVIOUS
<1> QED BY <1>1, <1>2, <1>3, Division

\* Products with numbers that are not negative keep an order.
LEMMA Scale ==
    ASSUME NEW x \in Int, NEW y \in Int, NEW m \in Nat, x <= y
    PROVE  x * m \in Int /\ y * m \in Int /\ x * m <= y * m
<1>1. y - x \in Nat /\ (y - x) * m \in Nat
  OBVIOUS
<1>2. (y - x) * m = y * m - x * m
  OBVIOUS
<1> QED BY <1>1, <1>2

\* The quotient and the remainder are the only ones.
LEMMA DivIs ==
    ASSUME NEW n \in Int, NEW m \in Nat \ {0}, NEW k \in Int, NEW r \in 0 .. m - 1, n = k * m + r
    PROVE  n \div m = k /\ n % m = r
<1>1. PICK q \in Int, s \in 0 .. m - 1 : q = n \div m /\ s = n % m /\ n = m * q + s
  BY DivMod
<1>2. (k - q) * m = s - r
  BY <1>1
<1>3. CASE k - q >= 1
  <2>1. 1 * m <= (k - q) * m
    BY <1>3, Scale
  <2> QED BY <1>2, <2>1
<1>4. CASE k - q <= -1
  <2>1. (k - q) * m <= (-1) * m
    BY <1>4, Scale
  <2> QED BY <1>2, <2>1
<1>5. CASE k = q
  <2>1. s = r
    BY <1>2, <1>5
  <2> QED BY <1>1, <1>5, <2>1
<1> QED BY <1>3, <1>4, <1>5

\* Both of them by name, for leaves that must not see a division.
LEMMA Quotients ==
    ASSUME NEW n \in Int, NEW m \in Nat \ {0}
    PROVE  \E q \in Int, r \in 0 .. m - 1 : q = n \div m /\ r = n % m /\ n = m * q + r
BY DivMod

\* A number below the divisor is its own remainder.
LEMMA SmallMod ==
    ASSUME NEW m \in Nat \ {0}, NEW r \in 0 .. m - 1
    PROVE  r % m = r
<1>1. r = 0 * m + r /\ r \in Int
  OBVIOUS
<1> QED BY <1>1, DivIs

\* A quotient that is not negative, and one below a bound.
LEMMA DivBounds ==
    ASSUME NEW n \in Nat, NEW m \in Nat \ {0}, NEW k \in Nat, n < k * m
    PROVE  n \div m \in 0 .. k - 1
<1>1. PICK q \in Int, s \in 0 .. m - 1 : q = n \div m /\ n = m * q + s
  BY DivMod
<1>2. q >= 0
  <2> SUFFICES ASSUME q <= -1 PROVE FALSE
    OBVIOUS
  <2>1. q * m <= (-1) * m
    BY Scale
  <2> QED BY <1>1, <2>1
<1>3. q < k
  <2> SUFFICES ASSUME k <= q PROVE FALSE
    OBVIOUS
  <2>1. k * m <= q * m
    BY Scale
  <2> QED BY <1>1, <2>1
<1> QED BY <1>1, <1>2, <1>3

-----------------------------------------------------------------------------
\* Powers of two.
LEMMA TwoExp ==
    ASSUME NEW n \in Nat
    PROVE  2 ^ n \in Nat /\ 2 ^ (n + 1) = 2 * 2 ^ n
<1> DEFINE A == 1 .. n
           B == 1 .. n + 1
           Ax == {T \cup {n + 1} : T \in SUBSET A}
<1>1. /\ IsFiniteSet(A) /\ Cardinality(A) = n
      /\ IsFiniteSet(B) /\ Cardinality(B) = n + 1
  BY FS_Interval
<1>2. /\ IsFiniteSet(SUBSET A) /\ Cardinality(SUBSET A) = 2 ^ n
      /\ IsFiniteSet(SUBSET B) /\ Cardinality(SUBSET B) = 2 ^ (n + 1)
  BY <1>1, FS_SUBSET
<1>3. B = A \cup {n + 1} /\ n + 1 \notin A
  OBVIOUS
<1> HIDE DEF A, B
<1>4. SUBSET B = (SUBSET A) \cup Ax
  <2>1. ASSUME NEW T \in SUBSET B, T \notin SUBSET A PROVE T \in Ax
    <3>1. T = (T \ {n + 1}) \cup {n + 1} /\ T \ {n + 1} \in SUBSET A
      BY <1>3, <2>1
    <3> QED BY <3>1
  <2>2. ASSUME NEW T \in SUBSET A PROVE T \in SUBSET B /\ T \cup {n + 1} \in SUBSET B
    BY <1>3
  <2> QED BY <2>1, <2>2
<1>5. (SUBSET A) \cap Ax = {}
  BY <1>3
<1>6. ExistsBijection(SUBSET A, Ax)
  <2> DEFINE f == [T \in SUBSET A |-> T \cup {n + 1}]
  <2>1. f \in [SUBSET A -> Ax]
    BY Zenon
  <2>2. ASSUME NEW T \in SUBSET A, NEW U \in SUBSET A, f[T] = f[U] PROVE T = U
    <3>1. T \cup {n + 1} = U \cup {n + 1}
      BY <2>2
    <3> QED BY <1>3, <3>1
  <2>3. \A T \in Ax : \E U \in SUBSET A : f[U] = T
    BY Zenon
  <2> HIDE DEF f
  <2>4. f \in Injection(SUBSET A, Ax)
    BY <2>1, <2>2, Fun_IsInj
  <2>5. f \in Surjection(SUBSET A, Ax)
    BY <2>1, <2>3, Fun_IsSurj
  <2> QED BY <2>4, <2>5 DEF ExistsBijection, Bijection
<1>7. IsFiniteSet(Ax) /\ Cardinality(Ax) = Cardinality(SUBSET A)
  BY <1>2, <1>6, FS_Bijection
<1>8. Cardinality(SUBSET B) =
          Cardinality(SUBSET A) + Cardinality(Ax) - Cardinality((SUBSET A) \cap Ax)
  BY <1>2, <1>4, <1>7, FS_Union
<1>9. Cardinality((SUBSET A) \cap Ax) = 0
  BY <1>5, FS_EmptySet
<1>10. Cardinality(SUBSET A) \in Nat
  BY <1>2, FS_CardinalityType
<1> QED BY <1>2, <1>7, <1>8, <1>9, <1>10

\* A set that has 0 and the successor of every number in it has them all: otherwise
\* there is a least number it lacks.  (The library's NatInduction takes an operator.)
LEMMA FromZero ==
    ASSUME NEW T, 0 \in T, \A n \in Nat : n \in T => n + 1 \in T
    PROVE  \A n \in Nat : n \in T
<1> DEFINE Rest == {n \in Nat : n \notin T}
<1> SUFFICES ASSUME Rest # {} PROVE FALSE
  OBVIOUS
<1>1. IsWellFoundedOn(OpToRel(<, Nat), Nat)
  BY NatLessThanWellFounded
<1>2. Rest \subseteq Nat
  OBVIOUS
<1>3. PICK x \in Rest : \A y \in Rest : ~(<<y, x>> \in OpToRel(<, Nat))
  <2> HIDE DEF Rest
  <2> QED BY <1>1, <1>2, WFMin
<1>4. x \in Nat /\ x \notin T /\ x # 0
  BY <1>3
<1>5. x - 1 \in Nat /\ x - 1 < x /\ (x - 1) + 1 = x
  BY <1>4
<1>6. x - 1 \notin Rest
  BY <1>3, <1>4, <1>5 DEF OpToRel
<1> QED BY <1>4, <1>5, <1>6

\* The power of a sum.
LEMMA ExpSum ==
    ASSUME NEW m \in Nat, NEW n \in Nat
    PROVE  2 ^ (m + n) = 2 ^ m * 2 ^ n
<1> DEFINE T == {k \in Nat : 2 ^ (m + k) = 2 ^ m * 2 ^ k}
<1>0. \A k \in Nat : 2 ^ k \in Nat /\ 2 ^ (k + 1) = 2 * 2 ^ k
  BY TwoExp
<1>1. 0 \in T
  <2>1. 2 ^ 0 = 1 /\ m + 0 = m /\ 2 ^ m \in Nat
    BY <1>0
  <2> QED BY <2>1
<1>2. ASSUME NEW k \in Nat, k \in T PROVE k + 1 \in T
  <2>1. 2 ^ (m + k) = 2 ^ m * 2 ^ k
    BY <1>2
  <2>2. 2 ^ ((m + k) + 1) = 2 * 2 ^ (m + k) /\ (m + k) + 1 = m + (k + 1)
    BY <1>0
  <2>3. PICK x \in Nat, y \in Nat : x = 2 ^ m /\ y = 2 ^ k
    BY <1>0
  <2>4. 2 ^ (m + (k + 1)) = x * (2 * y)
    BY <2>1, <2>2, <2>3
  <2>5. 2 ^ (k + 1) = 2 * y
    BY <1>0, <2>3
  <2> QED BY <2>3, <2>4, <2>5
<1> HIDE DEF T
<1>3. n \in T
  BY <1>1, <1>2, FromZero
<1> QED BY <1>3 DEF T

\* No power of two is zero.
LEMMA ExpPositive == \A n \in Nat : 2 ^ n \in Nat \ {0}
<1> DEFINE T == {k \in Nat : 2 ^ k \in Nat \ {0}}
<1>1. 0 \in T
  OBVIOUS
<1>2. ASSUME NEW k \in Nat, k \in T PROVE k + 1 \in T
  <2>1. 2 ^ (k + 1) = 2 * 2 ^ k /\ 2 ^ k \in Nat \ {0}
    BY <1>2, TwoExp
  <2> QED BY <2>1
<1> HIDE DEF T
<1>3. \A n \in Nat : n \in T
  BY <1>1, <1>2, FromZero
<1> QED BY <1>3 DEF T

-----------------------------------------------------------------------------
(* llMulDiv and Int64x32Div32, for a DWORD of any width. *)

\* The smallest LONG, without its sign.
Half == Word \div 2

\* Word is even, and its square Quad is the power of two of twice the bits.
LEMMA TheWord ==
    /\ Word \in Nat \ {0} /\ Half \in Nat \ {0} /\ Word = 2 * Half /\ Word > 1
    /\ Quad \in Nat \ {0} /\ Quad = Word * Word /\ Quad \div 2 = Half * Word
    /\ Quad = 2 * (Half * Word) /\ Quad >= 2 * Word
    /\ 2 ^ (2 * WordBits) = Quad
<1>1. WordBits - 1 \in Nat /\ (WordBits - 1) + 1 = WordBits /\ WordBits \in Nat
  BY WordAssumption
<1>2. PICK h \in Nat \ {0} : Word = 2 * h
  BY <1>1, TwoExp, ExpPositive DEF Word
<1>3. Half = h
  BY <1>2 DEF Half
<1>4. h * Word \in Nat /\ Quad = 2 * (h * Word) /\ Quad = Word * Word /\ h * Word >= Word
  BY <1>2 DEF Quad
<1>5. Quad \div 2 = h * Word
  BY <1>4
<1>6. 2 ^ (2 * WordBits) = Quad
  <2>1. 2 * WordBits = WordBits + WordBits
    BY <1>1
  <2> QED BY <1>1, <2>1, ExpSum DEF Quad, Word
<1> QED BY <1>2, <1>3, <1>4, <1>5, <1>6

\* The two DWORDs of a number.
LEMMA Parts ==
    ASSUME NEW x \in Nat
    PROVE  /\ HighPart(x) \in Nat /\ LowPart(x) \in 0 .. Word - 1
           /\ x = HighPart(x) * Word + LowPart(x)
           /\ x < Quad => HighPart(x) \in 0 .. Word - 1
<1>1. /\ LowPart(x) \in 0 .. Word - 1 /\ HighPart(x) \in Int
      /\ x = HighPart(x) * Word + LowPart(x)
  <2>1. x \in Int /\ Word \in Nat \ {0}
    BY TheWord
  <2>2. /\ x % Word \in 0 .. Word - 1 /\ x \div Word \in Int
        /\ x = Word * (x \div Word) + (x % Word)
    BY <2>1, DivMod
  <2>3. PICK q \in Int, r \in 0 .. Word - 1 : q = x \div Word /\ r = x % Word
    BY <2>2
  <2>4. x = q * Word + r
    BY <2>1, <2>2, <2>3
  <2> QED BY <2>3, <2>4 DEF HighPart, LowPart
<1>2. HighPart(x) >= 0
  <2> SUFFICES ASSUME HighPart(x) <= -1 PROVE FALSE
    BY <1>1
  <2>1. HighPart(x) * Word <= (-1) * Word
    BY <1>1, TheWord, Scale
  <2> QED BY <1>1, <2>1, TheWord
<1>3. x < Quad => HighPart(x) \in 0 .. Word - 1
  BY <1>2, TheWord, DivBounds DEF HighPart
<1> QED BY <1>1, <1>2, <1>3

\* A number made of two DWORDs.
LEMMA Joined ==
    ASSUME NEW hi \in Nat, NEW lo \in 0 .. Word - 1
    PROVE  /\ HighPart(hi * Word + lo) = hi /\ LowPart(hi * Word + lo) = lo
           /\ hi * Word + lo \in Nat
           /\ hi < Word => hi * Word + lo < Quad
<1>1. hi * Word \in Nat /\ hi * Word + lo \in Int
  BY TheWord
<1>2. HighPart(hi * Word + lo) = hi /\ LowPart(hi * Word + lo) = lo
  BY <1>1, TheWord, DivIs DEF HighPart, LowPart
<1>3. ASSUME hi < Word PROVE hi * Word + lo < Quad
  <2>1. (hi + 1) * Word <= Word * Word
    BY <1>3, TheWord, Scale
  <2>2. (hi + 1) * Word = hi * Word + Word
    BY TheWord
  <2> QED BY <1>1, <2>1, <2>2, TheWord
<1> QED BY <1>1, <1>2, <1>3

\* Numbers of a DWORDLONG's width remain as they are, negative ones become their
\* complements.
LEMMA UnsignedIs ==
    ASSUME NEW x \in Int, -Quad <= x, x < Quad
    PROVE  Unsigned(x) = IF x >= 0 THEN x ELSE x + Quad
<1>1. CASE x >= 0
  <2>1. x = 0 * Quad + x /\ x \in 0 .. Quad - 1
    BY <1>1, TheWord
  <2> QED BY <1>1, <2>1, TheWord, DivIs DEF Unsigned
<1>2. CASE x < 0
  <2>1. x = (-1) * Quad + (x + Quad) /\ x + Quad \in 0 .. Quad - 1 /\ -1 \in Int
    BY <1>2, TheWord
  <2>2. PICK Q \in Nat \ {0}, k \in Int, y \in Nat :
            Q = Quad /\ k = -1 /\ y = x + Quad /\ y \in 0 .. Q - 1 /\ x = k * Q + y
    BY <2>1, TheWord
  <2>3. x % Quad = x + Quad
    BY <2>2, DivIs
  <2> QED BY <1>2, <2>3 DEF Unsigned
<1> QED BY <1>1, <1>2

\* The most a LONGLONG can be, without its sign.
Most == Quad \div 2

\* The magnitude of a LONGLONG fits a DWORDLONG.
LEMMA MagnitudeIs ==
    ASSUME NEW x \in -Most .. Most
    PROVE  Magnitude(x) = Abs(x) /\ Abs(x) \in 0 .. Most
<1>1. Most \in Nat /\ 2 * Most = Quad
  BY TheWord DEF Most
<1>2. Abs(x) \in 0 .. Most /\ (IF x >= 0 THEN x ELSE -x) = Abs(x)
  BY <1>1 DEF Abs
<1>3. Abs(x) \in Int /\ -Quad <= Abs(x) /\ Abs(x) < Quad /\ Abs(x) >= 0
  BY <1>1, <1>2, TheWord
<1>4. Unsigned(Abs(x)) = Abs(x)
  BY <1>3, UnsignedIs
<1> QED BY <1>2, <1>4 DEF Magnitude

\* p is the number n, of two DWORDLONGs.
Is(p, n) == p.low \in 0 .. Quad - 1 /\ p.high \in Nat /\ n = p.high * Quad + p.low

\* The product of two numbers of two DWORDs each.
LEMMA Expanded ==
    ASSUME NEW a1 \in Int, NEW a0 \in Int, NEW b1 \in Int, NEW b0 \in Int, NEW w \in Int
    PROVE  (a1 * w + a0) * (b1 * w + b0)
               = (a1 * b1) * (w * w) + (a0 * b1 + a1 * b0) * w + a0 * b0
OBVIOUS

\* The product, if it fits the width.
LEMMA Product ==
    ASSUME NEW ua \in 0 .. Most, NEW ub \in 0 .. Most, NEW top \in Nat \ {0}, ua * ub < top * Quad
    PROVE  Is(LongMultiply(ua, ub, top), ua * ub)
<1>0. Most = Half * Word /\ Most < Quad
  BY TheWord DEF Most
<1>1. PICK a1 \in 0 .. Half, a0 \in 0 .. Word - 1 :
          a1 = HighPart(ua) /\ a0 = LowPart(ua) /\ ua = a1 * Word + a0
  <2>1. /\ HighPart(ua) \in Nat /\ LowPart(ua) \in 0 .. Word - 1
        /\ ua = HighPart(ua) * Word + LowPart(ua)
    BY Parts
  <2>2. HighPart(ua) <= Half
    <3> SUFFICES ASSUME Half + 1 <= HighPart(ua) PROVE FALSE
      BY <2>1, TheWord
    <3>1. (Half + 1) * Word <= HighPart(ua) * Word
      BY <2>1, TheWord, Scale
    <3> QED BY <1>0, <2>1, <3>1, TheWord
  <2> QED BY <2>1, <2>2
<1>2. PICK b1 \in 0 .. Half, b0 \in 0 .. Word - 1 :
          b1 = HighPart(ub) /\ b0 = LowPart(ub) /\ ub = b1 * Word + b0
  <2>1. /\ HighPart(ub) \in Nat /\ LowPart(ub) \in 0 .. Word - 1
        /\ ub = HighPart(ub) * Word + LowPart(ub)
    BY Parts
  <2>2. HighPart(ub) <= Half
    <3> SUFFICES ASSUME Half + 1 <= HighPart(ub) PROVE FALSE
      BY <2>1, TheWord
    <3>1. (Half + 1) * Word <= HighPart(ub) * Word
      BY <2>1, TheWord, Scale
    <3> QED BY <1>0, <2>1, <3>1, TheWord
  <2> QED BY <2>1, <2>2
<1>3. PICK p0 \in Nat, c1 \in 0 .. Word - 1, c0 \in 0 .. Word - 1 :
          p0 = a0 * b0 /\ c1 = HighPart(p0) /\ c0 = LowPart(p0) /\ p0 = c1 * Word + c0
          /\ c1 < Word - 1
  <2>1. a0 * b0 \in Nat /\ a0 * b0 <= (Word - 1) * b0 /\ b0 * (Word - 1) <= (Word - 1) * (Word - 1)
    <3>1. Word - 1 \in Nat
      BY TheWord
    <3>2. a0 * b0 <= (Word - 1) * b0
      BY <3>1, Scale
    <3>3. b0 * (Word - 1) <= (Word - 1) * (Word - 1)
      BY <3>1, Scale
    <3> QED BY <3>2, <3>3
  <2>2. a0 * b0 < (Word - 1) * Word
    BY <2>1, TheWord
  <2>3. HighPart(a0 * b0) \in 0 .. Word - 2
    BY <2>1, <2>2, TheWord, DivBounds DEF HighPart
  <2>4. /\ LowPart(a0 * b0) \in 0 .. Word - 1
        /\ a0 * b0 = HighPart(a0 * b0) * Word + LowPart(a0 * b0)
    BY <2>1, Parts
  <2>5. HighPart(a0 * b0) \in 0 .. Word - 1 /\ HighPart(a0 * b0) < Word - 1
    BY <2>3, TheWord
  <2> QED BY <2>1, <2>4, <2>5
<1>4. a0 * b1 \in Nat /\ a1 * b0 \in Nat /\ a0 * b1 + a1 * b0 + c1 < Quad
  <2>1. Word - 1 \in Nat /\ Half \in Nat
    BY TheWord
  <2>2. a0 * b1 <= (Word - 1) * b1 /\ b1 * (Word - 1) <= Half * (Word - 1)
    BY <2>1, Scale
  <2>3. b0 * a1 <= (Word - 1) * a1 /\ a1 * (Word - 1) <= Half * (Word - 1)
    BY <2>1, Scale
  <2>4. a0 * b1 + a1 * b0 <= 2 * (Half * (Word - 1))
    BY <2>1, <2>2, <2>3
  <2>5. 2 * (Half * (Word - 1)) = Quad - Word
    BY TheWord
  <2> QED BY <2>4, <2>5, TheWord
<1>5. PICK x \in 0 .. Quad - 1 :
          x = a0 * b1 + a1 * b0 + c1
          /\ x = Unsigned(LowPart(ua) * HighPart(ub) + HighPart(ua) * LowPart(ub)
                            + HighPart(LowPart(ua) * LowPart(ub)))
  <2>1. PICK x \in 0 .. Quad - 1 : x = a0 * b1 + a1 * b0 + c1
    BY <1>4, TheWord
  <2>2. x \in Int /\ -Quad <= x /\ x < Quad /\ x >= 0
    BY <2>1, TheWord
  <2>3. Unsigned(x) = x
    BY <2>2, UnsignedIs
  <2>4. LowPart(ua) * HighPart(ub) + HighPart(ua) * LowPart(ub) + HighPart(LowPart(ua) * LowPart(ub))
           = x
    BY <1>1, <1>2, <1>3, <2>1
  <2> QED BY <2>1, <2>3, <2>4
<1>6. PICK x1 \in 0 .. Word - 1, x0 \in 0 .. Word - 1 :
          x1 = HighPart(x) /\ x0 = LowPart(x) /\ x = x1 * Word + x0
  <2>1. x \in Nat /\ x < Quad
    BY TheWord
  <2> QED BY <2>1, Parts
<1>7. ua * ub = (a1 * b1 + x1) * Quad + (x0 * Word + c0)
  <2>1. PICK w \in Nat : w = Word
    BY TheWord
  <2>2. (a1 * w + a0) * (b1 * w + b0)
            = (a1 * b1) * (w * w) + (a0 * b1 + a1 * b0) * w + a0 * b0
    BY <1>1, <1>2, <1>3, TheWord, Expanded
  <2>3. (a1 * b1) * (w * w) + (a0 * b1 + a1 * b0) * w + (c1 * w + c0)
            = (a1 * b1) * (w * w) + (a0 * b1 + a1 * b0 + c1) * w + c0
    OBVIOUS
  <2>4. (a1 * b1) * (w * w) + (x1 * w + x0) * w + c0 = (a1 * b1 + x1) * (w * w) + (x0 * w + c0)
    OBVIOUS
  <2>5. Quad = w * w
    BY <2>1, TheWord
  <2> QED BY <1>1, <1>2, <1>3, <1>5, <1>6, <2>1, <2>2, <2>3, <2>4, <2>5
<1>8. x0 * Word + c0 \in 0 .. Quad - 1
  <2>1. x0 \in Nat /\ x0 < Word
    BY TheWord
  <2>2. x0 * Word + c0 \in Nat /\ x0 * Word + c0 < Quad
    BY <2>1, Joined
  <2> QED BY <2>2, TheWord
<1>9. a1 * b1 + x1 \in 0 .. top - 1
  <2>1. a1 * b1 + x1 \in Nat
    BY TheWord
  <2>2. (a1 * b1 + x1) * Quad <= ua * ub
    BY <1>7, <1>8, <2>1, TheWord
  <2> SUFFICES ASSUME top <= a1 * b1 + x1 PROVE FALSE
    BY <2>1
  <2>3. top * Quad <= (a1 * b1 + x1) * Quad
    BY <2>1, TheWord, Scale
  <2>4. ua * ub \in Int /\ top * Quad \in Int /\ (a1 * b1 + x1) * Quad \in Int
    BY <2>1, TheWord
  <2> QED BY <2>2, <2>3, <2>4
<1>10. (a1 * b1 + x1) % top = a1 * b1 + x1
  <2>1. a1 * b1 + x1 = 0 * top + (a1 * b1 + x1)
    BY <1>9
  <2> QED BY <1>9, <2>1, DivIs
<1>11. LongMultiply(ua, ub, top) = [low |-> x0 * Word + c0, high |-> a1 * b1 + x1]
  BY <1>1, <1>2, <1>3, <1>5, <1>6, <1>10 DEF LongMultiply
<1> QED BY <1>7, <1>8, <1>9, <1>11 DEF Is

\* The number that p is in two's complement, of the width of top * Quad.
Complement(s, top) == IF s >= 0 THEN s ELSE s + top * Quad

\* The sum, if it fits the width as a signed number.
LEMMA Sum ==
    ASSUME NEW p, NEW n \in Nat, Is(p, n), NEW top \in Nat \ {0}, p.high < top,
           NEW d \in -Most .. Most, NEW bSign \in BOOLEAN, NEW e, e = IF bSign THEN -d ELSE d,
           n + e < top * Quad
    PROVE  /\ Is(ExtendedAdd(p, d, bSign, top), Complement(n + e, top))
           /\ ExtendedAdd(p, d, bSign, top).high < top
<1> DEFINE ud == Unsigned(e)
           upper == IF e < 0 THEN top - 1 ELSE 0
<1>0. 2 * Most = Quad /\ Most \in Nat /\ e \in -Most .. Most /\ Quad \in Nat
  BY TheWord DEF Most
<1>1. ud \in 0 .. Quad - 1 /\ ud = (IF e >= 0 THEN e ELSE e + Quad)
  <2>1. e \in Int /\ -Quad <= e /\ e < Quad
    BY <1>0, TheWord
  <2>2. ud = (IF e >= 0 THEN e ELSE e + Quad)
    BY <2>1, UnsignedIs
  <2> QED BY <1>0, <2>1, <2>2, TheWord
<1>2. /\ ud = Unsigned(IF bSign THEN -d ELSE d)
      /\ upper = (IF (bSign /\ d > 0) \/ (~bSign /\ d < 0) THEN top - 1 ELSE 0)
  BY <1>0
<1> HIDE DEF ud, upper
<1>3. p.low \in 0 .. Quad - 1 /\ p.high \in Nat /\ n = p.high * Quad + p.low
  BY DEF Is
<1>4. PICK u1 \in 0 .. Word - 1, u0 \in 0 .. Word - 1 :
          u1 = HighPart(ud) /\ u0 = LowPart(ud) /\ ud = u1 * Word + u0
  <2>1. ud \in Nat /\ ud < Quad
    BY <1>1, TheWord
  <2> QED BY <2>1, Parts
<1>5. PICK l1 \in 0 .. Word - 1, l0 \in 0 .. Word - 1 :
          l1 = HighPart(p.low) /\ l0 = LowPart(p.low) /\ p.low = l1 * Word + l0
  <2>1. p.low \in Nat /\ p.low < Quad
    BY <1>3, TheWord
  <2> QED BY <2>1, Parts
<1>6. PICK f1 \in Nat, f0 \in 0 .. Word - 1 :
          f1 = HighPart(u0 + l0) /\ f0 = LowPart(u0 + l0) /\ u0 + l0 = f1 * Word + f0
  <2>1. u0 + l0 \in Nat
    BY TheWord
  <2> QED BY <2>1, Parts
<1>7. PICK s1 \in Nat, s0 \in 0 .. Word - 1 :
          /\ s1 = HighPart(f1 + u1 + l1) /\ s0 = LowPart(f1 + u1 + l1)
          /\ f1 + u1 + l1 = s1 * Word + s0
  <2>1. f1 + u1 + l1 \in Nat
    BY TheWord
  <2> QED BY <2>1, Parts
<1>8. ud + p.low = s1 * Quad + (s0 * Word + f0)
  <2>1. PICK w \in Nat : w = Word
    BY TheWord
  <2>2. ud + p.low = (u1 + l1) * w + (u0 + l0)
    BY <1>4, <1>5, <2>1
  <2>3. (u1 + l1) * w + (f1 * w + f0) = (f1 + u1 + l1) * w + f0
    BY TheWord, <2>1
  <2>4. (s1 * w + s0) * w + f0 = s1 * (w * w) + (s0 * w + f0)
    BY TheWord, <2>1
  <2>5. Quad = w * w
    BY <2>1, TheWord
  <2> QED BY <1>6, <1>7, <2>1, <2>2, <2>3, <2>4, <2>5
<1>9. s0 * Word + f0 \in 0 .. Quad - 1
  <2>1. s0 \in Nat /\ s0 < Word
    BY TheWord
  <2>2. s0 * Word + f0 \in Nat /\ s0 * Word + f0 < Quad
    BY <2>1, Joined
  <2> QED BY <2>2, TheWord
<1>10. PICK k \in Int, h \in 0 .. top - 1 :
           h = (p.high + upper + s1) % top /\ p.high + upper + s1 = k * top + h
  <2>1. PICK x \in Int : x = p.high + upper + s1
    BY <1>3 DEF upper
  <2>2. x % top \in 0 .. top - 1 /\ x \div top \in Int /\ x = top * (x \div top) + (x % top)
    BY DivMod
  <2>3. PICK k \in Int, h \in 0 .. top - 1 : k = x \div top /\ h = x % top
    BY <2>2
  <2>4. x = k * top + h
    BY <2>2, <2>3
  <2> QED BY <2>1, <2>3, <2>4
<1> DEFINE low == s0 * Word + f0
<1>11. ExtendedAdd(p, d, bSign, top) = [low |-> low, high |-> h]
  BY <1>2, <1>4, <1>5, <1>6, <1>7, <1>10 DEF ExtendedAdd, Carry
<1> HIDE DEF low
<1>12. PICK M \in Nat \ {0} : M = top * Quad
  BY TheWord
<1>13. \E j \in Int : h * Quad + low = j * M + (n + e)
  <2>1. PICK q \in Nat : q = Quad
    BY TheWord
  <2>2. PICK hi \in Int, up \in Int, lo \in Int, v \in Int :
            hi = p.high /\ up = upper /\ lo = p.low /\ v = ud
    BY <1>1, <1>3 DEF upper
  <2>3. low \in Int /\ n = hi * q + lo /\ v + lo = s1 * q + low /\ h = hi + up + s1 - k * top
    BY <1>3, <1>8, <1>10, <2>1, <2>2, TheWord DEF low
  <2>4. h * q = hi * q + up * q + s1 * q - k * (top * q)
    BY <2>3
  <2>5. h * q + low = n + v + up * q - k * M
    BY <1>12, <2>1, <2>3, <2>4
  <2>6. CASE e >= 0
    <3>1. v = e /\ up = 0
      BY <1>0, <1>1, <2>2, <2>6 DEF upper
    <3>2. h * q + low = (-k) * M + (n + e) /\ -k \in Int
      BY <1>0, <2>5, <3>1
    <3>3. h * Quad + low = (-k) * M + (n + e)
      BY <2>1, <3>2
    <3> QED BY <3>2, <3>3
  <2>7. CASE ~(e >= 0)
    <3>1. v = e + q /\ up = top - 1 /\ (top - 1) * q = M - q
      BY <1>0, <1>1, <1>12, <2>1, <2>2, <2>7 DEF upper
    <3>2. h * q + low = (1 - k) * M + (n + e) /\ 1 - k \in Int
      BY <1>0, <2>5, <3>1
    <3>3. h * Quad + low = (1 - k) * M + (n + e)
      BY <2>1, <3>2
    <3> QED BY <3>2, <3>3
  <2> QED BY <2>6, <2>7
<1>14. h * Quad + low \in 0 .. M - 1
  <2>1. low \in 0 .. Quad - 1
    BY <1>9 DEF low
  <2>2. (h + 1) * Quad <= top * Quad
    BY TheWord, Scale
  <2>3. (h + 1) * Quad = h * Quad + Quad /\ h * Quad \in Nat
    BY TheWord
  <2> QED BY <1>12, <2>1, <2>2, <2>3, TheWord
<1>15. Complement(n + e, top) \in 0 .. M - 1
  <2>1. Quad <= M
    <3>1. 1 * Quad <= top * Quad
      BY TheWord, Scale
    <3> QED BY <1>12, <3>1, TheWord
  <2>2. n + e \in Int /\ -Quad < n + e /\ n + e < M
    BY <1>0, <1>12, TheWord
  <2> QED BY <1>12, <2>1, <2>2, TheWord DEF Complement
<1>16. h * Quad + low = Complement(n + e, top)
  <2>1. PICK v \in 0 .. M - 1, s \in Int :
            v = h * Quad + low /\ s = n + e
    BY <1>0, <1>14
  <2>2. PICK j \in Int : v = j * M + s
    BY <1>13, <2>1
  <2>3. PICK c \in 0 .. M - 1, i \in Int : c = Complement(n + e, top) /\ c = i * M + s
    <3>1. PICK i \in {0, 1} : Complement(n + e, top) = i * M + s
      BY <1>12, <2>1 DEF Complement
    <3>2. PICK c \in 0 .. M - 1 : c = Complement(n + e, top)
      BY <1>15
    <3>3. c = i * M + s /\ i \in Int
      BY <3>1, <3>2
    <3> QED BY <3>2, <3>3
  <2>4. PICK z \in Int : z = j - i
    OBVIOUS
  <2>5. v = z * M + c /\ v \in Int
    BY <2>2, <2>3, <2>4
  <2>6. v % M = c
    BY <2>5, DivIs
  <2>7. v % M = v
    BY SmallMod
  <2> QED BY <2>1, <2>3, <2>6, <2>7
<1> QED BY <1>9, <1>11, <1>16 DEF Is, low

\* The sign of the sum is in its upper part: half of the width is for numbers that
\* are not negative.
LEMMA SignIs ==
    ASSUME NEW p, NEW s \in Int, NEW t \in Nat \ {0}, Is(p, Complement(s, 2 * t)),
           -Quad <= s, s < t * Quad
    PROVE  Negative(p, 2 * t) <=> s < 0
<1>1. p.low \in 0 .. Quad - 1 /\ p.high \in Nat /\ Complement(s, 2 * t) = p.high * Quad + p.low
  BY DEF Is
<1>2. (2 * t) \div 2 = t
  OBVIOUS
<1>3. PICK q \in Nat \ {0} : q = Quad
  BY TheWord
<1>4. CASE s >= 0
  <2>1. s = p.high * q + p.low
    BY <1>1, <1>3, <1>4 DEF Complement
  <2>2. p.high < t
    <3> SUFFICES ASSUME t <= p.high PROVE FALSE
      BY <1>1
    <3>1. t * q <= p.high * q
      BY <1>1, Scale
    <3> QED BY <1>1, <1>3, <2>1, <3>1
  <2> QED BY <1>1, <1>2, <1>4, <2>2 DEF Negative
<1>5. CASE s < 0
  <2>1. s + (2 * t) * q = p.high * q + p.low
    BY <1>1, <1>3, <1>5 DEF Complement
  <2>2. t <= p.high
    <3> SUFFICES ASSUME p.high + 1 <= t PROVE FALSE
      BY <1>1
    <3>1. (p.high + 1) * q <= t * q
      BY <1>1, Scale
    <3>2. 1 * q <= t * q
      BY Scale
    <3>3. (p.high + 1) * q = p.high * q + q /\ (2 * t) * q = t * q + t * q
      BY <1>1
    <3> QED BY <1>1, <1>3, <2>1, <3>1, <3>2, <3>3
  <2> QED BY <1>1, <1>2, <1>5, <2>2 DEF Negative
<1> QED BY <1>4, <1>5

\* The complement of a complement.
LEMMA Negated ==
    ASSUME NEW p, NEW s \in Int, NEW top \in Nat, top > 1, Is(p, Complement(s, top)),
           p.high < top, -Quad <= s, s < 0
    PROVE  Is(Negate(p, top), -s) /\ Negate(p, top).high < top
<1>1. /\ p.low \in 0 .. Quad - 1 /\ p.high \in 0 .. top - 1
      /\ s + top * Quad = p.high * Quad + p.low
  BY DEF Is, Complement
<1>2. PICK q \in Nat \ {0} : q = Quad
  BY TheWord
<1>3. p.high > 0
  <2> SUFFICES ASSUME p.high = 0 PROVE FALSE
    BY <1>1
  <2>1. 2 * q <= top * q
    BY Scale
  <2> QED BY <1>1, <1>2, <2>1
<1>4. CASE p.low = 0
  <2>1. Unsigned(-p.low) = 0
    BY <1>4, TheWord, UnsignedIs
  <2>2. (top - 1 - p.high + 1) % top = top - p.high
    <3>1. PICK r \in 0 .. top - 1 : r = top - p.high
      BY <1>1, <1>3
    <3>2. r % top = r
      BY SmallMod
    <3>3. top - 1 - p.high + 1 = r
      BY <1>1, <3>1
    <3> QED BY <3>1, <3>2, <3>3
  <2>3. Negate(p, top) = [low |-> 0, high |-> top - p.high]
    BY <2>1, <2>2 DEF Negate
  <2>4. (top - p.high) * q = top * q - p.high * q
    BY <1>1
  <2>5. top - p.high \in Nat /\ top - p.high < top /\ 0 \in 0 .. q - 1
    BY <1>1, <1>3
  <2>6. -s = (top - p.high) * q + 0
    BY <1>1, <1>2, <1>4, <2>4
  <2> QED BY <1>2, <2>3, <2>5, <2>6 DEF Is
<1>5. CASE p.low # 0
  <2>1. Unsigned(-p.low) = q - p.low
    <3>1. -p.low \in Int /\ -Quad <= -p.low /\ -p.low < Quad /\ ~(-p.low >= 0)
      BY <1>1, <1>5, TheWord
    <3> QED BY <1>1, <1>2, <3>1, UnsignedIs
  <2>2. (top - 1 - p.high + 0) % top = top - 1 - p.high
    <3>1. PICK r \in 0 .. top - 1 : r = top - 1 - p.high
      BY <1>1
    <3>2. r % top = r
      BY SmallMod
    <3>3. top - 1 - p.high + 0 = r
      BY <1>1, <3>1
    <3> QED BY <3>1, <3>2, <3>3
  <2>3. Negate(p, top) = [low |-> q - p.low, high |-> top - 1 - p.high]
    BY <1>1, <1>2, <1>5, <2>1, <2>2 DEF Negate
  <2>4. (top - 1 - p.high) * q = top * q - q - p.high * q
    BY <1>1
  <2>5. q - p.low \in 0 .. q - 1 /\ top - 1 - p.high \in Nat /\ top - 1 - p.high < top
    BY <1>1, <1>2, <1>5
  <2>6. -s = (top - 1 - p.high) * q + (q - p.low)
    BY <1>1, <1>2, <2>4
  <2> QED BY <1>2, <2>3, <2>5, <2>6 DEF Is
<1> QED BY <1>1, <1>4, <1>5

\* A division of two DWORDs after each other.
LEMMA WordDivides ==
    ASSUME NEW p, NEW n \in Nat, Is(p, n), NEW uc \in Nat \ {0}, uc < Word, p.high < uc
    PROVE  WordDivide(p, uc) = n \div uc
<1>1. p.low \in Nat /\ p.low < Quad /\ p.high \in 0 .. Word - 1 /\ n = p.high * Quad + p.low
  BY TheWord DEF Is
<1>2. PICK l1 \in 0 .. Word - 1, l0 \in 0 .. Word - 1 :
          l1 = HighPart(p.low) /\ l0 = LowPart(p.low) /\ p.low = l1 * Word + l0
  BY <1>1, Parts
<1>3. PICK w \in Nat \ {0} : w = Word
  BY TheWord
<1>4. LowPart(p.high) = p.high
  BY <1>1, TheWord, SmallMod DEF LowPart
<1>5. PICK upper \in Nat : upper = p.high * w + l1
  BY <1>1, <1>3
<1>6. PICK q1 \in Int, r1 \in 0 .. uc - 1 : q1 = upper \div uc /\ r1 = upper % uc /\ upper = uc * q1 + r1
  <2>1. upper \in Int
    OBVIOUS
  <2> QED BY <2>1, Quotients
<1>7. q1 \in 0 .. w - 1
  <2>1. (p.high + 1) * w <= uc * w
    BY <1>1, Scale
  <2>2. (p.high + 1) * w = p.high * w + w /\ uc * w = w * uc
    BY <1>1
  <2>3. upper < w * uc
    BY <1>1, <1>3, <1>5, <2>1, <2>2
  <2> QED BY <1>6, <2>3, DivBounds
<1>8. LowPart(q1) = q1 /\ LowPart(r1) = r1
  <2>1. r1 \in 0 .. Word - 1 /\ q1 \in 0 .. Word - 1
    BY <1>3, <1>7, TheWord
  <2> QED BY <2>1, TheWord, SmallMod DEF LowPart
<1>9. PICK rest \in Nat : rest = r1 * w + l0
  BY <1>3
<1>10. PICK q0 \in Int, r0 \in 0 .. uc - 1 : q0 = rest \div uc /\ rest = uc * q0 + r0
  <2>1. rest \in Int
    OBVIOUS
  <2> QED BY <2>1, Quotients
<1>11. WordDivide(p, uc) = q1 * w + q0
  BY <1>2, <1>3, <1>4, <1>5, <1>6, <1>8, <1>9, <1>10 DEF WordDivide
<1>12. n = (q1 * w + q0) * uc + r0
  <2>1. n = p.high * (w * w) + l1 * w + l0
    BY <1>1, <1>2, <1>3, TheWord
  <2>2. upper * w = p.high * (w * w) + l1 * w
    BY <1>1, <1>3, <1>5
  <2>3. upper * w = (q1 * uc) * w + r1 * w
    BY <1>6
  <2>4. n = (q1 * uc) * w + rest
    BY <1>1, <1>3, <1>9, <2>1, <2>2, <2>3
  <2>5. (q1 * w + q0) * uc + r0 = (q1 * uc) * w + (uc * q0 + r0)
    OBVIOUS
  <2> QED BY <1>10, <2>4, <2>5
<1>13. PICK k \in Int : k = q1 * w + q0
  OBVIOUS
<1>14. n \div uc = k
  BY <1>12, <1>13, DivIs
<1> QED BY <1>11, <1>13, <1>14

\* g goes n steps from x.
Stepping(S, x, next, n, g) ==
    g \in [0 .. n -> S] /\ g[0] = x /\ \A i \in 0 .. n - 1 : g[i + 1] = next[g[i]]

\* There are such steps, whatever the next one is.
LEMMA Steps ==
    ASSUME NEW S, NEW x \in S, NEW next \in [S -> S], NEW n \in Nat
    PROVE  \E g : Stepping(S, x, next, n, g)
<1> DEFINE Good(k, g) == g[0] = x /\ \A i \in 0 .. k - 1 : g[i + 1] = next[g[i]]
           T == {k \in Nat : \E g \in [0 .. k -> S] : Good(k, g)}
<1>1. 0 \in T
  <2>1. [i \in 0 .. 0 |-> x] \in [0 .. 0 -> S] /\ Good(0, [i \in 0 .. 0 |-> x])
    OBVIOUS
  <2> QED BY <2>1
<1>2. ASSUME NEW k \in Nat, k \in T PROVE k + 1 \in T
  <2>1. PICK g \in [0 .. k -> S] : Good(k, g)
    BY <1>2
  <2> DEFINE h == [i \in 0 .. k + 1 |-> IF i <= k THEN g[i] ELSE next[g[k]]]
  <2>2. h \in [0 .. k + 1 -> S]
    OBVIOUS
  <2>3. h[0] = x
    BY <2>1
  <2>4. ASSUME NEW i \in 0 .. k PROVE h[i + 1] = next[h[i]]
    <3>1. i \in 0 .. k + 1 /\ i + 1 \in 0 .. k + 1 /\ h[i] = g[i]
      OBVIOUS
    <3>2. CASE i < k
      <4>1. i \in 0 .. k - 1 /\ i + 1 <= k
        BY <3>2
      <4> QED BY <2>1, <3>1, <4>1
    <3>3. CASE i = k
      BY <3>1, <3>3
    <3> QED BY <3>2, <3>3
  <2> HIDE DEF h
  <2>5. 0 .. (k + 1) - 1 = 0 .. k
    OBVIOUS
  <2>6. Good(k + 1, h)
    BY <2>3, <2>4, <2>5
  <2> QED BY <2>2, <2>6
<1>3. n \in T
  <2> HIDE DEF T
  <2> QED BY <1>1, <1>2, FromZero
<1> QED BY <1>3 DEF Stepping

\* The step of the long division.
Bit(uc, s) ==
    LET high == Unsigned(2 * s.high) + s.low \div Most
        fits == IF uc <= high THEN 1 ELSE 0
    IN  [low |-> Unsigned(2 * s.low), high |-> high - fits * uc,
         quotient |-> Unsigned(2 * s.quotient) + fits]

\* The function of LongDivide, of n bits.
Divides(p, uc, n, step) ==
    step = [i \in 0 .. n |->
               IF i = 0 THEN [low |-> p.low, high |-> p.high, quotient |-> 0]
               ELSE Bit(uc, step[i - 1])]

\* LongDivide's function exists, so the one chosen is it.
LEMMA DividesExists ==
    ASSUME NEW p, NEW n \in Nat, NEW N \in Nat, Is(p, N), NEW uc \in Nat
    PROVE  \E step : Divides(p, uc, n, step)
<1> DEFINE S == [low : Int, high : Int, quotient : Int]
           x == [low |-> p.low, high |-> p.high, quotient |-> 0]
           next == [s \in S |-> Bit(uc, s)]
<1>1. x \in S
  BY TheWord DEF Is
<1>2. next \in [S -> S]
  <2> SUFFICES ASSUME NEW s \in S PROVE Bit(uc, s) \in S
    OBVIOUS
  <2>1. Most \in Nat \ {0} /\ Quad \in Nat \ {0}
    BY TheWord DEF Most
  <2>2. s.low \div Most \in Int /\ Unsigned(2 * s.high) \in Int /\ Unsigned(2 * s.low) \in Int
        /\ Unsigned(2 * s.quotient) \in Int
    BY <2>1 DEF Unsigned
  <2>3. PICK fits \in Int : fits = IF uc <= Unsigned(2 * s.high) + s.low \div Most THEN 1 ELSE 0
    OBVIOUS
  <2> QED BY <2>2, <2>3 DEF Bit
<1> HIDE DEF x, S
<1>3. PICK g \in [0 .. n -> S] : g[0] = x /\ \A i \in 0 .. n - 1 : g[i + 1] = next[g[i]]
  <2> HIDE DEF next
  <2>1. \E g : Stepping(S, x, next, n, g)
    BY <1>1, <1>2, Steps
  <2> QED BY <2>1 DEF Stepping
<1>4. ASSUME NEW i \in 0 .. n PROVE g[i] = IF i = 0 THEN x ELSE Bit(uc, g[i - 1])
  <2>1. CASE i # 0
    <3>1. i - 1 \in 0 .. n - 1 /\ (i - 1) + 1 = i /\ i - 1 \in 0 .. n
      BY <2>1
    <3>2. g[i] = next[g[i - 1]] /\ g[i - 1] \in S
      <4> HIDE DEF next
      <4> QED BY <1>3, <3>1
    <3> QED BY <2>1, <3>2
  <2> QED BY <1>3, <2>1
<1>5. g = [i \in 0 .. n |-> g[i]]
  OBVIOUS
<1>6. Divides(p, uc, n, g)
  <2> HIDE DEF next
  <2> QED BY <1>4, <1>5 DEF Divides, x
<1> QED BY <1>6

\* After i bits: the quotient and the remainder of the upper bits of N.
Divided(N, uc, i, s) ==
    /\ s.low \in 0 .. Quad - 1 /\ s.high \in 0 .. uc - 1 /\ s.quotient \in 0 .. 2 ^ i - 1
    /\ N * 2 ^ i = (s.quotient * uc + s.high) * Quad + s.low

\* One bit more keeps that: the doubled rest fits a DWORDLONG, as uc is at most half of one.
LEMMA BitDivides ==
    ASSUME NEW N \in Nat, NEW uc \in Nat \ {0}, uc <= Most, NEW i \in Nat, 2 ^ (i + 1) <= Quad,
           NEW s, Divided(N, uc, i, s)
    PROVE  Divided(N, uc, i + 1, Bit(uc, s))
<1>1. PICK h \in Nat \ {0}, Q \in Nat \ {0} : h = Most /\ Q = Quad /\ Q = 2 * h
  BY TheWord DEF Most
<1>2. PICK e \in Nat \ {0} : 2 ^ i = e /\ 2 ^ (i + 1) = 2 * e /\ 2 * e <= Q
  BY <1>1, TwoExp, ExpPositive
<1>3. PICK low \in 0 .. Q - 1, high \in 0 .. uc - 1, quotient \in 0 .. e - 1 :
          /\ low = s.low /\ high = s.high /\ quotient = s.quotient
          /\ N * e = (quotient * uc + high) * Q + low
  BY <1>1, <1>2 DEF Divided
<1>4. PICK carry \in 0 .. 1, rest \in 0 .. h - 1 : carry = low \div h /\ low = carry * h + rest
  <2>1. PICK c \in Int, r \in 0 .. h - 1 : c = low \div h /\ low = h * c + r
    <3>1. low \in Int
      OBVIOUS
    <3> QED BY <3>1, DivMod
  <2>2. low \in Nat /\ low < 2 * h
    BY <1>1
  <2>3. c \in 0 .. 2 - 1
    BY <2>1, <2>2, DivBounds
  <2> QED BY <2>1, <2>3
<1>5. Unsigned(2 * high) = 2 * high /\ Unsigned(2 * quotient) = 2 * quotient
  <2>1. 2 * high \in 0 .. Quad - 1 /\ 2 * quotient \in 0 .. Quad - 1
    BY <1>1, <1>2
  <2> QED BY <2>1, TheWord, SmallMod DEF Unsigned
<1>6. Unsigned(2 * low) = 2 * rest
  <2>1. PICK x \in Int, r \in 0 .. Q - 1 : x = 2 * low /\ r = 2 * rest
    BY <1>1
  <2>2. x = carry * Q + r
    <3>1. PICK c \in Int : c = carry * h
      OBVIOUS
    <3>2. carry * Q = 2 * c
      BY <1>1, <3>1
    <3>3. low = c + rest
      BY <1>4, <3>1
    <3> QED BY <2>1, <3>2, <3>3
  <2>3. x % Q = r
    BY <2>2, DivIs
  <2> QED BY <1>1, <2>1, <2>3 DEF Unsigned
<1>7. PICK fits \in 0 .. 1 :
          /\ fits = (IF uc <= 2 * high + carry THEN 1 ELSE 0)
          /\ (2 * high + carry) - fits * uc \in 0 .. uc - 1
  OBVIOUS
<1>8. Bit(uc, s) = [low |-> 2 * rest, high |-> (2 * high + carry) - fits * uc,
                    quotient |-> 2 * quotient + fits]
  BY <1>1, <1>3, <1>4, <1>5, <1>6, <1>7 DEF Bit
<1>9. N * (2 * e) = ((2 * quotient + fits) * uc + ((2 * high + carry) - fits * uc)) * Q + 2 * rest
  <2>1. PICK a \in Int : a = quotient * uc
    OBVIOUS
  <2>2. PICK b \in Int : b = fits * uc
    OBVIOUS
  <2>3. (2 * quotient + fits) * uc = 2 * a + b
    BY <2>1, <2>2
  <2>4. (2 * quotient + fits) * uc + ((2 * high + carry) - fits * uc) = 2 * (a + high) + carry
    BY <2>2, <2>3
  <2>5. (2 * (a + high) + carry) * Q = 2 * ((a + high) * Q) + carry * Q
    OBVIOUS
  <2>6. PICK c \in Int : c = carry * h /\ carry * Q = 2 * c
    BY <1>1
  <2>7. N * (2 * e) = 2 * (N * e)
    OBVIOUS
  <2>8. N * (2 * e) = 2 * ((a + high) * Q) + 2 * low
    <3>1. N * e = (a + high) * Q + low
      BY <1>3, <2>1
    <3>2. PICK y \in Int, z \in Int : y = N * e /\ z = (a + high) * Q
      OBVIOUS
    <3> QED BY <2>7, <3>1, <3>2
  <2>9. low = c + rest
    BY <1>4, <2>6
  <2>10. N * (2 * e) = (2 * (a + high) + carry) * Q + 2 * rest
    BY <2>5, <2>6, <2>8, <2>9
  <2> QED BY <2>4, <2>10
<1>10. 2 * quotient + fits \in 0 .. 2 * e - 1 /\ 2 * rest \in 0 .. Q - 1
  BY <1>1
<1> QED BY <1>1, <1>2, <1>7, <1>8, <1>9, <1>10 DEF Divided

\* The bits of LongDivide, one after the other.
LEMMA LongDivides ==
    ASSUME NEW p, NEW n \in Nat, Is(p, n), NEW uc \in Nat \ {0}, uc <= Most, p.high < uc
    PROVE  LongDivide(p, uc) = n \div uc
<1> DEFINE Bits == 2 * WordBits
           step == CHOOSE step : Divides(p, uc, Bits, step)
<1>0. Bits \in Nat /\ 2 ^ Bits = Quad
  BY WordAssumption, TheWord
<1>1. LongDivide(p, uc) = step[Bits].quotient
  BY DEF LongDivide, Divides, Bit, Most
<1>2. Divides(p, uc, Bits, step)
  BY <1>0, DividesExists
<1> HIDE DEF step, Bits
<1>3. /\ step[0] = [low |-> p.low, high |-> p.high, quotient |-> 0]
      /\ \A i \in 0 .. Bits - 1 : step[i + 1] = Bit(uc, step[i])
  <2> DEFINE F(i) == IF i = 0 THEN [low |-> p.low, high |-> p.high, quotient |-> 0]
                     ELSE Bit(uc, step[i - 1])
  <2>1. step = [i \in 0 .. Bits |-> F(i)]
    BY <1>2 DEF Divides
  <2> HIDE DEF F
  <2>2. \A i \in 0 .. Bits : step[i] = F(i)
    BY <2>1
  <2>3. step[0] = F(0)
    BY <1>0, <2>2
  <2>4. ASSUME NEW i \in 0 .. Bits - 1 PROVE step[i + 1] = Bit(uc, step[i])
    <3>1. i + 1 \in 0 .. Bits /\ i + 1 # 0 /\ (i + 1) - 1 = i
      BY <1>0
    <3>2. step[i + 1] = F(i + 1)
      BY <2>2, <3>1
    <3> QED BY <3>1, <3>2 DEF F
  <2> QED BY <2>3, <2>4 DEF F
<1> DEFINE T == {i \in Nat : i <= Bits => Divided(n, uc, i, step[i])}
<1>4. 0 \in T
  <2>1. p.low \in 0 .. Quad - 1 /\ p.high \in 0 .. uc - 1 /\ n = p.high * Quad + p.low
    BY DEF Is
  <2>2. 2 ^ 0 = 1
    OBVIOUS
  <2>3. n * 1 = (0 * uc + p.high) * Quad + p.low
    BY <2>1, TheWord
  <2>4. PICK s : s = step[0] /\ s = [low |-> p.low, high |-> p.high, quotient |-> 0]
    BY <1>3
  <2>5. s.low = p.low /\ s.high = p.high /\ s.quotient = 0 /\ 0 \in 0 .. 1 - 1
    BY <2>4
  <2>6. Divided(n, uc, 0, s)
    BY <2>1, <2>2, <2>3, <2>5 DEF Divided
  <2> QED BY <2>4, <2>6
<1>5. ASSUME NEW i \in Nat, i \in T PROVE i + 1 \in T
  <2> SUFFICES ASSUME i + 1 <= Bits PROVE Divided(n, uc, i + 1, step[i + 1])
    OBVIOUS
  <2>1. i \in 0 .. Bits - 1 /\ Divided(n, uc, i, step[i])
    BY <1>0, <1>5
  <2>2. step[i + 1] = Bit(uc, step[i])
    BY <1>3, <2>1
  <2>3. 2 ^ (i + 1) <= Quad
    <3>1. PICK j \in Nat : j = Bits - (i + 1)
      BY <1>0
    <3>2. 2 ^ Bits = 2 ^ (i + 1) * 2 ^ j
      <4>1. Bits = (i + 1) + j /\ i + 1 \in Nat
        BY <1>0, <3>1
      <4> QED BY <4>1, ExpSum
    <3>3. PICK x \in Nat \ {0}, y \in Nat \ {0} : x = 2 ^ (i + 1) /\ y = 2 ^ j
      BY ExpPositive
    <3>4. 1 * x <= y * x
      BY Scale
    <3> QED BY <1>0, <3>2, <3>3, <3>4
  <2> QED BY <2>1, <2>2, <2>3, BitDivides
<1>6. Divided(n, uc, Bits, step[Bits])
  <2> HIDE DEF T
  <2>1. Bits \in T
    BY <1>0, <1>4, <1>5, FromZero
  <2> QED BY <1>0, <2>1 DEF T
<1>7. PICK low \in 0 .. Quad - 1, high \in 0 .. uc - 1, quotient \in Nat :
          /\ quotient = step[Bits].quotient
          /\ n * Quad = (quotient * uc + high) * Quad + low
  <2>1. PICK s : s = step[Bits]
    OBVIOUS
  <2>2. Divided(n, uc, Bits, s)
    BY <1>6, <2>1
  <2>3. /\ s.low \in 0 .. Quad - 1 /\ s.high \in 0 .. uc - 1 /\ s.quotient \in 0 .. Quad - 1
        /\ n * Quad = (s.quotient * uc + s.high) * Quad + s.low
    BY <1>0, <2>2 DEF Divided
  <2>4. s.quotient \in Nat
    BY <2>3, TheWord
  <2> QED BY <2>1, <2>3, <2>4
<1>8. n = quotient * uc + high
  <2>1. PICK N \in Int : N = n * Quad
    BY TheWord
  <2>2. PICK a \in Int : a = quotient * uc + high
    OBVIOUS
  <2>3. N = a * Quad + low /\ Quad \in Nat \ {0}
    BY <1>7, <2>1, <2>2, TheWord
  <2>4. N \div Quad = a
    BY <2>3, DivIs
  <2>5. N = n * Quad + 0 /\ 0 \in 0 .. Quad - 1
    BY <2>1, TheWord
  <2>6. N \div Quad = n
    BY <2>3, <2>5, DivIs
  <2> QED BY <2>2, <2>4, <2>6
<1>9. n \div uc = quotient
  BY <1>8, DivIs
<1> QED BY <1>1, <1>7, <1>9

\* The division of either way.
LEMMA DivideIs ==
    ASSUME NEW p, NEW n \in Nat, Is(p, n), NEW uc \in Nat \ {0}, uc <= Most, p.high < uc
    PROVE  Divide(p, uc) = n \div uc
<1>1. CASE p.high = 0
  <2>1. n = p.low
    BY <1>1, TheWord DEF Is
  <2> QED BY <1>1, <2>1 DEF Divide
<1>2. CASE p.high # 0 /\ HighPart(uc) = 0
  <2>1. uc = LowPart(uc) /\ LowPart(uc) \in 0 .. Word - 1
    <3>1. uc \in Nat
      OBVIOUS
    <3>2. LowPart(uc) \in 0 .. Word - 1 /\ uc = HighPart(uc) * Word + LowPart(uc)
      BY <3>1, Parts
    <3> QED BY <1>2, <3>2, TheWord
  <2>2. uc < Word
    BY <2>1, TheWord
  <2> QED BY <1>2, <2>2, WordDivides DEF Divide
<1>3. CASE p.high # 0 /\ HighPart(uc) # 0
  BY <1>3, LongDivides DEF Divide
<1> QED BY <1>1, <1>2, <1>3

\* What is returned for the numerator p, with this sign.
Returned(p, uc, bSign) ==
    IF uc <= p.high THEN Saturated(bSign)
    ELSE IF bSign THEN Signed(Unsigned(-Divide(p, uc))) ELSE Signed(Divide(p, uc))

\* The quotient rounded towards zero.
Ratio(n, c) == IF (n < 0) # (c < 0) THEN -(Abs(n) \div Abs(c)) ELSE Abs(n) \div Abs(c)

\* The result is right for a numerator that is.
LEMMA ReturnedIsRight ==
    ASSUME NEW n \in Int, NEW c \in -Most .. Most - 1, c # 0, NEW p, Is(p, Abs(n)),
           NEW bSign \in BOOLEAN, n # 0 => (bSign <=> ((n < 0) # (c < 0)))
    PROVE  /\ Ratio(n, c) \in LongLong => Returned(p, Abs(c), bSign) = Ratio(n, c)
           /\ Abs(Ratio(n, c)) >= Quad => Returned(p, Abs(c), bSign) = Saturated(Ratio(n, c) < 0)
<1>1. PICK m \in Nat, uc \in Nat \ {0}, Q \in Nat \ {0}, h \in Nat \ {0} :
          m = Abs(n) /\ uc = Abs(c) /\ Q = Quad /\ h = Most /\ Q = 2 * h /\ uc <= h
  BY TheWord DEF Abs, Most
<1>2. LongLong = -h .. h - 1
  BY <1>1 DEF LongLong, Most
<1>3. PICK q \in Int, r \in 0 .. uc - 1 : q = m \div uc /\ m = uc * q + r
  <2>1. m \in Int
    OBVIOUS
  <2> QED BY <2>1, Quotients
<1>4. q >= 0
  <2> SUFFICES ASSUME q <= -1 PROVE FALSE
    OBVIOUS
  <2>1. q * uc <= (-1) * uc
    BY Scale
  <2> QED BY <1>3, <2>1
<1>5. p.low \in 0 .. Q - 1 /\ p.high \in Nat /\ m = p.high * Q + p.low
  BY <1>1 DEF Is
<1>6. Ratio(n, c) = IF (n < 0) # (c < 0) THEN -q ELSE q
  BY <1>1, <1>3 DEF Ratio
<1>7. CASE uc <= p.high
  <2>1. q >= Q
    <3> SUFFICES ASSUME q + 1 <= Q PROVE FALSE
      BY <1>4
    <3>1. (q + 1) * uc <= Q * uc
      BY <1>4, Scale
    <3>2. uc * Q <= p.high * Q
      BY <1>5, <1>7, Scale
    <3>3. PICK x \in Int, y \in Int, z \in Int : x = uc * q /\ y = uc * Q /\ z = p.high * Q
      BY <1>5
    <3>4. (q + 1) * uc = x + uc /\ Q * uc = y
      BY <3>3
    <3>5. x + uc <= y /\ y <= z
      BY <3>1, <3>2, <3>3, <3>4
    <3>6. m < x + uc
      BY <1>3, <3>3
    <3>7. z <= m
      BY <1>5, <3>3
    <3> QED BY <1>3, <3>3, <3>5, <3>6, <3>7
  <2>2. n # 0
    <3> SUFFICES ASSUME m = 0 PROVE FALSE
      BY <1>1 DEF Abs
    <3>1. q * uc >= 1 * uc
      BY <1>4, <2>1, Scale
    <3>2. uc * q = q * uc
      OBVIOUS
    <3> QED BY <1>3, <3>1, <3>2
  <2>3. Ratio(n, c) \notin LongLong
    BY <1>1, <1>2, <1>6, <2>1
  <2>4. (Ratio(n, c) < 0) = bSign
    BY <1>1, <1>6, <2>1, <2>2
  <2>5. Returned(p, Abs(c), bSign) = Saturated(bSign)
    BY <1>1, <1>7 DEF Returned
  <2> QED BY <2>3, <2>4, <2>5
<1>8. CASE p.high < uc
  <2>1. Divide(p, uc) = q
    <3>1. Is(p, m)
      BY <1>1
    <3> QED BY <1>1, <1>3, <1>8, <3>1, DivideIs
  <2>2. Returned(p, Abs(c), bSign) = IF bSign THEN Signed(Unsigned(-q)) ELSE Signed(q)
    BY <1>1, <1>5, <1>8, <2>1 DEF Returned
  <2>3. q < Q
    <3> SUFFICES ASSUME Q <= q PROVE FALSE
      BY <1>4
    <3>1. Q * uc <= q * uc
      BY Scale
    <3>2. (p.high + 1) * Q <= uc * Q
      BY <1>5, <1>8, Scale
    <3>3. PICK x \in Int, y \in Int, z \in Int : x = uc * q /\ y = uc * Q /\ z = p.high * Q
      BY <1>5
    <3>4. (p.high + 1) * Q = z + Q /\ Q * uc = y /\ q * uc = x
      BY <1>5, <3>3
    <3>5. z + Q <= y /\ y <= x /\ x <= m /\ m < z + Q
      BY <1>3, <1>5, <3>1, <3>2, <3>3, <3>4
    <3> QED BY <3>3, <3>5
  <2>4. ~(Abs(Ratio(n, c)) >= Quad)
    BY <1>1, <1>4, <1>6, <2>3 DEF Abs
  <2>5. CASE q = 0
    <3>1. Unsigned(-q) = 0
      <4>1. -q = 0
        <5>1. PICK z \in Int : z = -q /\ z <= 0 /\ z >= 0
          BY <1>3, <2>5
        <5> QED BY <5>1
      <4>2. 0 \in Int /\ -Quad <= 0 /\ 0 < Quad
        BY <1>1
      <4>3. Unsigned(0) = 0
        BY <4>2, UnsignedIs
      <4> QED BY <4>1, <4>3
    <3>2. Signed(0) = 0
      BY <1>1 DEF Signed, Most
    <3> QED BY <1>6, <2>2, <2>4, <2>5, <3>1, <3>2
  <2>6. CASE q > 0
    <3>1. n # 0
      <4> SUFFICES ASSUME m = 0 PROVE FALSE
        BY <1>1 DEF Abs
      <4>1. 1 * uc <= q * uc
        BY <2>6, Scale
      <4>2. uc * q = q * uc
        OBVIOUS
      <4> QED BY <1>3, <4>1, <4>2
    <3>2. CASE bSign
      <4>1. Ratio(n, c) = -q
        BY <1>6, <3>1, <3>2
      <4>2. Unsigned(-q) = Q - q
        <5>1. -q \in Int /\ -Quad <= -q /\ -q < Quad /\ ~(-q >= 0)
          BY <1>1, <2>3, <2>6, TheWord
        <5>2. Unsigned(-q) = -q + Quad
          BY <5>1, UnsignedIs
        <5> QED BY <1>1, <5>2
      <4>3. q <= h => Signed(Q - q) = -q
        BY <1>1 DEF Signed, Most
      <4> QED BY <1>2, <2>2, <2>4, <3>2, <4>1, <4>2, <4>3
    <3>3. CASE ~bSign
      <4>1. Ratio(n, c) = q
        BY <1>6, <3>1, <3>3
      <4>2. q < h => Signed(q) = q
        BY <1>1 DEF Signed, Most
      <4> QED BY <1>2, <2>2, <2>4, <3>3, <4>1, <4>2
    <3> QED BY <3>2, <3>3
  <2> QED BY <1>4, <2>5, <2>6
<1> QED BY <1>1, <1>5, <1>7, <1>8

\* The product of the magnitudes, with its sign.
LEMMA SignOfProduct ==
    ASSUME NEW a \in Int, NEW b \in Int
    PROVE  a * b = IF (a < 0) # (b < 0) THEN -(Abs(a) * Abs(b)) ELSE Abs(a) * Abs(b)
<1>1. (-a) * b = -(a * b) /\ a * (-b) = -(a * b) /\ (-a) * (-b) = a * b
  OBVIOUS
<1>2. CASE a < 0 /\ b < 0
  BY <1>1, <1>2 DEF Abs
<1>3. CASE a < 0 /\ ~(b < 0)
  BY <1>1, <1>3 DEF Abs
<1>4. CASE ~(a < 0) /\ b < 0
  BY <1>1, <1>4 DEF Abs
<1>5. CASE ~(a < 0) /\ ~(b < 0)
  BY <1>5 DEF Abs
<1> QED BY <1>2, <1>3, <1>4, <1>5

\* The numerator and its sign, for either width.
LEMMA NumeratorIs ==
    ASSUME NEW a \in -Most .. Most - 1, NEW b \in -Most .. Most - 1, NEW c \in -Most .. Most - 1,
           NEW d \in -Most .. Most - 1, NEW t \in Nat \ {0}, t <= Most,
           2 * (Abs(a) * Abs(b)) <= t * Quad, -t <= d, d <= t
    PROVE  \E p : \E bSign \in BOOLEAN :
              /\ Is(p, Abs(a * b + d))
              /\ a * b + d # 0 => (bSign <=> ((a * b + d < 0) # (c < 0)))
              /\ MulDivWidth(a, b, c, d, 2 * t) = Returned(p, Abs(c), bSign)
<1>1. PICK Q \in Nat \ {0}, h \in Nat \ {0} : Q = Quad /\ h = Most /\ Q = 2 * h /\ Q > 2
  BY TheWord DEF Most
<1>2. /\ Magnitude(a) = Abs(a) /\ Magnitude(b) = Abs(b) /\ Magnitude(c) = Abs(c)
      /\ Abs(a) \in 0 .. Most /\ Abs(b) \in 0 .. Most
  BY <1>1, MagnitudeIs
<1>3. PICK top \in Nat : top = 2 * t /\ top > 1 /\ top \in Nat \ {0}
  OBVIOUS
<1>4. PICK n \in Nat, x \in Nat : n = Abs(a) * Abs(b) /\ x = t * Q /\ 2 * n <= x /\ top * Q = 2 * x /\ 2 * t < x
  <2>1. Abs(a) * Abs(b) \in Nat
    BY <1>1, <1>2
  <2>2. 2 * t < Q * t
    BY <1>1
  <2> QED BY <1>1, <1>3, <2>1, <2>2
<1>5. PICK neg \in BOOLEAN : neg = ((a < 0) # (b < 0))
  OBVIOUS
<1>6. a * b = IF neg THEN -n ELSE n
  <2>1. a \in Int /\ b \in Int
    BY <1>1
  <2> QED BY <1>4, <1>5, <2>1, SignOfProduct
<1>7. PICK e \in Int : e = (IF neg THEN -d ELSE d) /\ -t <= e /\ e <= t
  BY <1>1
<1>8. PICK s \in Int : s = n + e
  OBVIOUS
<1>9. a * b + d = (IF neg THEN -s ELSE s) /\ -Q <= s /\ s < x
  BY <1>1, <1>4, <1>6, <1>7, <1>8
<1>10. PICK product : product = LongMultiply(Abs(a), Abs(b), top)
  OBVIOUS
<1>11. Is(product, n) /\ product.high < top
  <2>1. n < top * Quad
    BY <1>1, <1>4
  <2>2. Is(product, n)
    BY <1>2, <1>3, <1>4, <1>10, <2>1, Product
  <2>3. product.high < top
    <3>1. product.high \in Nat /\ product.low \in 0 .. Q - 1 /\ n = product.high * Q + product.low
      BY <1>1, <2>2 DEF Is
    <3> SUFFICES ASSUME top <= product.high PROVE FALSE
      BY <3>1
    <3>2. top * Q <= product.high * Q
      BY <3>1, Scale
    <3> QED BY <1>1, <2>1, <3>1, <3>2
  <2> QED BY <2>2, <2>3
<1>12. PICK sum : sum = IF d = 0 THEN product ELSE ExtendedAdd(product, d, neg, top)
  OBVIOUS
<1>13. Is(sum, Complement(s, top)) /\ sum.high < top
  <2>1. CASE d = 0
    <3>1. s = n /\ Complement(s, top) = n
      BY <1>7, <1>8, <2>1 DEF Complement
    <3> QED BY <1>11, <1>12, <2>1, <3>1
  <2>2. CASE d # 0
    <3>1. d \in -Most .. Most
      BY <1>1
    <3>2. n + e < top * Quad
      BY <1>1, <1>4, <1>8, <1>9
    <3>3. Is(ExtendedAdd(product, d, neg, top), Complement(n + e, top))
          /\ ExtendedAdd(product, d, neg, top).high < top
      BY <1>3, <1>7, <1>11, <3>1, <3>2, Sum
    <3> QED BY <1>8, <1>12, <2>2, <3>3
  <2> QED BY <2>1, <2>2
<1>14. PICK turned \in BOOLEAN : turned = (d # 0 /\ Negative(sum, top))
  OBVIOUS
<1>15. turned <=> s < 0
  <2>1. d = 0 => s = n
    BY <1>7, <1>8
  <2>2. Negative(sum, top) <=> s < 0
    <3>1. -Quad <= s /\ s < t * Quad
      BY <1>1, <1>4, <1>9
    <3> QED BY <1>3, <1>13, <3>1, SignIs
  <2>3. d = 0 => ~(s < 0)
    BY <2>1
  <2>4. turned <=> d # 0 /\ Negative(sum, top)
    BY <1>14
  <2> QED BY <2>2, <2>3, <2>4
<1>16. PICK p : p = IF turned THEN Negate(sum, top) ELSE sum
  OBVIOUS
<1>17. Is(p, Abs(a * b + d))
  <2>1. CASE s < 0
    <3>1. Abs(a * b + d) = -s
      BY <1>9, <2>1 DEF Abs
    <3>2. -Quad <= s
      BY <1>1, <1>9
    <3>3. Is(Negate(sum, top), -s)
      BY <1>3, <1>13, <2>1, <3>2, Negated
    <3> QED BY <1>15, <1>16, <2>1, <3>1, <3>3
  <2>2. CASE ~(s < 0)
    <3>1. Abs(a * b + d) = s
      BY <1>9, <2>2 DEF Abs
    <3>2. Complement(s, top) = s
      BY <2>2 DEF Complement
    <3> QED BY <1>13, <1>15, <1>16, <2>2, <3>1, <3>2
  <2> QED BY <2>1, <2>2
<1>18. PICK bSign \in BOOLEAN : bSign = ((neg # turned) # (c < 0))
  OBVIOUS
<1>19. a * b + d # 0 => (bSign <=> ((a * b + d < 0) # (c < 0)))
  <2>1. PICK r \in Int : r = a * b + d /\ r = IF neg THEN -s ELSE s
    BY <1>9
  <2>2. ASSUME r # 0 PROVE (neg # turned) <=> r < 0
    <3>1. CASE neg /\ s < 0
      <4>1. turned /\ ~(r < 0)
        BY <1>15, <2>1, <3>1
      <4> QED BY <3>1, <4>1
    <3>2. CASE neg /\ ~(s < 0)
      <4>1. ~turned /\ r < 0
        BY <1>15, <2>1, <2>2, <3>2
      <4> QED BY <3>2, <4>1
    <3>3. CASE ~neg /\ s < 0
      <4>1. turned /\ r < 0
        BY <1>15, <2>1, <3>3
      <4> QED BY <3>3, <4>1
    <3>4. CASE ~neg /\ ~(s < 0)
      <4>1. ~turned /\ ~(r < 0)
        BY <1>15, <2>1, <3>4
      <4> QED BY <3>4, <4>1
    <3> QED BY <3>1, <3>2, <3>3, <3>4
  <2>3. ASSUME r # 0 PROVE bSign <=> ((r < 0) # (c < 0))
    <3>1. CASE r < 0
      <4>1. neg # turned
        BY <2>2, <2>3, <3>1
      <4>2. (neg # turned) = TRUE /\ (r < 0) = TRUE
        BY <3>1, <4>1
      <4> QED BY <1>18, <4>2
    <3>2. CASE ~(r < 0)
      <4>1. ~(neg # turned)
        BY <2>2, <2>3, <3>2
      <4>2. (neg # turned) = FALSE /\ (r < 0) = FALSE
        BY <3>2, <4>1
      <4> QED BY <1>18, <4>2
    <3> QED BY <3>1, <3>2
  <2> QED BY <2>1, <2>3
<1>20. MulDivWidth(a, b, c, d, top) = Returned(p, Abs(c), bSign)
  BY <1>2, <1>5, <1>10, <1>12, <1>14, <1>16, <1>18 DEF MulDivWidth, Returned
<1> QED BY <1>3, <1>17, <1>19, <1>20

-----------------------------------------------------------------------------
(* The sizes of the buffers, for a LONG of any width. *)

\* The smallest LONG.
LongMin == -(MAXLONG + 1)

\* A sum of two LONGs that is out of range on one side comes out on the other.
LEMMA WrapIs ==
    ASSUME MAXLONG \in Nat, NEW n \in Int, 2 * LongMin <= n, n <= 2 * MAXLONG + 1
    PROVE  Wrap(n) = IF n > MAXLONG THEN n + 2 * LongMin
                           ELSE IF n < LongMin THEN n - 2 * LongMin ELSE n
<1> DEFINE M == 2 * MAXLONG + 2
<1>1. M \in Nat /\ M > 0 /\ 2 * LongMin = -M
  BY DEF LongMin
<1>2. n % M = IF n < 0 THEN n + M ELSE n
  <2>1. ASSUME NEW q \in -1 .. 0, NEW u \in 0 .. M - 1, n = q * M + u PROVE n % M = u
    BY <1>1, <2>1
  <2>2. n = (IF n < 0 THEN -1 ELSE 0) * M + (IF n < 0 THEN n + M ELSE n)
    BY <1>1
  <2> QED BY <1>1, <2>1, <2>2
<1> HIDE DEF M
<1>3. Wrap(n) = IF n % M > MAXLONG THEN (n % M) - M ELSE n % M
  BY DEF Wrap, M
<1> QED BY <1>1, <1>2, <1>3 DEF LongMin, M

\* A LONG, wrapped or not, is one.
LEMMA WrapType ==
    ASSUME MAXLONG \in Nat, NEW n \in Int
    PROVE  Wrap(n) \in LongMin .. MAXLONG
<1> DEFINE M == 2 * MAXLONG + 2
<1>1. M \in Nat \ {0} /\ M = 2 * MAXLONG + 2
  OBVIOUS
<1>2. PICK u \in 0 .. M - 1 : u = n % M
  BY <1>1, DivMod
<1>3. Wrap(n) = IF u > MAXLONG THEN u - M ELSE u
  BY <1>2 DEF Wrap
<1> HIDE DEF M
<1> QED BY <1>1, <1>2, <1>3 DEF LongMin

\* So is a rounded one, up or with a negative alignment down.
LEMMA RoundUpType ==
    ASSUME MAXLONG \in Nat, NEW n \in LongMin .. MAXLONG, NEW a \in Int \ {0}
    PROVE  RoundUp(n, a) \in LongMin .. MAXLONG
<1>0. n \in Int
  BY DEF LongMin
<1>1. Remainder(n, a) \in Int
  <2>1. PICK m \in Nat \ {0} : m = IF a > 0 THEN a ELSE -a
    OBVIOUS
  <2>2. n % m \in Int /\ (-n) % m \in Int
    BY <1>0, <2>1, DivMod
  <2>3. Remainder(n, a) = IF n >= 0 THEN n % m ELSE -((-n) % m)
    BY <2>1 DEF Remainder
  <2> QED BY <2>2, <2>3
<1>2. Wrap(n - Remainder(n, a)) + a \in Int
  BY <1>0, <1>1, WrapType DEF LongMin
<1> QED BY <1>2, WrapType DEF RoundUp

\* A remainder is what is left of the next smaller multiple.
LEMMA DivModNat ==
    ASSUME NEW n \in Nat, NEW m \in Nat \ {0}
    PROVE  n % m \in 0 .. m - 1 /\ n \div m \in Nat /\ n = m * (n \div m) + (n % m)
<1>1. n \in Int
  OBVIOUS
<1>2. n % m \in 0 .. m - 1 /\ n \div m \in Int /\ n = m * (n \div m) + (n % m)
  BY <1>1, DivMod
<1>3. n \div m >= 0
  BY <1>2
<1> QED BY <1>2, <1>3

\* ... and nothing is left of a multiple.
LEMMA ModOfMultiple ==
    ASSUME NEW k \in Nat, NEW m \in Nat \ {0}
    PROVE  (m * k) % m = 0
<1> DEFINE n == m * k
           q == n \div m
           r == n % m
<1>1. n \in Nat
  OBVIOUS
<1>2. r \in 0 .. m - 1 /\ q \in Nat /\ n = m * q + r
  BY <1>1, DivModNat
<1>3. m * (k - q) = r
  BY <1>1, <1>2
<1>4. CASE k - q >= 1
  <2>1. m * (k - q) >= m
    BY <1>2, <1>4
  <2> QED BY <1>2, <1>3, <2>1
<1>5. CASE k - q <= -1
  <2>1. m * (k - q) <= -m
    BY <1>2, <1>5
  <2> QED BY <1>2, <1>3, <2>1
<1>6. CASE k - q = 0
  BY <1>2, <1>3, <1>6
<1> QED BY <1>2, <1>4, <1>5, <1>6

\* Rounding up what is not negative, if nothing wraps: a multiple.
LEMMA RoundUpIs ==
    ASSUME MAXLONG \in Nat, NEW n \in 0 .. MAXLONG, NEW a \in Nat \ {0}, a <= MAXLONG
    PROVE  \E k \in Nat, m \in Nat :
             /\ k < a /\ n + k = a * m
             /\ RoundUp(n, a) = IF n + k <= MAXLONG THEN n + k ELSE n + k + 2 * LongMin
<1> DEFINE rem == n % a
           q == n \div a
<1>0. n \in Nat
  OBVIOUS
<1>1. rem \in 0 .. a - 1 /\ q \in Nat /\ n = a * q + rem
  BY <1>0, DivModNat
<1>2. Remainder(n, a) = rem
  BY DEF Remainder
<1> HIDE DEF rem, q
<1>3. CASE rem = 0
  <2>1. RoundUp(n, a) = n
    BY <1>2, <1>3 DEF RoundUp
  <2> QED BY <1>1, <1>3, <2>1
<1>4. CASE rem # 0
  <2>1. n - rem \in 0 .. MAXLONG /\ Wrap(n - rem) = n - rem
    BY <1>1, <1>4, WrapIs DEF LongMin
  <2>2. RoundUp(n, a) = Wrap((n - rem) + a)
    BY <1>2, <1>4, <2>1 DEF RoundUp
  <2>3. (n - rem) + a \in Int /\ 2 * LongMin <= (n - rem) + a /\ (n - rem) + a <= 2 * MAXLONG + 1
    BY <1>1, <2>1 DEF LongMin
  <2>4. RoundUp(n, a) = IF (n - rem) + a > MAXLONG THEN (n - rem) + a + 2 * LongMin ELSE (n - rem) + a
    BY <2>1, <2>2, <2>3, WrapIs DEF LongMin
  <2>5. a - rem \in Nat /\ a - rem < a /\ n + (a - rem) = a * (q + 1)
    BY <1>1, <1>4
  <2> DEFINE k == a - rem
             m == q + 1
  <2>6. k \in Nat /\ m \in Nat /\ k < a /\ n + k = a * m
    BY <1>1, <2>5
  <2>7. RoundUp(n, a) = IF n + k <= MAXLONG THEN n + k ELSE n + k + 2 * LongMin
    BY <1>1, <2>4 DEF LongMin
  <2> HIDE DEF k, m
  <2> QED BY <2>6, <2>7
<1> QED BY <1>3, <1>4

\* What SetProperties stores is not less than what was asked for, unless Alloc
\* will find that size or sum have wrapped.
LEMMA SizeIsEnough ==
    ASSUME MAXLONG \in Nat, NEW b \in 1 .. MAXLONG, NEW p \in 0 .. MAXLONG,
           NEW a \in Nat \ {0}, 2 * a <= MAXLONG + 1,
           NEW s, s = Wrap(RoundUp(Wrap(b + p), a) - p), s >= 0
    PROVE  s \in b .. MAXLONG
<1>1. a <= MAXLONG
  OBVIOUS
<1>2. CASE b + p <= MAXLONG
  <2>1. Wrap(b + p) = b + p /\ b + p \in 0 .. MAXLONG
    BY <1>2, WrapIs DEF LongMin
  <2>2. PICK k \in Nat : /\ k < a
                         /\ RoundUp(b + p, a) = IF (b + p) + k <= MAXLONG THEN (b + p) + k
                                                       ELSE (b + p) + k + 2 * LongMin
    BY <1>1, <2>1, RoundUpIs
  <2>3. s = Wrap(b + k) \/ s = Wrap(b + k + 2 * LongMin)
    BY <2>1, <2>2 DEF LongMin
  <2>4. Wrap(b + k) = IF b + k > MAXLONG THEN b + k + 2 * LongMin ELSE b + k
    BY <1>1, <2>2, WrapIs DEF LongMin
  <2>5. Wrap(b + k + 2 * LongMin)
          = IF b + k + 2 * LongMin < LongMin THEN b + k ELSE b + k + 2 * LongMin
    <3>1. b + k + 2 * LongMin \in Int /\ 2 * LongMin <= b + k + 2 * LongMin
          /\ b + k + 2 * LongMin < 0
      BY <1>1, <2>2 DEF LongMin
    <3> QED BY <3>1, WrapIs DEF LongMin
  <2> QED BY <1>1, <2>2, <2>3, <2>4, <2>5 DEF LongMin
<1>3. CASE b + p > MAXLONG
  <2> DEFINE n == -(b + p + 2 * LongMin)
             rem == n % a
  <2>1. n \in Nat \ {0} /\ n <= MAXLONG + 1 /\ Wrap(b + p) = -n /\ b + p + n = -2 * LongMin
    <3>1. Wrap(b + p) = b + p + 2 * LongMin
      BY <1>3, WrapIs DEF LongMin
    <3> QED BY <1>3, <3>1 DEF LongMin
  <2>2. rem \in 0 .. a - 1 /\ n - rem \in Nat
    <3>1. n \in Nat
      BY <2>1
    <3>2. rem \in 0 .. a - 1 /\ n \div a \in Nat /\ n = a * (n \div a) + rem
      BY <3>1, DivModNat
    <3>3. PICK q \in Nat : n = a * q + rem
      BY <3>2
    <3> HIDE DEF n, rem
    <3>4. a * q \in Nat
      OBVIOUS
    <3>5. n - rem = a * q
      BY <3>1, <3>2, <3>3, <3>4
    <3> QED BY <3>2, <3>4, <3>5
  <2>3. Remainder(-n, a) = -rem
    BY <2>1 DEF Remainder
  <2> HIDE DEF n, rem
  <2>4. CASE rem = 0
    <3>1. RoundUp(-n, a) = -n
      BY <2>3, <2>4 DEF RoundUp
    <3>2. s = Wrap((-n) - p) /\ (-n) - p = b + 2 * LongMin
      BY <2>1, <3>1 DEF LongMin
    <3>3. s = Wrap(b + 2 * LongMin)
      BY <3>2
    <3>4. Wrap(b + 2 * LongMin) = b
      BY WrapIs DEF LongMin
    <3> QED BY <3>3, <3>4
  <2>5. CASE rem # 0
    <3>1. RoundUp(-n, a) = Wrap(Wrap((-n) + rem) + a)
      BY <2>1, <2>2, <2>3, <2>5 DEF RoundUp
    <3>2. Wrap((-n) + rem) = (-n) + rem
      BY <2>1, <2>2, <2>5, WrapIs DEF LongMin
    <3>3. Wrap(((-n) + rem) + a) = (rem + a) - n
      BY <1>1, <2>1, <2>2, WrapIs DEF LongMin
    <3>4. s = Wrap(((rem + a) - n) - p) /\ ((rem + a) - n) - p = (b + rem + a) + 2 * LongMin
      BY <2>1, <2>2, <3>1, <3>2, <3>3 DEF LongMin
    <3>5. s = Wrap((b + rem + a) + 2 * LongMin)
      BY <3>4
    <3>6. (b + rem + a) + 2 * LongMin < 0
      BY <2>2 DEF LongMin
    <3>7. s = IF (b + rem + a) + 2 * LongMin < LongMin THEN b + rem + a
              ELSE (b + rem + a) + 2 * LongMin
      BY <2>2, <3>5, <3>6, WrapIs DEF LongMin
    <3> QED BY <2>2, <3>6, <3>7 DEF LongMin
  <2> QED BY <2>4, <2>5
<1> QED BY <1>2, <1>3

\* The buffers of a block, n strides of it.
LEMMA Layout ==
    ASSUME NEW n \in Nat, NEW i \in 0 .. n - 1, NEW stride \in Nat
    PROVE  /\ i * stride \in Nat /\ i * stride + stride = (i + 1) * stride
           /\ (i + 1) * stride <= n * stride
OBVIOUS

\* Buffers that are a multiple of the alignment apart are aligned.
LEMMA Aligned ==
    ASSUME NEW i \in Nat, NEW a \in Nat \ {0}, NEW m \in Nat
    PROVE  Remainder(i * (a * m), a) = 0
<1>1. i * (a * m) = a * (i * m) /\ i * m \in Nat /\ i * (a * m) \in Nat
  OBVIOUS
<1>2. (i * (a * m)) % a = 0
  BY <1>1, ModOfMultiple
<1>3. Remainder(i * (a * m), a) = (i * (a * m)) % a
  BY <1>1 DEF Remainder
<1> QED BY <1>2, <1>3

\* The requests a client can make of a LONG of any width, and the test of the
\* alignment let through (amfilter.cpp:5071 refuses 0).
AnyRequest == [cbBuffer : 1 .. MAXLONG, cbPrefix : LongMin .. MAXLONG,
               cbAlign : Int \ {0}, cBuffers : Int]

\* What Alloc adds to a size: the stride when it does not refuse.
WholeSize(r) == Wrap(SizeSet(r) + r.cbPrefix)
Stride(r) == IF r.cbAlign > 1 THEN RoundUp(WholeSize(r), r.cbAlign) ELSE WholeSize(r)

\* What the checks of Alloc leave: the sums are those of the numbers.
LEMMA Checked ==
    ASSUME MAXLONG \in Nat, NEW r \in AnyRequest, Alloc(r).done
    PROVE  /\ SizeSet(r) \in 0 .. MAXLONG /\ r.cbPrefix \in 0 .. MAXLONG /\ r.cBuffers \in Nat
           /\ WholeSize(r) = SizeSet(r) + r.cbPrefix /\ WholeSize(r) \in 0 .. MAXLONG
           /\ Stride(r) \in WholeSize(r) .. MAXLONG /\ r.cBuffers * Stride(r) <= MAXLONG
           /\ Alloc(r) = [done |-> TRUE, stride |-> Stride(r), block |-> r.cBuffers * Stride(r)]
<1> DEFINE b == r.cbBuffer
           p == r.cbPrefix
           a == r.cbAlign
           n == r.cBuffers
           s == SizeSet(r)
<1>1. /\ b \in 1 .. MAXLONG /\ p \in LongMin .. MAXLONG /\ a \in Int \ {0} /\ n \in Int
      /\ s = Wrap(RoundUp(Wrap(b + p), a) - p)
  BY DEF AnyRequest, SizeSet
<1>2. /\ ~(s < 0) /\ ~(p < 0) /\ ~(n < 0) /\ ~(WholeSize(r) < s) /\ ~(Stride(r) < WholeSize(r))
      /\ ~(n * Stride(r) > MAXLONG)
      /\ Alloc(r) = [done |-> TRUE, stride |-> Stride(r), block |-> n * Stride(r)]
  BY DEF Alloc, Overflows, WholeSize, Stride
<1>3. WholeSize(r) = Wrap(s + p) /\ Stride(r) = IF a > 1 THEN RoundUp(WholeSize(r), a) ELSE WholeSize(r)
  BY DEF WholeSize, Stride
<1> HIDE DEF b, p, a, n, s
<1>4. p \in 0 .. MAXLONG /\ n \in Nat
  BY <1>1, <1>2 DEF LongMin
<1>5. s \in 0 .. MAXLONG
  <2>1. b + p \in Int
    BY <1>1, <1>4
  <2>2. RoundUp(Wrap(b + p), a) \in LongMin .. MAXLONG
    BY <1>1, <2>1, WrapType, RoundUpType
  <2>3. RoundUp(Wrap(b + p), a) - p \in Int
    BY <1>4, <2>2 DEF LongMin
  <2>4. s \in LongMin .. MAXLONG
    BY <1>1, <2>3, WrapType
  <2> QED BY <1>2, <2>4 DEF LongMin
<1>6. WholeSize(r) = s + p /\ WholeSize(r) \in 0 .. MAXLONG
  <2>1. s + p \in Int /\ 2 * LongMin <= s + p /\ s + p <= 2 * MAXLONG + 1
    BY <1>4, <1>5 DEF LongMin
  <2>2. WholeSize(r) = IF s + p > MAXLONG THEN (s + p) + 2 * LongMin ELSE s + p
    BY <1>3, <1>4, <1>5, <2>1, WrapIs DEF LongMin
  <2> QED BY <1>2, <1>4, <1>5, <2>2 DEF LongMin
<1>7. Stride(r) \in WholeSize(r) .. MAXLONG
  <2>1. Stride(r) \in LongMin .. MAXLONG
    <3>1. WholeSize(r) \in LongMin .. MAXLONG
      BY <1>6 DEF LongMin
    <3> QED BY <1>1, <1>3, <3>1, RoundUpType
  <2> QED BY <1>2, <1>6, <2>1 DEF LongMin
<1>8. n * Stride(r) <= MAXLONG
  BY <1>2, <1>4, <1>6, <1>7
<1> QED BY <1>2, <1>4, <1>5, <1>6, <1>7, <1>8 DEF s, p, n

\* Whatever a client asks for, with an alignment of either sign: the buffers Alloc
\* makes lie in the block behind their prefixes, apart from each other, whatever
\* sum has wrapped.
THEOREM BuffersLieApart ==
    ASSUME MAXLONG \in Nat, NEW r \in AnyRequest
    PROVE  BuffersApart(r)
<1> DEFINE p == r.cbPrefix
           n == r.cBuffers
           s == SizeSet(r)
           st == Stride(r)
<1> SUFFICES ASSUME Alloc(r).done
             PROVE  /\ Alloc(r).block <= MAXLONG
                    /\ \A i \in 0 .. n - 1 :
                          /\ Pointer(r, i) >= p
                          /\ Pointer(r, i) + s <=
                                IF i = n - 1 THEN Alloc(r).block ELSE Pointer(r, i + 1) - p
  BY DEF BuffersApart
<1>1. /\ s \in 0 .. MAXLONG /\ p \in 0 .. MAXLONG /\ n \in Nat /\ st \in s + p .. MAXLONG
      /\ n * st <= MAXLONG /\ Alloc(r) = [done |-> TRUE, stride |-> st, block |-> n * st]
  BY Checked
<1> HIDE DEF s, st, p, n
<1>2. st \in Nat
  BY <1>1
<1>3. ASSUME NEW i \in 0 .. n - 1
      PROVE  /\ Pointer(r, i) >= p
             /\ Pointer(r, i) + s <= IF i = n - 1 THEN Alloc(r).block ELSE Pointer(r, i + 1) - p
  <2>1. /\ Pointer(r, i) = i * st + p /\ Pointer(r, i + 1) = (i + 1) * st + p
        /\ Alloc(r).block = n * st
    BY <1>1 DEF Pointer, p
  <2>2. i * st \in Nat /\ i * st + st = (i + 1) * st /\ (i + 1) * st <= n * st
    BY <1>1, <1>2, Layout
  <2>3. Pointer(r, i) >= p /\ Pointer(r, i) + s <= (i + 1) * st
    BY <1>1, <2>1, <2>2
  <2>4. (i + 1) * st = Pointer(r, i + 1) - p
    BY <1>1, <1>2, <2>1, <2>2
  <2>5. i = n - 1 => (i + 1) * st = n * st
    BY <1>1
  <2> QED BY <2>1, <2>3, <2>4, <2>5
<1> QED BY <1>1, <1>3

\* With a positive alignment of at most a quarter of what a LONG counts, every buffer
\* Alloc makes has the size asked for, and is aligned, whatever sum has wrapped.
THEOREM BuffersAreHeld ==
    ASSUME MAXLONG \in Nat, NEW r \in AnyRequest, 0 < r.cbAlign, 2 * r.cbAlign <= MAXLONG + 1
    PROVE  BuffersAsRequested(r)
<1> DEFINE b == r.cbBuffer
           p == r.cbPrefix
           a == r.cbAlign
           n == r.cBuffers
           s == SizeSet(r)
           sum == WholeSize(r)
           st == Stride(r)
<1> SUFFICES ASSUME Alloc(r).done
             PROVE  /\ s >= b
                    /\ \A i \in 0 .. n - 1 : Remainder(Pointer(r, i) - p, a) = 0
  BY DEF BuffersAsRequested
<1>1. /\ b \in 1 .. MAXLONG /\ a \in Nat \ {0} /\ 2 * a <= MAXLONG + 1 /\ a <= MAXLONG
      /\ s = Wrap(RoundUp(Wrap(b + p), a) - p)
      /\ st = IF a > 1 THEN RoundUp(sum, a) ELSE sum
  BY DEF AnyRequest, SizeSet, Stride
<1>2. /\ s \in 0 .. MAXLONG /\ p \in 0 .. MAXLONG /\ n \in Nat /\ sum \in 0 .. MAXLONG
      /\ st \in sum .. MAXLONG /\ Alloc(r).stride = st
  BY Checked
<1>3. \A i : Pointer(r, i) = i * st + p
  BY <1>2 DEF Pointer
<1> HIDE DEF s, sum, st, b, p, a, n
<1>4. s \in b .. MAXLONG
  BY <1>1, <1>2, SizeIsEnough
<1>5. \E m \in Nat : st = a * m
  <2>1. CASE a > 1
    <3>0. st = RoundUp(sum, a)
      BY <1>1, <2>1
    <3>1. PICK k \in Nat, m \in Nat :
            /\ k < a /\ sum + k = a * m
            /\ RoundUp(sum, a) = IF sum + k <= MAXLONG THEN sum + k ELSE sum + k + 2 * LongMin
      BY <1>1, <1>2, RoundUpIs
    <3>2. sum + k <= MAXLONG
      BY <1>1, <1>2, <3>0, <3>1 DEF LongMin
    <3> QED BY <3>0, <3>1, <3>2
  <2>2. CASE ~(a > 1)
    <3>1. a = 1 /\ st = sum
      BY <1>1, <2>2
    <3>2. sum \in Nat /\ st = a * sum
      BY <1>2, <3>1
    <3> QED BY <3>2
  <2> QED BY <2>1, <2>2
<1>6. PICK m \in Nat : st = a * m
  BY <1>5
<1>7. ASSUME NEW i \in 0 .. n - 1 PROVE Remainder(Pointer(r, i) - p, a) = 0
  <2>1. Remainder(i * (a * m), a) = 0
    BY <1>1, <1>2, Aligned
  <2>2. i * st \in Int
    BY <1>2
  <2>3. Pointer(r, i) - p = i * (a * m)
    BY <1>2, <1>3, <1>6, <2>2
  <2> QED BY <2>1, <2>3
<1> QED BY <1>4, <1>7

-----------------------------------------------------------------------------
(* The frame, for every size of pictures. *)

\* Rows of w make the numbers below w * h, each once.
LEMMA CellNumber ==
    ASSUME NEW w \in Nat \ {0}, NEW h \in Nat, NEW x \in 0 .. w - 1, NEW z \in 0 .. h - 1
    PROVE  z * w + x \in 0 .. w * h - 1
<1>1. z * w \in Nat /\ (z + 1) * w = z * w + w /\ (z + 1) * w <= h * w /\ h * w = w * h
  <2>1. h - (z + 1) \in Nat
    OBVIOUS
  <2>2. (h - (z + 1)) * w \in Nat
    BY <2>1
  <2> QED BY <2>2
<1> QED BY <1>1

\* Every number below w * h is that of a cell.
LEMMA CellOf ==
    ASSUME NEW w \in Nat \ {0}, NEW h \in Nat, NEW i \in 0 .. w * h - 1
    PROVE  \E x \in 0 .. w - 1, z \in 0 .. h - 1 : i = z * w + x
<1>1. i \in Int /\ w \in Int /\ w > 0
  OBVIOUS
<1>2. i % w \in 0 .. w - 1 /\ i \div w \in Int
  BY <1>1
<1>3. i = w * (i \div w) + (i % w)
  BY <1>1, Division
<1>4. PICK x \in 0 .. w - 1, z \in Int : i = w * z + x
  BY <1>2, <1>3
<1>5. z >= 0
  <2> SUFFICES ASSUME z <= -1 PROVE FALSE
    BY <1>4
  <2>1. w * z <= -w
    OBVIOUS
  <2> QED BY <1>4, <2>1
<1>6. z < h
  <2> SUFFICES ASSUME z >= h PROVE FALSE
    BY <1>4
  <2>1. w * z >= w * h
    OBVIOUS
  <2> QED BY <1>4, <2>1
<1> QED BY <1>4, <1>5, <1>6

\* ... and of one only.
LEMMA CellIsOne ==
    ASSUME NEW w \in Nat \ {0}, NEW x \in 0 .. w - 1, NEW z \in Nat,
           NEW x2 \in 0 .. w - 1, NEW z2 \in Nat, z * w + x = z2 * w + x2
    PROVE  x = x2 /\ z = z2
<1>1. w * (z - z2) = x2 - x
  OBVIOUS
<1>2. CASE z - z2 >= 1
  <2>1. w * (z - z2) >= w
    BY <1>2
  <2> QED BY <1>1, <2>1
<1>3. CASE z - z2 <= -1
  <2>1. w * (z - z2) <= -w
    BY <1>3
  <2> QED BY <1>1, <2>1
<1>4. CASE z = z2
  BY <1>1, <1>4
<1> QED BY <1>2, <1>3, <1>4

\* Half the width is the width of the colour planes.
LEMMA Halves ==
    ASSUME NEW u \in Nat \ {0}, NEW v \in Nat \ {0}, NEW w, NEW h, w = 2 * u, h = 2 * v
    PROVE  /\ w \in Nat \ {0} /\ h \in Nat \ {0} /\ w \div 2 = u /\ u * v \in Nat
           /\ \A x \in 0 .. w - 1 : x \div 2 \in 0 .. u - 1
           /\ \A y \in 0 .. h - 1 : y \div 2 \in 0 .. v - 1
           /\ \A x \in 0 .. u - 1 : 2 * x \in 0 .. w - 1 /\ (2 * x) \div 2 = x
           /\ \A y \in 0 .. v - 1 : 2 * y \in 0 .. h - 1 /\ (2 * y) \div 2 = y
<1>1. /\ w \in Nat \ {0} /\ h \in Nat \ {0} /\ w \div 2 = u
      /\ \A x \in 0 .. w - 1 : x \div 2 \in 0 .. u - 1
      /\ \A y \in 0 .. h - 1 : y \div 2 \in 0 .. v - 1
      /\ \A x \in 0 .. u - 1 : 2 * x \in 0 .. w - 1 /\ (2 * x) \div 2 = x
      /\ \A y \in 0 .. v - 1 : 2 * y \in 0 .. h - 1 /\ (2 * y) \div 2 = y
  OBVIOUS
<1>2. u * v \in Nat
  OBVIOUS
<1> QED BY <1>1, <1>2

\* What the pixels read of a colour plane that begins at "from".
LEMMA Plane ==
    ASSUME NEW u \in Nat \ {0}, NEW v \in Nat \ {0}, NEW w, NEW h, w = 2 * u, h = 2 * v,
           NEW from \in Nat
    PROVE  {from + ColourIndex(p[1], p[2], w) : p \in Pixels(w, h)} = from .. from + u * v - 1
<1>1. /\ w \in Nat \ {0} /\ h \in Nat \ {0} /\ w \div 2 = u /\ u * v \in Nat
      /\ \A x \in 0 .. w - 1 : x \div 2 \in 0 .. u - 1
      /\ \A y \in 0 .. h - 1 : y \div 2 \in 0 .. v - 1
      /\ \A x \in 0 .. u - 1 : 2 * x \in 0 .. w - 1 /\ (2 * x) \div 2 = x
      /\ \A y \in 0 .. v - 1 : 2 * y \in 0 .. h - 1 /\ (2 * y) \div 2 = y
  BY Halves
<1>2. ASSUME NEW p \in Pixels(w, h)
      PROVE  from + ColourIndex(p[1], p[2], w) \in from .. from + u * v - 1
  <2>1. p[1] \in 0 .. w - 1 /\ p[2] \in 0 .. h - 1
    BY <1>2 DEF Pixels
  <2>2. PICK x \in 0 .. u - 1, z \in 0 .. v - 1 : x = p[1] \div 2 /\ z = p[2] \div 2
    BY <1>1, <2>1
  <2>3. ColourIndex(p[1], p[2], w) = z * u + x
    BY <1>1, <2>2 DEF ColourIndex, ColourRow
  <2>4. z * u + x \in 0 .. u * v - 1
    BY CellNumber
  <2> QED BY <1>1, <2>3, <2>4
<1>3. ASSUME NEW n \in from .. from + u * v - 1
      PROVE  \E p \in Pixels(w, h) : n = from + ColourIndex(p[1], p[2], w)
  <2>1. n - from \in 0 .. u * v - 1
    BY <1>1
  <2>2. PICK x \in 0 .. u - 1, z \in 0 .. v - 1 : n - from = z * u + x
    BY <2>1, CellOf
  <2>3. <<2 * x, 2 * z>> \in Pixels(w, h)
    BY <1>1 DEF Pixels
  <2>4. ColourIndex(2 * x, 2 * z, w) = z * u + x
    BY <1>1 DEF ColourIndex, ColourRow
  <2>5. n = from + ColourIndex(<<2 * x, 2 * z>>[1], <<2 * x, 2 * z>>[2], w)
    BY <2>2, <2>4
  <2> QED BY <2>3, <2>5
<1> QED BY <1>2, <1>3

\* The luminance bytes read and the RGB bytes written.
LEMMA FrameCells ==
    ASSUME NEW w \in Nat \ {0}, NEW h \in Nat \ {0}
    PROVE  /\ {YIndex(p[1], p[2], w, h) : p \in Pixels(w, h)} = 0 .. w * h - 1
           /\ {RgbIndex(p[1], p[2], w, h) : p \in Pixels(w, h)} = {3 * i : i \in 0 .. w * h - 1}
<1> DEFINE y == w * h
<1> HIDE DEF y
<1>1. {YIndex(p[1], p[2], w, h) : p \in Pixels(w, h)} = 0 .. y - 1
  <2>1. ASSUME NEW p \in Pixels(w, h) PROVE YIndex(p[1], p[2], w, h) \in 0 .. y - 1
    <3>1. p[1] \in 0 .. w - 1 /\ p[2] \in 0 .. h - 1
      BY DEF Pixels
    <3> QED BY <3>1, CellNumber DEF YIndex, y
  <2>2. ASSUME NEW i \in 0 .. y - 1 PROVE \E p \in Pixels(w, h) : i = YIndex(p[1], p[2], w, h)
    <3>0. i \in 0 .. w * h - 1 /\ h \in Nat /\ w \in Nat \ {0}
      BY <2>2 DEF y
    <3>1. PICK x \in 0 .. w - 1, z \in 0 .. h - 1 : i = z * w + x
      BY <3>0, CellOf
    <3>2. <<x, z>> \in Pixels(w, h) /\ i = YIndex(<<x, z>>[1], <<x, z>>[2], w, h)
      BY <3>1 DEF Pixels, YIndex
    <3> QED BY <3>2
  <2> QED BY <2>1, <2>2
<1>2. {RgbIndex(p[1], p[2], w, h) : p \in Pixels(w, h)} = {3 * i : i \in 0 .. y - 1}
  <2>1. ASSUME NEW x \in 0 .. w - 1, NEW z \in 0 .. h - 1
        PROVE  RgbIndex(x, z, w, h) = 3 * ((h - 1 - z) * w + x) /\ h - 1 - z \in 0 .. h - 1
    <3>1. (h - 1 - z) * w = w * h - w - z * w
      OBVIOUS
    <3> QED BY <3>1 DEF RgbIndex
  <2>2. ASSUME NEW p \in Pixels(w, h)
        PROVE  \E i \in 0 .. y - 1 : RgbIndex(p[1], p[2], w, h) = 3 * i
    <3>1. p[1] \in 0 .. w - 1 /\ p[2] \in 0 .. h - 1
      BY DEF Pixels
    <3>2. h - 1 - p[2] \in 0 .. h - 1
          /\ RgbIndex(p[1], p[2], w, h) = 3 * ((h - 1 - p[2]) * w + p[1])
      BY <2>1, <3>1
    <3>3. (h - 1 - p[2]) * w + p[1] \in 0 .. y - 1
      BY <3>1, <3>2, CellNumber DEF y
    <3> QED BY <3>2, <3>3
  <2>3. ASSUME NEW i \in 0 .. y - 1
        PROVE  \E p \in Pixels(w, h) : 3 * i = RgbIndex(p[1], p[2], w, h)
    <3>0. i \in 0 .. w * h - 1 /\ h \in Nat /\ w \in Nat \ {0}
      BY <2>3 DEF y
    <3>1. PICK x \in 0 .. w - 1, z \in 0 .. h - 1 : i = z * w + x
      BY <3>0, CellOf
    <3>2. h - 1 - z \in 0 .. h - 1 /\ h - 1 - (h - 1 - z) = z
      OBVIOUS
    <3>3. RgbIndex(x, h - 1 - z, w, h) = 3 * i
      BY <2>1, <3>1, <3>2
    <3>4. <<x, h - 1 - z>> \in Pixels(w, h)
      BY <3>2 DEF Pixels
    <3> QED BY <3>3, <3>4
  <2> QED BY <2>2, <2>3
<1> QED BY <1>1, <1>2 DEF y

\* All that Converted says, for a frame of 2 * u columns and 2 * v rows.
LEMMA AllPixels ==
    ASSUME NEW u \in Nat \ {0}, NEW v \in Nat \ {0}, NEW w, NEW h, w = 2 * u, h = 2 * v
    PROVE  Converted(w, h)
<1> DEFINE y == w * h
<1>1. /\ w \in Nat \ {0} /\ h \in Nat \ {0} /\ w \div 2 = u /\ u * v \in Nat
      /\ y = 4 * (u * v) /\ y \div 4 = u * v /\ LengthOf(w, h) = 6 * (u * v)
  <2>1. w \in Nat \ {0} /\ h \in Nat \ {0} /\ w \div 2 = u /\ u * v \in Nat
    BY Halves
  <2>2. PICK s \in Nat : s = u * v
    BY <2>1
  <2>3. w * h = 4 * s
    BY <2>2
  <2>4. (w * h) \div 4 = s
    BY <2>3
  <2>5. LengthOf(w, h) = 6 * s
    BY <2>3 DEF LengthOf
  <2> QED BY <2>1, <2>2, <2>3, <2>4, <2>5
<1>2. /\ \A x \in 0 .. w - 1 : x \div 2 \in 0 .. u - 1
      /\ \A z \in 0 .. h - 1 : z \div 2 \in 0 .. v - 1
  BY Halves
<1>3. \A from \in Nat :
        {from + ColourIndex(p[1], p[2], w) : p \in Pixels(w, h)} = from .. from + u * v - 1
  BY Plane
<1> HIDE DEF y
<1>4. /\ {YIndex(p[1], p[2], w, h) : p \in Pixels(w, h)} = 0 .. y - 1
      /\ {RgbIndex(p[1], p[2], w, h) : p \in Pixels(w, h)} = {3 * i : i \in 0 .. y - 1}
  BY <1>1, FrameCells DEF y
<1>6. {VIndex(p[1], p[2], w, h) : p \in Pixels(w, h)} = y .. y + (y \div 4) - 1
  <2>1. y \in Nat
    BY <1>1
  <2>2. \A p \in Pixels(w, h) : VIndex(p[1], p[2], w, h) = y + ColourIndex(p[1], p[2], w)
    BY DEF VIndex, y
  <2> QED BY <1>1, <1>3, <2>1, <2>2
<1>7. {UIndex(p[1], p[2], w, h) : p \in Pixels(w, h)} = y + (y \div 4) .. LengthOf(w, h) - 1
  <2> DEFINE from == y + (y \div 4)
  <2>1. from \in Nat /\ LengthOf(w, h) = from + u * v
    BY <1>1
  <2>2. \A p \in Pixels(w, h) : UIndex(p[1], p[2], w, h) = from + ColourIndex(p[1], p[2], w)
    BY DEF UIndex, y
  <2> HIDE DEF from
  <2>3. {from + ColourIndex(p[1], p[2], w) : p \in Pixels(w, h)} = from .. from + u * v - 1
    BY <1>3, <2>1
  <2>4. {UIndex(p[1], p[2], w, h) : p \in Pixels(w, h)} = from .. LengthOf(w, h) - 1
    BY <2>1, <2>2, <2>3
  <2> QED BY <2>4 DEF from
<1>8. ASSUME NEW p \in Pixels(w, h), NEW q \in Pixels(w, h)
      PROVE  (VIndex(p[1], p[2], w, h) = VIndex(q[1], q[2], w, h))
                <=> (p[1] \div 2 = q[1] \div 2 /\ p[2] \div 2 = q[2] \div 2)
  <2>1. PICK x \in 0 .. u - 1, z \in 0 .. v - 1 : x = p[1] \div 2 /\ z = p[2] \div 2
    BY <1>2 DEF Pixels
  <2>2. PICK x2 \in 0 .. u - 1, z2 \in 0 .. v - 1 : x2 = q[1] \div 2 /\ z2 = q[2] \div 2
    BY <1>2 DEF Pixels
  <2>3. /\ VIndex(p[1], p[2], w, h) = y + (z * u + x)
        /\ VIndex(q[1], q[2], w, h) = y + (z2 * u + x2)
    BY <1>1, <2>1, <2>2 DEF VIndex, ColourIndex, ColourRow, y
  <2>4. z * u + x = z2 * u + x2 => x = x2 /\ z = z2
    BY CellIsOne
  <2>5. y \in Nat /\ z * u + x \in Nat /\ z2 * u + x2 \in Nat
    BY <1>1
  <2> QED BY <2>1, <2>2, <2>3, <2>4, <2>5
<1> QED BY <1>4, <1>6, <1>7, <1>8 DEF Converted, y

\* YV12_to_RGB24 writes every byte of the RGB frame once and reads every byte of
\* the YV12 frame, for every even width and height.
THEOREM FramesAreConverted ==
    ASSUME NEW u \in Nat \ {0}, NEW v \in Nat \ {0}
    PROVE  Converted(2 * u, 2 * v)
BY AllPixels

\* UpdateVideoFrame puts a lower frame in the middle of the buffer, between whole
\* rows, if an even number of them is missing; and a bitmap of 24 or 32 bits a
\* pixel has room for the buffer.
THEOREM FramesAreInTheMiddle ==
    ASSUME NEW w \in Nat \ {0}, NEW height \in Nat, NEW k \in Nat
    PROVE  InMiddle(w, height + 2 * k, height) /\ HasRoom(w, height + 2 * k)
<1> DEFINE full == height + 2 * k
<1>1. PICK n \in Nat : n = w * height
  OBVIOUS
<1>2. PICK m \in Nat : m = w * k
  OBVIOUS
<1>3. FrameBytes(w, height) = 3 * n /\ FrameBytes(w, full) = 3 * n + 6 * m
  BY <1>1, <1>2 DEF FrameBytes
<1>4. Offset(FrameBytes(w, full), w, height) = 3 * m
  BY <1>3 DEF Offset
<1>5. (3 * m) % (3 * w) = 0
  <2>1. PICK t \in Nat : t = 3 * w /\ t > 0
    OBVIOUS
  <2>2. PICK none \in 0 .. t - 1 : none = 0 /\ 3 * m = k * t + none
    BY <1>2, <2>1
  <2>3. (3 * m) % t \in 0 .. t - 1 /\ (3 * m) \div t \in Nat
    <3>1. 3 * m \in Nat
      OBVIOUS
    <3> QED BY <2>1, <3>1
  <2>4. 3 * m = t * ((3 * m) \div t) + ((3 * m) % t)
    BY <2>1, Division
  <2>5. PICK x \in 0 .. t - 1, z \in Nat : x = (3 * m) % t /\ z = (3 * m) \div t
    BY <2>3
  <2>6. k * t + none = z * t + x
    BY <2>2, <2>4, <2>5
  <2>7. x = 0
    <3>1. none = x /\ k = z
      BY <2>1, <2>6, CellIsOne
    <3> QED BY <2>2, <3>1
  <2> QED BY <2>1, <2>5, <2>7
<1>6. InMiddle(w, full, height)
  <2> HIDE DEF full
  <2>1. FrameBytes(w, full) - (Offset(FrameBytes(w, full), w, height) + FrameBytes(w, height))
          = Offset(FrameBytes(w, full), w, height)
    BY <1>3, <1>4
  <2> QED BY <1>4, <1>5, <2>1 DEF InMiddle
<1>7. ASSUME NEW bits \in {24, 32} PROVE BitmapSize(w, full, bits) >= FrameBytes(w, full)
  <2>1. PICK row \in Nat : row = ((w * bits + 31) \div 32) * 4
    OBVIOUS
  <2>2. row >= 3 * w
    BY <2>1
  <2>3. full \in Nat /\ row * full >= (3 * w) * full
    BY <2>2
  <2> QED BY <2>1, <2>3 DEF BitmapSize, FrameBytes
<1> QED BY <1>6, <1>7 DEF HasRoom

-----------------------------------------------------------------------------
(* The invariants of MCArithmetic. *)

\* The result is right for either width of the product's upper part, 2 * t.
LEMMA WidthIsRight ==
    ASSUME NEW a \in -Most .. Most - 1, NEW b \in -Most .. Most - 1, NEW c \in -Most .. Most - 1,
           NEW d \in -Most .. Most - 1, NEW t \in Nat \ {0}, t <= Most,
           2 * (Abs(a) * Abs(b)) <= t * Quad, -t <= d, d <= t
    PROVE  RightResult(MulDivWidth(a, b, c, d, 2 * t), a, b, c, d)
<1>0. PICK p : \E bSign \in BOOLEAN :
              /\ Is(p, Abs(a * b + d))
              /\ a * b + d # 0 => (bSign <=> ((a * b + d < 0) # (c < 0)))
              /\ MulDivWidth(a, b, c, d, 2 * t) = Returned(p, Abs(c), bSign)
  BY NumeratorIs
<1>1. PICK bSign \in BOOLEAN :
              /\ Is(p, Abs(a * b + d))
              /\ a * b + d # 0 => (bSign <=> ((a * b + d < 0) # (c < 0)))
              /\ MulDivWidth(a, b, c, d, 2 * t) = Returned(p, Abs(c), bSign)
  BY <1>0
<1>2. CASE c = 0
  <2>1. Abs(c) = 0 /\ p.high \in Nat
    BY <1>1, <1>2 DEF Abs, Is
  <2>2. Returned(p, Abs(c), bSign) = Saturated(bSign)
    BY <2>1 DEF Returned
  <2> QED BY <1>1, <1>2, <2>2 DEF RightResult
<1>3. CASE c # 0
  <2>1. Most \in Nat
    BY TheWord DEF Most
  <2>2. PICK n \in Int : n = a * b + d
    BY <2>1
  <2>3. Is(p, Abs(n)) /\ (n # 0 => (bSign <=> ((n < 0) # (c < 0))))
    BY <1>1, <2>2
  <2>4. /\ Ratio(n, c) \in LongLong => Returned(p, Abs(c), bSign) = Ratio(n, c)
        /\ Abs(Ratio(n, c)) >= Quad => Returned(p, Abs(c), bSign) = Saturated(Ratio(n, c) < 0)
    BY <1>3, <2>3, ReturnedIsRight
  <2>5. Quotient(a, b, c, d) = Ratio(n, c)
    BY <2>2 DEF Quotient, Ratio
  <2> QED BY <1>1, <1>3, <2>4, <2>5 DEF RightResult
<1> QED BY <1>2, <1>3

\* "Compute (a * b + d) / c" (arithutil.cpp:76): for a DWORD of any width, every
\* LONGLONG a, b, c and d, llMulDiv returns the quotient rounded towards zero if
\* that is a LONGLONG, and the largest or smallest LONGLONG if c is 0 or the
\* quotient does not fit a DWORDLONG.
THEOREM MulDivIsRight ==
    ASSUME NEW a \in LongLong, NEW b \in LongLong, NEW c \in LongLong, NEW d \in LongLong
    PROVE  RightResult(llMulDiv(a, b, c, d), a, b, c, d)
<1>1. /\ Most \in Nat \ {0} /\ 2 * Most = Quad /\ LongLong = -Most .. Most - 1
  BY TheWord DEF Most, LongLong
<1>2. PICK x \in 0 .. Most, y \in 0 .. Most : x = Abs(a) /\ y = Abs(b)
  BY <1>1 DEF Abs
<1>3. 2 * (x * y) <= Most * Quad
  <2>1. x * y <= Most * y /\ y * Most <= Most * Most
    BY <1>1, Scale
  <2>2. PICK u \in Int, v \in Int, w \in Int : u = x * y /\ v = Most * y /\ w = Most * Most
    BY <1>1
  <2>3. y * Most = v /\ Most * Quad = 2 * w
    BY <1>1, <2>2
  <2> QED BY <2>1, <2>2, <2>3
<1>4. /\ a \in -Most .. Most - 1 /\ b \in -Most .. Most - 1 /\ c \in -Most .. Most - 1
      /\ d \in -Most .. Most - 1 /\ -Most <= d /\ d <= Most /\ Most <= Most
      /\ 2 * (Abs(a) * Abs(b)) <= Most * Quad
  BY <1>1, <1>2, <1>3
<1>5. RightResult(MulDivWidth(a, b, c, d, 2 * Most), a, b, c, d)
  BY <1>1, <1>4, WidthIsRight
<1> QED BY <1>1, <1>5 DEF llMulDiv

\* The same of Int64x32Div32, whose product has a DWORD less.
THEOREM Div32IsRight ==
    ASSUME NEW a \in LongLong, NEW b \in Long, NEW c \in Long, NEW d \in Long
    PROVE  RightResult(Int64x32Div32(a, b, c, d), a, b, c, d)
<1>1. /\ Most \in Nat \ {0} /\ 2 * Most = Quad /\ LongLong = -Most .. Most - 1
      /\ Half \in Nat \ {0} /\ 2 * Half = Word /\ Long = -Half .. Half - 1
      /\ Most = Half * Word
  BY TheWord DEF Most, LongLong, Long, Half
<1>2. Half <= Most
  <2>1. 1 * Half <= Word * Half
    BY <1>1, TheWord, Scale
  <2> QED BY <1>1, <2>1, TheWord
<1>3. PICK x \in 0 .. Most, y \in 0 .. Half : x = Abs(a) /\ y = Abs(b)
  <2>1. PICK m \in Nat, h \in Nat : m = Most /\ h = Half /\ a \in -m .. m - 1 /\ b \in -h .. h - 1
    BY <1>1
  <2>2. Abs(a) \in 0 .. m
    BY <2>1 DEF Abs
  <2>3. Abs(b) \in 0 .. h
    BY <2>1 DEF Abs
  <2> QED BY <2>1, <2>2, <2>3
<1>4. 2 * (x * y) <= Half * Quad
  <2>1. PICK m \in Nat, h \in Nat : m = Most /\ h = Half /\ Quad = 2 * m
    BY <1>1
  <2>2. x \in Int /\ x <= m /\ y \in Nat /\ y <= h
    BY <2>1
  <2>3. x * y <= m * y /\ y * m <= h * m
    BY <2>1, <2>2, Scale
  <2>4. PICK u \in Int, v \in Int, w \in Int : u = x * y /\ v = m * y /\ w = h * m
    BY <2>2
  <2>5. y * m = v /\ Half * Quad = 2 * w
    BY <2>1, <2>2, <2>4
  <2> QED BY <2>3, <2>4, <2>5
<1>5. /\ a \in -Most .. Most - 1 /\ b \in -Most .. Most - 1 /\ c \in -Most .. Most - 1
      /\ d \in -Most .. Most - 1 /\ -Half <= d /\ d <= Half
      /\ 2 * (Abs(a) * Abs(b)) <= Half * Quad
  <2>1. PICK m \in Nat, h \in Nat : m = Most /\ h = Half /\ h <= m
    BY <1>1, <1>2
  <2>2. /\ a \in -m .. m - 1 /\ b \in -h .. h - 1 /\ c \in -h .. h - 1 /\ d \in -h .. h - 1
    BY <1>1, <2>1
  <2>3. /\ b \in -m .. m - 1 /\ c \in -m .. m - 1 /\ d \in -m .. m - 1 /\ -h <= d /\ d <= h
    BY <2>1, <2>2
  <2> QED BY <1>3, <1>4, <2>1, <2>2, <2>3
<1>6. RightResult(MulDivWidth(a, b, c, d, 2 * Half), a, b, c, d)
  BY <1>1, <1>2, <1>5, WidthIsRight
<1> QED BY <1>1, <1>6 DEF Int64x32Div32

\* The input of a call is one of those enumerated.
CallInv ==
    /\ call.f = "llMulDiv" => call.a \in LongLong /\ call.b \in LongLong
    /\ call.f = "Int64x32Div32" => call.a \in LongLong /\ call.b \in Long
    /\ call.f = "Alloc" => call.r \in Requests
    /\ call.f = "UpdateVideoFrame" => call.mode \in DOMAIN FrameSize
    /\ call.f = "YV12_to_RGB24" => call.size \in SmallFrames

\* Every step makes one call, with one of those inputs.
LEMMA CallInvHolds == Spec => []CallInv
<1>1. Init => CallInv
  BY DEF Init, CallInv
<1>2. CallInv /\ [Next]_call => CallInv'
  <2> SUFFICES ASSUME CallInv, [Next]_call PROVE CallInv'
    OBVIOUS
  <2>1. CASE CallMulDiv
    BY <2>1 DEF CallMulDiv, CallInv
  <2>2. CASE CallDiv32
    BY <2>2 DEF CallDiv32, CallInv
  <2>3. CASE CallAlloc
    BY <2>3 DEF CallAlloc, CallInv
  <2>4. CASE CallFrame
    BY <2>4 DEF CallFrame, CallInv
  <2>5. CASE CallPixels
    BY <2>5 DEF CallPixels, CallInv
  <2>6. CASE UNCHANGED call
    BY <2>6 DEF CallInv
  <2> QED BY <2>1, <2>2, <2>3, <2>4, <2>5, <2>6 DEF Next
<1> QED BY <1>1, <1>2, PTL DEF Spec

\* "Compute (a * b + d) / c" (arithutil.cpp:76), as an invariant: the result of
\* either function is right for every divisor and addend.
THEOREM MulDivExactHolds == Spec => []MulDivExact
<1>1. CallInv => MulDivExact
  <2> SUFFICES ASSUME CallInv PROVE MulDivExact
    OBVIOUS
  <2>1. ASSUME call.f = "llMulDiv", NEW c \in LongLong, NEW d \in LongLong
        PROVE  RightResult(llMulDiv(call.a, call.b, c, d), call.a, call.b, c, d)
    <3>1. PICK a \in LongLong, b \in LongLong : a = call.a /\ b = call.b
      BY <2>1 DEF CallInv
    <3>2. RightResult(llMulDiv(a, b, c, d), a, b, c, d)
      BY MulDivIsRight
    <3> QED BY <3>1, <3>2
  <2>2. ASSUME call.f = "Int64x32Div32", NEW c \in Long, NEW d \in Long
        PROVE  RightResult(Int64x32Div32(call.a, call.b, c, d), call.a, call.b, c, d)
    <3>1. PICK a \in LongLong, b \in Long : a = call.a /\ b = call.b
      BY <2>2 DEF CallInv
    <3>2. RightResult(Int64x32Div32(a, b, c, d), a, b, c, d)
      BY Div32IsRight
    <3> QED BY <3>1, <3>2
  <2> QED BY <2>1, <2>2 DEF MulDivExact
<1> QED BY <1>1, CallInvHolds, PTL

\* Alloc refuses a request or its buffers lie apart, and have the size asked for
\* (amfilter.cpp:5194) if the alignment is positive and at most a quarter of what a
\* LONG counts: the invariant, of every request the run enumerates.
THEOREM AllocHoldsBuffersHolds == Spec => []AllocHoldsBuffers
<1>1. CallInv => AllocHoldsBuffers
  <2> SUFFICES ASSUME CallInv, call.f = "Alloc"
               PROVE  /\ BuffersApart(call.r)
                      /\ 0 < call.r.cbAlign /\ 2 * call.r.cbAlign <= MAXLONG + 1
                            => BuffersAsRequested(call.r)
    BY DEF AllocHoldsBuffers
  <2>1. PICK r \in Requests : r = call.r
    BY DEF CallInv
  <2>2. r \in AnyRequest
    <3>1. /\ {-1} \cup 0 .. MAXLONG \subseteq LongMin .. MAXLONG
          /\ Alignments \subseteq Int \ {0} /\ {-1, 0, 1, 2, 3} \subseteq Int
      BY SizesAssumption DEF LongMin, Alignments
    <3> QED BY <3>1 DEF Requests, AnyRequest
  <2>3. MAXLONG \in Nat
    BY SizesAssumption
  <2>4. BuffersApart(r)
    BY <2>2, <2>3, BuffersLieApart
  <2>5. ASSUME 0 < r.cbAlign, 2 * r.cbAlign <= MAXLONG + 1 PROVE BuffersAsRequested(r)
    BY <2>2, <2>3, <2>5, BuffersAreHeld
  <2> QED BY <2>1, <2>4, <2>5
<1> QED BY <1>1, CallInvHolds, PTL

\* In every mode an even number of rows is missing from an NTSC frame.
LEMMA ModeSizes ==
    ASSUME NEW mode \in DOMAIN FrameSize
    PROVE  /\ FrameSize[mode][1] \in Nat \ {0} /\ FrameSize[mode][2] \in Nat
           /\ \A height \in Heights(mode) :
                 height \in Nat /\ \E k \in Nat : FrameSize[mode][2] = height + 2 * k
<1>1. FrameSize[mode][1] \in Nat \ {0} /\ FrameSize[mode][2] \in Nat
  BY DEF FrameSize
<1>2. ASSUME mode \in DOMAIN NtscHeight
      PROVE  NtscHeight[mode] \in Nat /\ \E k \in Nat : FrameSize[mode][2] = NtscHeight[mode] + 2 * k
  <2>1. mode \in {"D1", "HD1", "BCIF", "CIF", "QCIF", "S960H"}
    BY <1>2 DEF NtscHeight
  <2>2. CASE mode \in {"D1", "HD1", "S960H"}
    <3>1. NtscHeight[mode] = 480 /\ FrameSize[mode][2] = 576 /\ 576 = 480 + 2 * 48
      BY <2>2 DEF NtscHeight, FrameSize
    <3> QED BY <3>1
  <2>3. CASE mode \in {"BCIF", "CIF"}
    <3>1. NtscHeight[mode] = 240 /\ FrameSize[mode][2] = 288 /\ 288 = 240 + 2 * 24
      BY <2>3 DEF NtscHeight, FrameSize
    <3> QED BY <3>1
  <2>4. CASE mode = "QCIF"
    <3>1. NtscHeight[mode] = 120 /\ FrameSize[mode][2] = 144 /\ 144 = 120 + 2 * 12
      BY <2>4 DEF NtscHeight, FrameSize
    <3> QED BY <3>1
  <2> QED BY <2>1, <2>2, <2>3, <2>4
<1>3. \A height \in Heights(mode) :
          height = FrameSize[mode][2] \/ (mode \in DOMAIN NtscHeight /\ height = NtscHeight[mode])
  BY DEF Heights
<1>4. PICK full \in Nat : full = FrameSize[mode][2]
  BY <1>1
<1>5. full = full + 2 * 0 /\ 0 \in Nat
  OBVIOUS
<1> QED BY <1>1, <1>2, <1>3, <1>4, <1>5

\* "Place NTSC frame on the center of the screen" (DahuaDevice.cpp:348): a frame of
\* every mode is in the middle of the buffer, and is converted completely.
THEOREM FrameIsPlacedHolds == Spec => []FrameIsPlaced
<1>1. ASSUME NEW mode \in DOMAIN FrameSize PROVE Placed(mode)
  <2>1. PICK w \in Nat \ {0}, full \in Nat : w = FrameSize[mode][1] /\ full = FrameSize[mode][2]
    BY ModeSizes
  <2>2. ASSUME NEW height \in Heights(mode) PROVE InMiddle(w, full, height)
    <3>1. PICK k \in Nat : height \in Nat /\ full = height + 2 * k
      BY <2>1, ModeSizes
    <3>2. InMiddle(w, height + 2 * k, height)
      BY <3>1, FramesAreInTheMiddle
    <3> QED BY <3>1, <3>2
  <2>3. HasRoom(w, full)
    <3>1. HasRoom(w, full + 2 * 0)
      BY FramesAreInTheMiddle
    <3>2. full + 2 * 0 = full
      OBVIOUS
    <3> QED BY <3>1, <3>2
  <2> QED BY <2>1, <2>2, <2>3 DEF Placed
<1>2. ASSUME NEW size \in SmallFrames PROVE Converted(size[1], size[2])
  <2>1. PICK u \in {1, 2, 3}, v \in {1, 2, 3} : size[1] = 2 * u /\ size[2] = 2 * v
    BY DEF SmallFrames
  <2>2. Converted(2 * u, 2 * v)
    BY <2>1, FramesAreConverted
  <2> QED BY <2>1, <2>2
<1>3. CallInv => FrameIsPlaced
  BY <1>1, <1>2 DEF CallInv, FrameIsPlaced
<1> QED BY <1>3, CallInvHolds, PTL
=============================================================================
