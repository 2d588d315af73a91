---------------------------- MODULE MCArithmetic ----------------------------
(***************************************************************************)
(* The pure computations on bounded inputs: a step is one call.            *)
(***************************************************************************)
EXTENDS MulDiv, AllocatorSizes, FrameConvert

VARIABLE call   \* the computation and its input

Init == call = [f |-> "none"]

\* Alignments: 3 and 9 are not powers of two, which SetProperties only logs, as it
\* does the negative ones.
Alignments == {1, 2, 3, 4, 8, 9, -1, -4, -8, -9}

\* Requests of a client.
Requests ==
    [cbBuffer : 1 .. MAXLONG, cbPrefix : {-1} \cup 0 .. MAXLONG, cbAlign : Alignments,
     cBuffers : {-1, 0, 1, 2, 3}]

\* Frames of few pixels, even as all modes are.
SmallFrames == {2, 4, 6} \X {2, 4, 6}

CallMulDiv == \E a, b \in LongLong : call' = [f |-> "llMulDiv", a |-> a, b |-> b]
CallDiv32  == \E a \in LongLong, b \in Long : call' = [f |-> "Int64x32Div32", a |-> a, b |-> b]
CallAlloc  == \E r \in Requests : AlignmentAccepted(r.cbAlign) /\ call' = [f |-> "Alloc", r |-> r]
CallFrame  == \E s \in DOMAIN FrameSize : call' = [f |-> "UpdateVideoFrame", mode |-> s]
CallPixels == \E s \in SmallFrames : call' = [f |-> "YV12_to_RGB24", size |-> s]

Next == call.f = "none" /\ (CallMulDiv \/ CallDiv32 \/ CallAlloc \/ CallFrame \/ CallPixels)

Spec == Init /\ [][Next]_call
-----------------------------------------------------------------------------
\* The result is the rounded quotient whenever that is a LONGLONG, and the
\* largest or smallest LONGLONG if the quotient does not fit a DWORDLONG.
RightResult(result, a, b, c, d) ==
    IF c = 0 THEN result \in {Saturated(TRUE), Saturated(FALSE)}
    ELSE LET q == Quotient(a, b, c, d)
         IN  /\ q \in LongLong => result = q
             /\ Abs(q) >= Quad => result = Saturated(q < 0)

\* "Compute (a * b + d) / c" (arithutil.cpp:76): whatever signs and carries there
\* are, both functions compute the quotient, for every divisor and addend.
MulDivExact ==
    /\ call.f = "llMulDiv" => \A c, d \in LongLong :
            RightResult(llMulDiv(call.a, call.b, c, d), call.a, call.b, c, d)
    /\ call.f = "Int64x32Div32" => \A c, d \in Long :
            RightResult(Int64x32Div32(call.a, call.b, c, d), call.a, call.b, c, d)

\* Whatever is requested, with an alignment of either sign, Alloc refuses it or the
\* buffers lie in the block apart from each other; and they have the size asked for
\* (amfilter.cpp:5194) if the alignment is positive and at most a quarter of what a
\* LONG counts.
AllocHoldsBuffers ==
    call.f = "Alloc" =>
        /\ BuffersApart(call.r)
        /\ 0 < call.r.cbAlign /\ 2 * call.r.cbAlign <= MAXLONG + 1 => BuffersAsRequested(call.r)

Heights(mode) == {FrameSize[mode][2]}
                    \cup (IF mode \in DOMAIN NtscHeight THEN {NtscHeight[mode]} ELSE {})

\* "Place NTSC frame on the center of the screen" (DahuaDevice.cpp:348): a frame
\* of every mode is in the buffer, with as many whole rows above as below it, and
\* the bitmap of either format has room for the buffer.
Placed(mode) ==
    LET width == FrameSize[mode][1]
        full  == FrameSize[mode][2]
    IN  HasRoom(width, full) /\ \A height \in Heights(mode) : InMiddle(width, full, height)

\* The frame a device delivers is converted completely and put where it belongs.
FrameIsPlaced ==
    /\ call.f = "UpdateVideoFrame" => Placed(call.mode)
    /\ call.f = "YV12_to_RGB24" => Converted(call.size[1], call.size[2])
-----------------------------------------------------------------------------
\* "This will catch c == 0 and overflow" (arithutil.cpp:174): a quotient that is
\* not a LONGLONG gives the largest or the smallest.
OverflowIsCaught ==
    call.f = "llMulDiv" => \A c, d \in LongLong :
        c # 0 /\ Quotient(call.a, call.b, c, d) \notin LongLong =>
            llMulDiv(call.a, call.b, c, d)
                = Saturated(Quotient(call.a, call.b, c, d) < 0)

\* "We have allocated m_lSize bytes for each sample" (amfilter.cpp:5194): so they
\* are as many as were asked for, also with a larger alignment.
AnyPositiveHolds == call.f = "Alloc" /\ call.r.cbAlign > 0 => BuffersAsRequested(call.r)

\* The same with a negative alignment: what SetProperties accepts has room for the
\* size asked for.
NegativeHolds == call.f = "Alloc" /\ call.r.cbAlign < 0 => BuffersAsRequested(call.r)
=============================================================================
