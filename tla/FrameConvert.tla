---------------------------- MODULE FrameConvert ----------------------------
(***************************************************************************)
(* The geometry of a video frame (Filter/DahuaDevice.cpp): the size of a   *)
(* capture mode, where UpdateVideoFrame puts a frame in the buffer, and    *)
(* which bytes YV12_to_RGB24 reads and writes.  The colour formula is left *)
(* out.  The SDK's frames are those of the mode, PAL or NTSC.              *)
(***************************************************************************)
EXTENDS Integers

\* GetFrameSize: every mode the code knows.
FrameSize ==
    [D1 |-> <<704, 576>>, HD1 |-> <<352, 576>>, BCIF |-> <<704, 288>>, CIF |-> <<352, 288>>,
     QCIF |-> <<176, 144>>, VGA |-> <<640, 480>>, QVGA |-> <<320, 240>>, SVCD |-> <<480, 480>>,
     QQVGA |-> <<160, 128>>, SVGA |-> <<800, 592>>, XVGA |-> <<1024, 768>>,
     WXGA |-> <<1280, 800>>, SXGA |-> <<1280, 1024>>, WSXGA |-> <<1600, 1024>>,
     UXGA |-> <<1600, 1200>>, WUXGA |-> <<1920, 1200>>, LTF |-> <<240, 192>>,
     S720 |-> <<1280, 720>>, S1080 |-> <<1920, 1080>>, S1_3M |-> <<1280, 960>>,
     S2M |-> <<1872, 1408>>, S5M |-> <<3744, 1408>>, S3M |-> <<2048, 1536>>,
     S5_0M |-> <<2432, 2050>>, S1_2M |-> <<1216, 1024>>, S1408 |-> <<1408, 1024>>,
     S8M |-> <<3296, 2472>>, S2560 |-> <<2560, 1920>>, S960H |-> <<960, 576>>,
     S960_720 |-> <<960, 720>>, NHD |-> <<640, 360>>, QNHD |-> <<320, 180>>,
     QQNHD |-> <<160, 90>>, S960_540 |-> <<960, 540>>, S640_352 |-> <<640, 352>>,
     S640_400 |-> <<640, 400>>, S320_192 |-> <<320, 192>>, S320_176 |-> <<320, 176>>]

\* The heights that the comments of GetFrameSize give for NTSC.
NtscHeight == [D1 |-> 480, HD1 |-> 480, BCIF |-> 240, CIF |-> 240, QCIF |-> 120, S960H |-> 480]

\* StartPlay: the bytes of the RGB888 frame.
FrameBytes(width, height) == 3 * width * height

\* DIBSIZE, what GetMediaType offers as biSizeImage: rows of whole DWORDs.
BitmapSize(width, height, bits) == ((width * bits + 31) \div 32) * 4 * height

\* UpdateVideoFrame takes a frame of the length of YUV12 data only.
LengthOf(width, height) == (width * height * 3) \div 2

\* Mutant: the offset is not halved.
BottomOffset(size, width, height) == size - FrameBytes(width, height)

\* Where the frame is put in a buffer of size bytes.
Offset(size, width, height) == (size - FrameBytes(width, height)) \div 2

\* YV12_to_RGB24, for the pixel (x, y): the bytes read, and the first of the
\* three written.
YIndex(x, y, width, height) == y * width + x

ColourRow(y) == y \div 2

ColourIndex(x, y, width) == ColourRow(y) * (width \div 2) + x \div 2
VIndex(x, y, width, height) == width * height + ColourIndex(x, y, width)
UIndex(x, y, width, height) ==
    width * height + (width * height) \div 4 + ColourIndex(x, y, width)

\* The rows are turned upside down, as a bitmap has them.
RgbIndex(x, y, width, height) == 3 * (width * height - width - y * width + x)
-----------------------------------------------------------------------------
\* A frame of this height in a buffer for the height "full": as many whole rows
\* above it as below it.
InMiddle(width, full, height) ==
    LET size   == FrameBytes(width, full)
        offset == Offset(size, width, height)
    IN  /\ offset % (3 * width) = 0
        /\ size - (offset + FrameBytes(width, height)) = offset

\* The bitmap of either format has room for the frame buffer.
HasRoom(width, full) ==
    \A bits \in {24, 32} : BitmapSize(width, full, bits) >= FrameBytes(width, full)

Pixels(width, height) == (0 .. width - 1) \X (0 .. height - 1)

\* Every byte of the frame is written once, and exactly the YUV data is read,
\* each colour for a square of four pixels.
Converted(w, h) ==
    LET y == w * h
    IN  /\ {RgbIndex(p[1], p[2], w, h) : p \in Pixels(w, h)} = {3 * i : i \in 0 .. y - 1}
        /\ {YIndex(p[1], p[2], w, h) : p \in Pixels(w, h)} = 0 .. y - 1
        /\ {VIndex(p[1], p[2], w, h) : p \in Pixels(w, h)} = y .. y + (y \div 4) - 1
        /\ {UIndex(p[1], p[2], w, h) : p \in Pixels(w, h)} = y + (y \div 4) .. LengthOf(w, h) - 1
        /\ \A p, q \in Pixels(w, h) :
              (VIndex(p[1], p[2], w, h) = VIndex(q[1], q[2], w, h))
                 <=> (p[1] \div 2 = q[1] \div 2 /\ p[2] \div 2 = q[2] \div 2)
=============================================================================
