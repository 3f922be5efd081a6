--------------------------- MODULE ImageProcProofs ---------------------------
(***************************************************************************)
(* ImageProc never touches what lies around rgb, counts lines as the       *)
(* decompressor does, and gives whole pictures of one frame: for every     *)
(* decompressor whose calls are as FramesAssumption says, every camera,    *)
(* and frames and bitmaps of every size.                                   *)
(*                                                                         *)
(* The invariant says what the decompressor is at each step of a call, how *)
(* much of rgb shows the frame that is being read, and that between frames *)
(* all of it shows the last one.                                           *)
(***************************************************************************)
EXTENDS ImageProc, SequenceTheorems, TLAPS

Uniform == camera # "sizes"

(* The first n pixels are those of the frame, lines of w pixels.           *)
Shows(pixels, frame, w, n) ==
  \A i \in 1..n : pixels[i] = [frame |-> frame, line |-> ((i - 1) \div w) + 1]

Types ==
  /\ camera \in DOMAIN Frames
  /\ caller \in {"idle", "header", "start", "lines", "copy"}
  /\ id \in 0..(Ids - 1) /\ last \in -1..(Ids - 1)
  /\ ret \in {-1, 0} /\ jp \in BOOLEAN /\ wild = FALSE
  /\ jp <=> caller # "idle"
  /\ bmp.width \in Nat /\ bmp.height \in Nat
  /\ bmp = [width |-> bmp.width, height |-> bmp.height, pixels |-> bmp.pixels]

(* rgb has one size for as long as it is allocated: with frames of one     *)
(* size, theirs. Never allocated, it has that of no bitmap.                *)
FitsFrames ==
  \A frame \in Frames[camera] :
    Decodes(frame) => /\ Start(frame).frame.width = IMG_WIDTH
                      /\ Start(frame).frame.height = IMG_HEIGHT
Sized ==
  IF rgb = NULL THEN camera # "sound" => IMG_WIDTH = -1
  ELSE /\ IMG_WIDTH \in Nat \ {0} /\ IMG_HEIGHT \in Nat \ {0}
       /\ Len(rgb) = IMG_WIDTH * IMG_HEIGHT
       /\ Uniform => FitsFrames

(* What the decompressor is.                                               *)
Coming(frame) == camera = "sizes" => NotTaller(frame)
OfAFrame ==
  /\ caller = "header" =>
       \E frame \in Frames[camera] : Coming(frame) /\ mycinfo = Created(frame)
  /\ caller = "start" =>
       \E frame \in Frames[camera] :
         Coming(frame) /\ ~Header(frame).error /\ mycinfo = Prepared(Header(frame))
InLines ==
  caller = "lines" =>
    /\ rgb # NULL /\ mycinfo \in Decoding
    /\ mycinfo.output_scanline <= mycinfo.frame.height
    /\ mycinfo.frame.height <= IMG_HEIGHT
    /\ Uniform => mycinfo.frame.width = IMG_WIDTH /\ mycinfo.frame.height = IMG_HEIGHT
    /\ y = IMG_WIDTH * mycinfo.output_scanline

(* What rgb shows: the lines that have come, and between frames all of the *)
(* last frame.                                                             *)
LinesSoFar ==
  Uniform /\ caller = "lines" =>
    /\ Shows(rgb, id, IMG_WIDTH, y)
    /\ mycinfo.output_scanline > 0 => last = id
LastFrame == Uniform /\ caller # "lines" /\ rgb # NULL => Shows(rgb, last, IMG_WIDTH, Len(rgb))
SoundIsRead == camera = "sound" /\ caller = "copy" => rgb # NULL

WholeBitmap ==
  Uniform /\ caller = "idle" /\ ret = 0 /\ bmp # NoBitmap =>
    /\ Len(bmp.pixels) = bmp.width * bmp.height
    /\ Shows(bmp.pixels, last, bmp.width, Len(bmp.pixels))

ProcInv ==
  /\ Types /\ Sized /\ OfAFrame /\ InLines
  /\ LinesSoFar /\ LastFrame /\ SoundIsRead /\ WholeBitmap
-----------------------------------------------------------------------------
LEMMA TimesMonotonic ==
  ASSUME NEW a \in Int, NEW b \in Int, NEW k \in Nat, a <= b
  PROVE  k * a <= k * b
OBVIOUS

LEMMA TimesZero == ASSUME NEW k \in Nat PROVE k * 0 = 0
OBVIOUS

(* Pixels w * q up to w * q + w - 1 are those of line q + 1.               *)
LEMMA LineOfPixel ==
  ASSUME NEW w \in Nat \ {0}, NEW q \in Int, NEW x \in 0..(w - 1)
  PROVE  ((w * q) + x) \div w = q
<1> DEFINE a == (w * q) + x
           d == a \div w
           m == a % w
<1>1. w * q \in Int /\ a \in Int
  OBVIOUS
<1>2. d \in Int /\ m \in 0..(w - 1) /\ a = (w * d) + m
  BY <1>1
<1>3. a = (w * q) + x
  OBVIOUS
<1> HIDE DEF a, d, m
<1>4. w * d \in Int
  BY <1>2
<1>5. ASSUME d < q PROVE FALSE
  <2>1. w * (d + 1) <= w * q
    BY <1>2, <1>5, TimesMonotonic
  <2>2. w * (d + 1) = (w * d) + w
    BY <1>2
  <2> QED BY <1>1, <1>2, <1>3, <1>4, <2>1, <2>2
<1>6. ASSUME q < d PROVE FALSE
  <2>1. w * (q + 1) <= w * d
    BY <1>2, <1>6, TimesMonotonic
  <2>2. w * (q + 1) = (w * q) + w
    OBVIOUS
  <2> QED BY <1>1, <1>2, <1>3, <1>4, <2>1, <2>2
<1>7. d = q
  BY <1>2, <1>5, <1>6
<1> QED BY <1>7 DEF a, d

LEMMA LengthOf ==
  ASSUME NEW n \in Nat, NEW S, NEW s \in [1..n -> S]
  PROVE  Len(s) = n
OBVIOUS

LEMMA NotEmpty == ASSUME NEW s, Len(s) > 0 PROVE s # NULL
  BY DEF NULL
-----------------------------------------------------------------------------
(* What rgb is while it is allocated.                                      *)
LEMMA Allocated ==
  ASSUME Sized, rgb # NULL
  PROVE  /\ IMG_WIDTH \in Nat \ {0} /\ IMG_HEIGHT \in Nat \ {0}
         /\ Len(rgb) = IMG_WIDTH * IMG_HEIGHT /\ Len(rgb) \in Nat
         /\ Uniform => FitsFrames
BY DEF Sized

LEMMA ProcInvInit ==
  ASSUME FramesAssumption, Init
  PROVE  ProcInv
<1>1. Types
  <2>1. /\ bmp.width \in Nat /\ bmp.height \in Nat
        /\ bmp = [width |-> bmp.width, height |-> bmp.height, pixels |-> bmp.pixels]
    BY DEF Init, NoBitmap
  <2>2. id \in 0..(Ids - 1) /\ last \in -1..(Ids - 1)
    BY DEF Init, FramesAssumption
  <2>3. jp <=> caller # "idle"
    BY Zenon DEF Init
  <2> QED BY <2>1, <2>2, <2>3 DEF Init, Types
<1>2. Sized /\ OfAFrame /\ InLines /\ LinesSoFar /\ LastFrame /\ SoundIsRead
  BY DEF Init, Sized, OfAFrame, InLines, LinesSoFar, LastFrame, SoundIsRead
<1>3. WholeBitmap
  BY DEF Init, WholeBitmap
<1> QED BY <1>1, <1>2, <1>3 DEF ProcInv

LEMMA PixelToBmpKeeps ==
  ASSUME FramesAssumption, ProcInv, pixeltobmp
  PROVE  ProcInv'
<1>1. PICK frame \in Frames[camera], size \in Bitmaps :
        /\ Coming(frame) /\ mycinfo' = Created(frame)
        /\ bmp' = [width |-> size[1], height |-> size[2], pixels |-> <<>>]
  BY DEF pixeltobmp, Coming
<1>2. /\ id' = (id + 1) % Ids /\ jp' = TRUE /\ caller = "idle" /\ caller' = "header"
      /\ UNCHANGED <<camera, image, y, ret, wild, last>>
  BY DEF pixeltobmp
<1>3. Types'
  <2>1. /\ bmp'.width \in Nat /\ bmp'.height \in Nat
        /\ bmp' = [width |-> bmp'.width, height |-> bmp'.height, pixels |-> bmp'.pixels]
    BY <1>1 DEF FramesAssumption
  <2>2. id' \in 0..(Ids - 1)
    BY <1>2 DEF ProcInv, Types, FramesAssumption
  <2> QED BY <1>2, <2>1, <2>2 DEF ProcInv, Types
<1>4. Sized' /\ LastFrame'
  BY <1>2 DEF ProcInv, Sized, LastFrame, FitsFrames, Uniform, Shows, image
<1>5. OfAFrame'
  <2>1. Coming(frame)'
    BY <1>1, <1>2 DEF Coming, NotTaller, image
  <2> QED BY <1>1, <1>2, <2>1 DEF OfAFrame
<1>6. InLines' /\ LinesSoFar' /\ SoundIsRead' /\ WholeBitmap'
  BY <1>2 DEF InLines, LinesSoFar, SoundIsRead, WholeBitmap
<1> QED BY <1>3, <1>4, <1>5, <1>6 DEF ProcInv

(* A step that leaves rgb, the bitmap and the numbers alone.               *)
LEMMA Between ==
  ASSUME ProcInv, caller # "lines", caller' \notin {"lines", "idle"}, caller # "idle",
         caller' \in {"header", "start", "copy"},
         UNCHANGED <<camera, id, image, y, jp, bmp, ret, wild, last>>
  PROVE  Types' /\ Sized' /\ InLines' /\ LinesSoFar' /\ LastFrame' /\ WholeBitmap'
<1>1. Types'
  BY DEF ProcInv, Types
<1>2. Sized' /\ LastFrame'
  BY DEF ProcInv, Sized, LastFrame, FitsFrames, Uniform, Shows, image
<1>3. InLines' /\ LinesSoFar' /\ WholeBitmap'
  BY DEF InLines, LinesSoFar, WholeBitmap
<1> QED BY <1>1, <1>2, <1>3

LEMMA ReadHeaderKeeps ==
  ASSUME FramesAssumption, ProcInv, ReadHeader
  PROVE  ProcInv'
<1>1. /\ caller = "header"
      /\ UNCHANGED <<camera, id, image, y, jp, bmp, ret, wild, last>>
  BY DEF ReadHeader
<1>2. PICK frame \in Frames[camera] : Coming(frame) /\ mycinfo = Created(frame)
  BY <1>1 DEF ProcInv, OfAFrame
<1>3. IF Header(frame).error THEN Destroyed
      ELSE mycinfo' = Prepared(Header(frame)) /\ caller' = "start"
  BY <1>2 DEF ReadHeader, Header
<1>4. CASE Header(frame).error
  <2>1. caller' = "copy"
    BY <1>3, <1>4 DEF Destroyed
  <2>2. OfAFrame'
    BY <2>1 DEF OfAFrame
  <2>3. SoundIsRead'
    BY <1>1, <1>4 DEF SoundIsRead, FramesAssumption, Decodes, ProcInv, Types
  <2> QED BY <1>1, <2>1, <2>2, <2>3, Between DEF ProcInv
<1>5. CASE ~Header(frame).error
  <2>1. caller' = "start" /\ mycinfo' = Prepared(Header(frame))
    BY <1>3, <1>5
  <2>2. OfAFrame'
    <3>1. Coming(frame)'
      BY <1>1, <1>2 DEF Coming, NotTaller, image
    <3> QED BY <1>1, <1>5, <2>1, <3>1 DEF OfAFrame
  <2>3. SoundIsRead'
    BY <2>1 DEF SoundIsRead
  <2> QED BY <1>1, <2>1, <2>2, <2>3, Between DEF ProcInv
<1> QED BY <1>4, <1>5

(* A frame that starts finds an rgb it fits into, or one is allocated.     *)
LEMMA AllocateKeeps ==
  ASSUME FramesAssumption, ProcInv, NEW frame \in Frames[camera], Coming(frame),
         Decodes(frame), Allocate(Start(frame)), camera' = camera
  PROVE  /\ rgb' # NULL /\ Sized'
         /\ Start(frame).frame.height <= IMG_HEIGHT'
         /\ Uniform => /\ Start(frame).frame.width = IMG_WIDTH'
                       /\ Start(frame).frame.height = IMG_HEIGHT'
<1> DEFINE size == Start(frame).frame
<1>0. camera \in DOMAIN Frames
  BY DEF ProcInv, Types
<1>1. Start(frame) \in Decoding /\ \E i \in 1..Len(frame) : size = frame[i]
  BY <1>0 DEF FramesAssumption, StartsAtTheTop
<1>2. size.width \in Nat \ {0} /\ size.height \in Nat \ {0}
  BY <1>1 DEF FramesAssumption, EveryLineComes, IsSize
<1>3. CASE rgb # NULL
  <2>1. rgb' = rgb /\ IMG_WIDTH' = IMG_WIDTH /\ IMG_HEIGHT' = IMG_HEIGHT
    BY <1>3 DEF Allocate, image
  <2>2. Sized'
    BY <2>1 DEF ProcInv, Sized, FitsFrames, Uniform
  <2>3. Uniform => size.width = IMG_WIDTH /\ size.height = IMG_HEIGHT
    BY <1>3, Allocated DEF ProcInv, FitsFrames
  <2>4. CASE Uniform
    BY <1>2, <1>3, <2>1, <2>2, <2>3, <2>4
  <2>5. CASE ~Uniform
    <3>1. size.height <= IMG_HEIGHT
      BY <1>1, <1>3, <2>5 DEF Coming, NotTaller, Uniform
    <3> QED BY <1>3, <2>1, <2>2, <2>5, <3>1
  <2> QED BY <2>4, <2>5
<1>4. CASE rgb = NULL
  <2>1. /\ IMG_WIDTH' = size.width /\ IMG_HEIGHT' = size.height
        /\ rgb' = [i \in 1..(size.width * size.height) |-> Garbage]
    BY <1>4 DEF Allocate
  <2>2. size.width * size.height \in Nat \ {0}
    BY <1>2
  <2> HIDE DEF size
  <2>3. Len(rgb') = size.width * size.height
    <3>1. rgb' \in [1..(size.width * size.height) -> {Garbage}]
      BY <2>1
    <3> QED BY <2>2, <3>1, LengthOf
  <2>4. rgb' # NULL
    BY <2>2, <2>3, NotEmpty
  <2>5. Uniform' => FitsFrames'
    <3> SUFFICES ASSUME Uniform, NEW other \in Frames[camera], Decodes(other)
                 PROVE  Start(other).frame.width = IMG_WIDTH'
                          /\ Start(other).frame.height = IMG_HEIGHT'
      BY DEF Uniform, FitsFrames
    <3>1. SizesAgree(frame, other)
      BY <1>0 DEF FramesAssumption, Uniform
    <3> QED BY <2>1, <3>1 DEF SizesAgree, size
  <2>6. Sized'
    BY <1>2, <2>1, <2>3, <2>4, <2>5 DEF Sized, size
  <2> QED BY <1>2, <2>1, <2>4, <2>6 DEF size
<1> QED BY <1>3, <1>4

LEMMA StartDecompressKeeps ==
  ASSUME FramesAssumption, ProcInv, StartDecompress
  PROVE  ProcInv'
<1>1. caller = "start" /\ UNCHANGED <<camera, id, jp, bmp, ret, wild, last>>
  BY DEF StartDecompress
<1>2. PICK frame \in Frames[camera] :
        Coming(frame) /\ ~Header(frame).error /\ mycinfo = Prepared(Header(frame))
  BY <1>1 DEF ProcInv, OfAFrame
<1>3. IF Start(frame).error THEN Destroyed /\ UNCHANGED <<image, y>>
      ELSE /\ mycinfo' = Start(frame) /\ caller' = "lines"
           /\ y' = 0 /\ Allocate(Start(frame))
  BY <1>2 DEF StartDecompress, Start
<1>4. CASE Start(frame).error
  <2>1. caller' = "copy" /\ UNCHANGED <<image, y>>
    BY <1>3, <1>4 DEF Destroyed
  <2>2. OfAFrame'
    BY <2>1 DEF OfAFrame
  <2>3. SoundIsRead'
    BY <1>1, <1>4 DEF SoundIsRead, FramesAssumption, Decodes, ProcInv, Types
  <2> QED BY <1>1, <2>1, <2>2, <2>3, Between DEF ProcInv
<1>5. CASE ~Start(frame).error
  <2>1. /\ mycinfo' = Start(frame) /\ caller' = "lines"
        /\ y' = 0 /\ Allocate(Start(frame))
    BY <1>3, <1>5
  <2>2. Decodes(frame)
    BY <1>2, <1>5 DEF Decodes
  <2>3. StartsAtTheTop(frame)
    BY DEF FramesAssumption, ProcInv, Types
  <2>4. mycinfo' \in Decoding /\ mycinfo'.output_scanline = 0
    BY <2>1, <2>2, <2>3 DEF StartsAtTheTop
  <2>5. mycinfo'.frame.height \in Nat
    BY <2>4 DEF FramesAssumption, EveryLineComes, IsSize
  <2>6. /\ rgb' # NULL /\ Sized' /\ mycinfo'.frame.height <= IMG_HEIGHT'
        /\ Uniform => /\ mycinfo'.frame.width = IMG_WIDTH'
                      /\ mycinfo'.frame.height = IMG_HEIGHT'
    BY <1>1, <1>2, <2>1, <2>2, AllocateKeeps
  <2>7. y' = IMG_WIDTH' * mycinfo'.output_scanline
    <3>1. IMG_WIDTH' \in Nat
      BY <2>6 DEF Sized
    <3>2. IMG_WIDTH' * 0 = 0
      BY <3>1, TimesZero
    <3> QED BY <2>1, <2>4, <3>2
  <2>8. InLines'
    BY <1>1, <2>4, <2>5, <2>6, <2>7 DEF InLines, Uniform
  <2>9. LinesSoFar'
    BY <2>1, <2>4 DEF LinesSoFar, Shows
  <2>10. Types'
    BY <1>1, <2>1 DEF ProcInv, Types
  <2>11. OfAFrame' /\ LastFrame' /\ SoundIsRead' /\ WholeBitmap'
    BY <2>1 DEF OfAFrame, LastFrame, SoundIsRead, WholeBitmap
  <2> QED BY <2>6, <2>8, <2>9, <2>10, <2>11 DEF ProcInv
<1> QED BY <1>4, <1>5

LEMMA FinishKeeps ==
  ASSUME FramesAssumption, ProcInv, Finish
  PROVE  ProcInv'
<1>1. /\ caller = "lines" /\ mycinfo.output_scanline >= mycinfo.frame.height
      /\ caller' = "copy"
      /\ UNCHANGED <<camera, id, image, y, jp, bmp, ret, wild, last>>
  BY DEF Finish, Destroyed
<1>2. UNCHANGED <<rgb, IMG_WIDTH, IMG_HEIGHT>>
  BY <1>1 DEF image
<1>3. InLines /\ Sized /\ LinesSoFar
  BY DEF ProcInv
<1>4. rgb # NULL /\ mycinfo \in Decoding
  BY <1>1, <1>3 DEF InLines
<1>5. /\ mycinfo.frame.height \in Nat \ {0} /\ mycinfo.output_scanline \in Nat
      /\ mycinfo.output_scanline = mycinfo.frame.height
  BY <1>1, <1>3, <1>4 DEF InLines, FramesAssumption, EveryLineComes, IsSize
<1>6. LastFrame'
  <2> SUFFICES ASSUME Uniform PROVE Shows(rgb, last, IMG_WIDTH, Len(rgb))
    BY <1>1, <1>2 DEF LastFrame, Uniform, Shows
  <2>1. y = IMG_WIDTH * IMG_HEIGHT
    BY <1>1, <1>3, <1>5 DEF InLines
  <2>2. y = Len(rgb)
    BY <1>3, <1>4, <2>1, Allocated
  <2>3. Shows(rgb, id, IMG_WIDTH, y) /\ last = id
    BY <1>1, <1>3, <1>5 DEF LinesSoFar
  <2> QED BY <2>2, <2>3
<1>7. Types'
  BY <1>1 DEF ProcInv, Types
<1>8. Sized'
  BY <1>1, <1>2, <1>3 DEF Sized, FitsFrames, Uniform
<1>9. SoundIsRead'
  BY <1>2, <1>4 DEF SoundIsRead
<1>10. OfAFrame' /\ InLines' /\ LinesSoFar' /\ WholeBitmap'
  BY <1>1 DEF OfAFrame, InLines, LinesSoFar, WholeBitmap
<1> QED BY <1>6, <1>7, <1>8, <1>9, <1>10 DEF ProcInv

LEMMA CopyKeeps ==
  ASSUME FramesAssumption, ProcInv, Copy
  PROVE  ProcInv'
<1>1. /\ caller = "copy" /\ caller' = "idle" /\ jp' = FALSE
      /\ UNCHANGED <<camera, id, image, y, last>>
  BY DEF Copy
<1>2. UNCHANGED <<rgb, IMG_WIDTH, IMG_HEIGHT>>
  BY <1>1 DEF image
<1>3. Sized /\ Types /\ SoundIsRead /\ LastFrame
  BY DEF ProcInv
<1>4. Sized' /\ LastFrame'
  BY <1>1, <1>2, <1>3 DEF Sized, LastFrame, FitsFrames, Uniform, Shows
<1>5. OfAFrame' /\ InLines' /\ LinesSoFar' /\ SoundIsRead'
  BY <1>1 DEF OfAFrame, InLines, LinesSoFar, SoundIsRead
<1>6. CASE SameSize
  <2>1. bmp' = [bmp EXCEPT !.pixels = Copied] /\ ret' = 0
        /\ wild' = (wild \/ IMG_WIDTH * IMG_HEIGHT > Len(rgb))
    BY <1>6 DEF Copy
  <2>2. rgb # NULL
    BY <1>1, <1>3, <1>6 DEF Sized, SoundIsRead, SameSize, Types
  <2>3. /\ IMG_WIDTH * IMG_HEIGHT \in Nat /\ Len(rgb) = IMG_WIDTH * IMG_HEIGHT
    BY <1>3, <2>2, Allocated
  <2>4. bmp' = [width |-> bmp.width, height |-> bmp.height, pixels |-> Copied]
    <3>1. bmp = [width |-> bmp.width, height |-> bmp.height, pixels |-> bmp.pixels]
      BY <1>3 DEF Types
    <3> QED BY <2>1, <3>1
  <2>5. wild' = FALSE
    <3>1. ~(IMG_WIDTH * IMG_HEIGHT > Len(rgb))
      BY <2>3
    <3> QED BY <1>3, <2>1, <3>1, Zenon DEF Types
  <2>6. Types'
    <3>1. /\ bmp'.width \in Nat /\ bmp'.height \in Nat
          /\ bmp' = [width |-> bmp'.width, height |-> bmp'.height, pixels |-> bmp'.pixels]
      BY <1>3, <2>4 DEF Types
    <3> QED BY <1>1, <1>3, <2>1, <2>5, <3>1 DEF Types
  <2>7. WholeBitmap'
    <3> SUFFICES ASSUME Uniform
                 PROVE  /\ Len(Copied) = bmp.width * bmp.height
                        /\ Shows(Copied, last, bmp.width, Len(Copied))
      BY <1>1, <2>4 DEF WholeBitmap, Uniform, Shows
    <3>1. bmp.width = IMG_WIDTH /\ bmp.height = IMG_HEIGHT
      BY <1>6 DEF SameSize
    <3>2. \A i \in 1..Len(rgb) : Copied[i] = rgb[i]
      BY <2>3 DEF Copied
    <3>3. Len(Copied) = Len(rgb)
      <4>1. Copied \in [1..Len(rgb) -> {Copied[i] : i \in 1..Len(rgb)}]
        BY <2>3 DEF Copied
      <4> QED BY <2>3, <4>1, LengthOf
    <3>4. Shows(rgb, last, IMG_WIDTH, Len(rgb))
      BY <1>1, <1>3, <2>2 DEF LastFrame
    <3> QED BY <2>3, <3>1, <3>2, <3>3, <3>4 DEF Shows
  <2> QED BY <1>4, <1>5, <2>6, <2>7 DEF ProcInv
<1>7. CASE ~SameSize
  <2>1. ret' = -1 /\ bmp' = bmp /\ wild' = wild
    BY <1>7 DEF Copy
  <2>2. Types'
    BY <1>1, <1>3, <2>1 DEF Types
  <2>3. WholeBitmap'
    BY <2>1 DEF WholeBitmap
  <2> QED BY <1>4, <1>5, <2>2, <2>3 DEF ProcInv
<1> QED BY <1>6, <1>7

(* The line at y is the next one, and lies inside rgb.                     *)
LEMMA LineInside ==
  ASSUME NEW w \in Nat \ {0}, NEW h \in Nat \ {0}, NEW q \in 0..(h - 1)
  PROVE  /\ w * q \in Nat /\ w * h \in Nat /\ w * (q + 1) = (w * q) + w
         /\ (w * q) + w <= w * h
<1>1. w * (q + 1) <= w * h
  BY TimesMonotonic
<1>2. w * (q + 1) = (w * q) + w
  OBVIOUS
<1> QED BY <1>1, <1>2

LEMMA ReadLineKeeps ==
  ASSUME FramesAssumption, ProcInv, ReadLine
  PROVE  ProcInv'
<1> DEFINE q == mycinfo.output_scanline
           w == IMG_WIDTH
<1>1. /\ caller = "lines" /\ q < mycinfo.frame.height
      /\ UNCHANGED <<camera, id, jp, bmp, ret>>
  BY DEF ReadLine
<1>2. InLines /\ Sized /\ LinesSoFar /\ Types
  BY DEF ProcInv
<1>3. /\ rgb # NULL /\ mycinfo \in Decoding /\ y = w * q
      /\ mycinfo.frame.height <= IMG_HEIGHT
      /\ Uniform => mycinfo.frame.width = w /\ mycinfo.frame.height = IMG_HEIGHT
  BY <1>1, <1>2 DEF InLines
<1>4. PICK r \in {jpeg_read_scanlines(mycinfo)} :
        /\ ~r.error /\ r.emitted # <<>> /\ r.output_scanline = q + 1
        /\ Taken(r) \in Decoding /\ Taken(r).frame = mycinfo.frame
        /\ Taken(r).output_scanline = q + 1
  BY <1>1, <1>3 DEF FramesAssumption, EveryLineComes
<1>5. mycinfo.frame.width \in Nat \ {0} /\ mycinfo.frame.height \in Nat \ {0} /\ q \in Nat
  BY <1>3 DEF FramesAssumption, EveryLineComes, IsSize
<1> DEFINE line == [frame |-> id, line |-> q + 1]
<1>6. /\ mycinfo' = Taken(r) /\ caller' = "lines"
      /\ rgb' = WithLine(line, Columns) /\ y' = NextLine
      /\ wild' = (wild \/ \E x \in Columns : y + x \notin 0..(Len(rgb) - 1))
      /\ last' = id /\ UNCHANGED <<IMG_WIDTH, IMG_HEIGHT>>
  BY <1>1, <1>4 DEF ReadLine
<1>7. w \in Nat \ {0} /\ IMG_HEIGHT \in Nat \ {0} /\ Len(rgb) = w * IMG_HEIGHT
  BY <1>2, <1>3, Allocated
<1>8. q \in 0..(IMG_HEIGHT - 1)
  BY <1>1, <1>3, <1>5, <1>7
<1> HIDE DEF q, w
<1>9. /\ y \in Nat /\ Len(rgb) \in Nat /\ w * (q + 1) = y + w /\ y + w <= Len(rgb)
  BY <1>3, <1>7, <1>8, LineInside
<1>10. Columns \subseteq 0..(w - 1)
  BY DEF Columns, w
<1>11. wild' = FALSE
  <2>1. ~ \E x \in Columns : y + x \notin 0..(Len(rgb) - 1)
    BY <1>7, <1>9, <1>10
  <2> QED BY <1>2, <1>6, <2>1, Zenon DEF Types
<1>12. Len(rgb') = Len(rgb)
  <2>1. rgb' \in [1..Len(rgb) -> {rgb'[i] : i \in 1..Len(rgb)}]
    BY <1>6 DEF WithLine
  <2> QED BY <1>9, <2>1, LengthOf
<1>13. Types'
  BY <1>1, <1>2, <1>6, <1>11 DEF Types
<1>14. rgb' # NULL
  BY <1>7, <1>9, <1>12, NotEmpty
<1>15. Sized'
  BY <1>1, <1>2, <1>3, <1>6, <1>12, <1>14 DEF Sized, FitsFrames, Uniform
<1>16. y' = y + w
  BY <1>6 DEF NextLine, w
<1>17. InLines'
  <2>1. y' = IMG_WIDTH' * mycinfo'.output_scanline
    BY <1>4, <1>6, <1>9, <1>16 DEF w
  <2>2. mycinfo'.output_scanline <= mycinfo'.frame.height
    BY <1>1, <1>4, <1>5, <1>6 DEF q
  <2> QED BY <1>1, <1>3, <1>4, <1>6, <1>14, <2>1, <2>2 DEF InLines, Uniform, w
<1>18. LinesSoFar'
  <2> SUFFICES ASSUME Uniform, NEW i \in 1..(y + w)
               PROVE  rgb'[i] = [frame |-> id, line |-> ((i - 1) \div w) + 1]
    BY <1>1, <1>6, <1>16 DEF LinesSoFar, Uniform, Shows, w
  <2>1. i \in 1..Len(rgb)
    BY <1>7, <1>9
  <2>2. rgb'[i] = IF i - 1 - y \in Columns THEN line ELSE rgb[i]
    BY <1>6, <2>1 DEF WithLine
  <2>3. Columns = 0..(w - 1)
    BY <1>3, <1>7 DEF Columns, w
  <2>4. CASE i <= y
    <3>1. i - 1 - y \notin Columns
      BY <1>9, <2>3, <2>4
    <3>2. rgb[i] = [frame |-> id, line |-> ((i - 1) \div w) + 1]
      BY <1>1, <1>2, <1>9, <2>4 DEF LinesSoFar, Shows, w
    <3> QED BY <2>2, <3>1, <3>2
  <2>5. CASE i > y
    <3>1. i - 1 - y \in 0..(w - 1)
      BY <1>7, <1>9, <2>5
    <3>2. (i - 1) \div w = q
      <4> DEFINE x == i - 1 - y
      <4>1. i - 1 = (w * q) + x /\ x \in 0..(w - 1)
        BY <1>3, <1>9, <3>1
      <4> HIDE DEF x
      <4>2. ((w * q) + x) \div w = q
        <5>1. q \in Int /\ w \in Nat \ {0}
          BY <1>5, <1>7
        <5> QED BY <4>1, <5>1, LineOfPixel, Zenon
      <4> QED BY <4>1, <4>2
    <3> QED BY <2>2, <2>3, <3>1, <3>2
  <2> QED BY <1>9, <2>4, <2>5
<1>19. OfAFrame' /\ LastFrame' /\ SoundIsRead' /\ WholeBitmap'
  BY <1>6 DEF OfAFrame, LastFrame, SoundIsRead, WholeBitmap
<1> QED BY <1>13, <1>15, <1>17, <1>18, <1>19 DEF ProcInv

LEMMA FreeKeeps ==
  ASSUME FramesAssumption, ProcInv, freeCameraMemory
  PROVE  ProcInv'
<1>1. /\ camera = "sound" /\ caller = "idle" /\ rgb' = NULL
      /\ UNCHANGED <<camera, caller, mycinfo, id, IMG_WIDTH, IMG_HEIGHT, y, jp, bmp, ret, wild,
                     last>>
  BY DEF freeCameraMemory
<1>2. Types'
  BY <1>1 DEF ProcInv, Types
<1>3. Sized' /\ LastFrame'
  BY <1>1 DEF Sized, LastFrame
<1>4. OfAFrame' /\ InLines' /\ LinesSoFar' /\ SoundIsRead'
  BY <1>1 DEF OfAFrame, InLines, LinesSoFar, SoundIsRead
<1>5. WholeBitmap'
  BY <1>1 DEF ProcInv, WholeBitmap, Uniform, Shows
<1> QED BY <1>2, <1>3, <1>4, <1>5 DEF ProcInv
-----------------------------------------------------------------------------
LEMMA ProcInvStep ==
  ASSUME FramesAssumption, ProcInv, [Next]_vars
  PROVE  ProcInv'
<1>1. CASE pixeltobmp
  BY <1>1, PixelToBmpKeeps
<1>2. CASE ReadHeader
  BY <1>2, ReadHeaderKeeps
<1>3. CASE StartDecompress
  BY <1>3, StartDecompressKeeps
<1>4. CASE ReadLine
  BY <1>4, ReadLineKeeps
<1>5. CASE Finish
  BY <1>5, FinishKeeps
<1>6. CASE Copy
  BY <1>6, CopyKeeps
<1>7. CASE freeCameraMemory
  BY <1>7, FreeKeeps
<1>8. CASE UNCHANGED vars
  <2>1. UNCHANGED <<camera, caller, mycinfo, id, rgb, IMG_WIDTH, IMG_HEIGHT, y, jp, bmp, ret,
                    wild, last>>
    BY <1>8 DEF vars, image
  <2>2. Types' /\ Sized' /\ OfAFrame' /\ InLines'
    BY <2>1 DEF ProcInv, Types, Sized, FitsFrames, Uniform, OfAFrame, Coming, NotTaller,
               InLines
  <2>3. LinesSoFar' /\ LastFrame' /\ SoundIsRead' /\ WholeBitmap'
    BY <2>1 DEF ProcInv, LinesSoFar, LastFrame, SoundIsRead, WholeBitmap, Uniform, Shows
  <2> QED BY <2>2, <2>3 DEF ProcInv
<1> QED BY <1>1, <1>2, <1>3, <1>4, <1>5, <1>6, <1>7, <1>8 DEF Next, Decode

LEMMA ProcInvAlways ==
  ASSUME FramesAssumption
  PROVE  Spec => []ProcInv
<1>1. Init => ProcInv
  BY ProcInvInit
<1>2. ProcInv /\ [Next]_vars => ProcInv'
  BY ProcInvStep
<1> QED BY <1>1, <1>2, PTL DEF Spec

(* With frames of one size, among them such as do not decode, a call that  *)
(* returns 0 has given one whole picture of the size of the bitmap, every  *)
(* line in its place: its own frame or the last that decoded               *)
(* (ImageProc.c:274-308).                                                  *)
THEOREM WholePictureAlways ==
  ASSUME FramesAssumption
  PROVE  Spec => []WholePicture
<1>1. ProcInv => WholePicture
  <2> SUFFICES ASSUME ProcInv PROVE WholePicture
    OBVIOUS
  <2>1. rgb = NULL \/ Len(rgb) = IMG_WIDTH * IMG_HEIGHT
    BY DEF ProcInv, Sized
  <2>2. RgbTypeOK
    BY <2>1 DEF ProcInv, Types, FramesAssumption, RgbTypeOK
  <2> QED BY <2>2 DEF ProcInv, WholeBitmap, Uniform, Shows, WholePicture
<1>2. Spec => []ProcInv
  BY ProcInvAlways
<1> QED BY <1>1, <1>2, PTL

(* Nothing outside rgb is read or written, with frames of any sizes none   *)
(* of which is higher than the first, and lines go where the decompressor  *)
(* counts them (ImageProc.c:219-240).                                      *)
THEOREM StaysInRgbAlways ==
  ASSUME FramesAssumption
  PROVE  Spec => []StaysInRgb
<1>1. ProcInv => StaysInRgb
  BY DEF ProcInv, Types, InLines, StaysInRgb, InStepWithDecompressor
<1>2. Spec => []ProcInv
  BY ProcInvAlways
<1> QED BY <1>1, <1>2, PTL
=============================================================================
