----------------------------- MODULE MCDecoding -----------------------------
(***************************************************************************)
(* What decodes a frame, for TLC: the virtual arrays that hold its         *)
(* coefficients, the decompressor as an application calls it, ImageProc,   *)
(* which is one such application, the way of the rows to it, and the       *)
(* routines that make their samples. They are checked one at a time:       *)
(* `part' says which of them a behaviour is of, and the others rest in an  *)
(* initial state. Three bring their properties with them: the arrays (Inv,  *)
(* NoVirtualBug, IsPlainArray), the rows (RightRows of RowImage), and      *)
(* ImageProc (WholePicture, StaysInRgb of RgbImage).                       *)
(***************************************************************************)
EXTENDS VirtualArray, RowImage, RgbImage

CONSTANTS RowLines, Quantize, Ahead, Methods, QuantSteps

(* Streams of items: images of three lines, so two rows of MCUs and a line *)
(* of padding, and one of three full rows.                                 *)
Item(t) == [t |-> t, multi |-> FALSE, width |-> 0, height |-> 0, components |-> 0]
Header(wide, high, comps, multi) ==
  [t |-> "SOF", multi |-> multi, width |-> wide, height |-> high, components |-> comps]
Body(rows) == <<Item("SOS")>> \o [k \in 1..rows |-> Item("ROW")]
Picture(head, rows) == <<Item("SOI"), head>> \o Body(rows) \o <<Item("EOI")>>

Single == Picture(Header(2, 3, 3, FALSE), 2)
Double == <<Item("SOI"), Header(2, 3, 3, TRUE)>> \o Body(2) \o Body(2) \o <<Item("EOI")>>
Triple ==
  <<Item("SOI"), Header(2, 3, 3, TRUE)>> \o Body(2) \o Body(1) \o Body(2) \o <<Item("EOI")>>
Tall == <<Item("SOI"), Header(2, 6, 3, TRUE)>> \o Body(3) \o Body(3) \o <<Item("EOI")>>
Tables == <<Item("SOI"), Item("EOI")>>
ShortOfARow == Picture(Header(2, 3, 3, FALSE), 1)
Gray == Picture(Header(2, 3, 1, FALSE), 2)
TwoHeaders == <<Item("SOI"), Header(2, 3, 3, TRUE), Header(2, 3, 3, TRUE)>>
Cut(frame, n) == SubSeq(frame, 1, n)

(* A scan and an image of several after it, and the reverse; a scan short  *)
(* of a row; tables before an image.                                       *)
SoundStreams == {Single \o Double, Double \o Single, Triple, Tall, Tables \o Double}

(* Too many scans, no scan or an empty one, headers in the wrong order.    *)
OtherStreams ==
  SoundStreams \cup
    {Cut(Single, 5) \o <<Item("SOS"), Item("EOI")>>, Cut(Double, 2) \o <<Item("EOI")>>,
     <<Item("SOI"), Item("SOS")>>, <<Item("ROW"), Item("SOI")>>,
     <<Item("SOI"), Item("SOI")>>, TwoHeaders, Picture(Header(2, 3, 3, TRUE), 0)}

(* For ImageProc: frames that decode; frames that fail before the first    *)
(* line and leave rgb alone; frames lower, narrower and wider than rgb.    *)
SoundFrames == {Single, Double, ShortOfARow}
OddFrames == SoundFrames \cup {Gray, TwoHeaders, Tables, SubSeq(Single, 2, 6), <<>>,
                               Cut(Single, 1), Cut(Single, 2)}
OtherSizes == {Single, Double, Gray, Picture(Header(2, 2, 3, FALSE), 1),
               Picture(Header(1, 3, 3, FALSE), 2), Picture(Header(3, 3, 3, FALSE), 2)}
Bitmaps == {<<2, 3>>, <<3, 2>>, <<1, 3>>}

(* Rows of images from one row to more than three iMCU rows, so that the   *)
(* last one ends at every row of a row group: with the upsamplers of this  *)
(* version, on rows up to two high, and with one that needs context rows.  *)
Images(upsamplers, posts, ms, vs, subsampled, heights) ==
  {[M |-> m, v |-> v, rgroup |-> <<v, s>>, height |-> h, upsampler |-> u, post |-> p] :
     u \in upsamplers, p \in posts, m \in ms, v \in vs, s \in subsampled, h \in heights}

AllImages ==
  Images({"separate", "merged"}, {"direct", "onepass", "twopass"}, {1, 2}, {1, 2}, {1}, 1..9)
    \cup Images({"separate"}, {"direct", "onepass"}, {1}, {4}, {1, 2}, 1..9)
    \cup Images({"context"}, {"direct", "onepass"}, {2, 3}, {2}, {1}, 1..20)
    \cup Images({"context"}, {"twopass"}, {2}, {2}, {1}, 1..14)
    \cup Images({"context"}, {"direct"}, {2}, {4}, {2}, 1..17)

(* Every scaled size there is an inverse DCT routine for, two there is     *)
(* none for, and coefficients of an image: a DC term and one frequency, or *)
(* a block of which none is zero.                                          *)
AllScalings ==
  {<<n, n>> : n \in 1..16}
    \cup {<<2 * n, n>> : n \in 1..8} \cup {<<n, 2 * n>> : n \in 1..8}
    \cup {<<16, 4>>, <<9, 8>>}

Wave(dc, u, v, a) ==
  [row \in 0..7 |-> [column \in 0..7 |->
     IF <<row, column>> = <<u, v>> THEN a ELSE IF row + column = 0 THEN dc ELSE 0]]

Dense(sign) ==
  [row \in 0..7 |-> [column \in 0..7 |->
     sign * (((29 * row + 17 * column) % 23) - 11)
       + (IF row + column = 0 THEN 40 ELSE 0)]]

AllBlocks ==
  {Wave(dc, 0, 0, dc) : dc \in {-1000, -200, -3, 0, 1, 100, 201, 1000}}
    \cup {Wave(17, k, 0, 90) : k \in 1..7}
    \cup {Wave(-30, 0, k, -90) : k \in 1..7}
    \cup {Wave(0, k, 8 - k, 700) : k \in 1..7}
    \cup {Wave(9, 7, 7, -50), Dense(1), Dense(-1)}
-----------------------------------------------------------------------------
VARIABLES
  part,
  d, step, out,
  jpegbuffer,
  main, ups, post,
  idct, size, routine, quantval, dct_table, block, workspace, samples

Manual == INSTANCE DecompressorApi WITH
  Streams <- SoundStreams, Anything <- FALSE, Buffered <- BOOLEAN, Targets <- {99}
AnyCalls == INSTANCE DecompressorApi WITH
  Streams <- OtherStreams, Anything <- TRUE, Buffered <- BOOLEAN, Targets <- {0, 1, 2, 99}
NoCalls == INSTANCE DecompressorApi WITH
  Streams <- {<<>>}, Anything <- FALSE, Buffered <- {FALSE}, Targets <- {}

Calls == INSTANCE Decompressor

RECURSIVE WithLinesRead(_)
WithLinesRead(ds) ==
  LET next == {[Calls!jpeg_read_scanlines(e) EXCEPT !.emitted = <<>>] :
                 e \in {e \in ds : e.output_scanline < e.frame.height}}
  IN IF next \subseteq ds THEN ds ELSE WithLinesRead(ds \cup next)

Started(frame) ==
  Calls!jpeg_start_decompress(
    [Calls!jpeg_read_header(Calls!jpeg_create_decompress(frame, Len(frame)), TRUE)
       EXCEPT !.jpeg_color_space = "YCbCr"])

CameraFrames == [sound |-> SoundFrames, odd |-> OddFrames, sizes |-> OtherSizes]

Decoding ==
  WithLinesRead({e \in {Started(frame) : frame \in UNION {CameraFrames[c] :
                                                          c \in DOMAIN CameraFrames}} :
                   ~e.error})

Proc == INSTANCE ImageProc WITH
  jpeg_create_decompress <- Calls!jpeg_create_decompress,
  jpeg_read_header <- Calls!jpeg_read_header,
  jpeg_start_decompress <- Calls!jpeg_start_decompress,
  jpeg_read_scanlines <- Calls!jpeg_read_scanlines,
  Frames <- CameraFrames

Rows == INSTANCE RowPipeline WITH Configs <- AllImages
NoRows == INSTANCE RowPipeline WITH
  Configs <- Images({"separate"}, {"direct"}, {1}, {1}, {1}, {1})

Dct == INSTANCE InverseDct WITH
  pc <- idct, Scalings <- AllScalings, Blocks <- AllBlocks

ASSUME DecodingAssumption ==
  /\ Manual!RowLinesAssumption /\ Proc!FramesAssumption
    /\ Rows!ConfigsAssumption /\ Dct!InverseAssumption

array == <<pc, rows_in_mem, rowsperchunk, b_s_open, pre_zero, cur_start_row,
           first_undef_row, dirty, mem, file, req, held, i, file_offset>>
api == <<d, step, out>>
proc == <<camera, caller, mycinfo, id, jpegbuffer, rgb, IMG_WIDTH, IMG_HEIGHT, y, jp, bmp,
          ret, wild, last>>
pipeline == <<config, pass, main, ups, post, output_scanline, image, call>>
transform == <<idct, size, routine, quantval, dct_table, block, workspace, samples>>
parts == <<part, array, api, proc, pipeline, transform>>

DecodingInit ==
  /\ part \in {"array", "manual", "any calls", "proc", "rows", "dct"}
  /\ Init
  /\ CASE part = "manual" -> Manual!Init
       [] part = "any calls" -> AnyCalls!Init
       [] OTHER -> NoCalls!Init
  /\ Proc!Init /\ (part = "proc" \/ camera = "sound")
  /\ IF part = "rows" THEN Rows!Init ELSE NoRows!Init
  /\ Dct!Init

DecodingNext ==
  /\ UNCHANGED part
  /\ \/ part = "array" /\ Next /\ UNCHANGED <<api, proc, pipeline, transform>>
     \/ /\ \/ part = "manual" /\ Manual!Next
           \/ part = "any calls" /\ AnyCalls!Next
        /\ UNCHANGED <<array, proc, pipeline, transform>>
     \/ part = "proc" /\ Proc!Next /\ UNCHANGED <<array, api, pipeline, transform>>
     \/ part = "rows" /\ Rows!Next /\ UNCHANGED <<array, api, proc, transform>>
     \/ part = "dct" /\ Dct!Next /\ UNCHANGED <<array, api, proc, pipeline>>

DecodingSpec ==
  /\ DecodingInit /\ [][DecodingNext]_parts
  /\ Proc!CallGoesOn
  /\ part # "rows" \/ Rows!DataCome
-----------------------------------------------------------------------------
(* An application that follows the manual gets the whole picture of every  *)
(* image of a sound stream, and no error, and its calls are suspended only *)
(* for data that have not come (libjpeg.txt; jdapistd.c, jdcoefct.c,       *)
(* jdinput.c).                                                             *)
FinalPicture ==
  part # "any calls" =>
    /\ Manual!TypeOK /\ Manual!FinalPicture /\ Manual!ManualIsSafe
    /\ Manual!NeverWaitsInVain

(* Whatever an application calls and the stream holds: no call loops for   *)
(* ever, and no line shows less than its target (jdinput.c, jdcoefct.c).   *)
OutputKeepsStep == AnyCalls!NeverSpins /\ AnyCalls!InStep

(* Every call of pixeltobmp returns, unless its array is cut short         *)
(* (ImageProc.c:232).                                                      *)
ProcReturns == Proc!Returns

(* An application that calls again gets all rows in the end                *)
(* (jdapistd.c:115).                                                       *)
AllRowsCome == part = "rows" => <>(Len(image) = config.height)

(* Every inverse DCT routine gives the samples its size and coefficients   *)
(* call for, and a flat block the same brightness at every size; to leave  *)
(* the kernel out for what is zero but for its first entry changes nothing *)
(* (jidctint.c, jidctfst.c, jddctmgr.c).                                   *)
Accurate ==
  Dct!TypeOK /\ Dct!Accurate /\ Dct!SameBrightness /\ Dct!ShortcutsChangeNothing
=============================================================================
