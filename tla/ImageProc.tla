------------------------------ MODULE ImageProc ------------------------------
(***************************************************************************)
(* ImageProc.c: the decoder behind MjpegInputStreamNative. A frame is      *)
(* decompressed line by line into the global array rgb, which is allocated *)
(* for the first frame that gets that far, and copied to the bitmap of the *)
(* caller if its size is that of rgb.                                      *)
(*                                                                         *)
(* The calls of the decompressor are parameters. Its source is the array   *)
(* of the caller: what it does not hold never comes, and a call that needs *)
(* it is suspended.                                                        *)
(***************************************************************************)
EXTENDS RgbImage

CONSTANTS
  jpeg_create_decompress(_, _), jpeg_read_header(_, _),
  jpeg_start_decompress(_), jpeg_read_scanlines(_),
  Frames,        (* by camera, the arrays tried: sequences of items        *)
  Bitmaps,       (* sizes of the bitmaps tried                             *)
  Decoding       (* decompressors of which every line will come            *)

VARIABLE jpegbuffer    (* the line read last                               *)

image == <<rgb, IMG_WIDTH, IMG_HEIGHT>>
vars == <<camera, caller, mycinfo, id, jpegbuffer, image, y, jp, bmp, ret, wild, last>>

Created(frame) == jpeg_create_decompress(frame, Len(frame))
NoObject == Created(<<>>)
Garbage == [frame |-> -1, line |-> 0]

(* The parameters processimage sets when the header has been read.         *)
Prepared(d) == [d EXCEPT !.jpeg_color_space = "YCbCr"]

(* The line a call has emitted is taken.                                   *)
Taken(d) == [d EXCEPT !.emitted = <<>>]

Init ==
  /\ camera \in DOMAIN Frames
  /\ caller = "idle" /\ mycinfo = NoObject /\ id = 0 /\ jpegbuffer = Garbage
  /\ rgb = NULL /\ IMG_WIDTH = -1 /\ IMG_HEIGHT = -1
  /\ y = 0 /\ jp = FALSE /\ bmp = NoBitmap /\ ret = 0 /\ wild = FALSE /\ last = -1
-----------------------------------------------------------------------------
NotTaller(frame) ==
  rgb # NULL => \A i \in 1..Len(frame) : frame[i].height <= IMG_HEIGHT

(* pixeltobmp is called with an array and a bitmap.                        *)
pixeltobmp ==
  /\ caller = "idle"
  /\ \E frame \in Frames[camera], size \in Bitmaps :
       /\ camera = "sizes" => NotTaller(frame)
       /\ mycinfo' = Created(frame)
       /\ bmp' = [width |-> size[1], height |-> size[2], pixels |-> <<>>]
  /\ id' = (id + 1) % Ids /\ jp' = TRUE /\ caller' = "header"
  /\ UNCHANGED <<camera, jpegbuffer, image, y, ret, wild, last>>

(* Mutant: after an error exit processimage begins anew.                   *)
Retried ==
  mycinfo' = jpeg_create_decompress(mycinfo.stream, mycinfo.avail) /\ caller' = "header"

(* my_error_exit jumps back into processimage, which destroys the object   *)
(* and returns, like one that came to its end.                             *)
Destroyed == mycinfo' = NoObject /\ caller' = "copy"

(* Whether the header was read is not looked at.                           *)
ReadHeader ==
  /\ caller = "header"
  /\ \E d \in {jpeg_read_header(mycinfo, TRUE)} :
        IF d.error THEN Destroyed
        ELSE mycinfo' = Prepared(d) /\ caller' = "start"
  /\ UNCHANGED <<camera, id, jpegbuffer, image, y, jp, bmp, ret, wild, last>>

(* rgb is allocated for the first frame and keeps its size.                *)
Allocate(d) ==
  IF rgb # NULL THEN UNCHANGED image
  ELSE /\ IMG_WIDTH' = d.frame.width /\ IMG_HEIGHT' = d.frame.height
       /\ rgb' = [i \in 1..(d.frame.width * d.frame.height) |-> Garbage]

(* Whether the decompressor has started is not looked at.                  *)
StartDecompress ==
  /\ caller = "start"
  /\ \E d \in {jpeg_start_decompress(mycinfo)} :
        IF d.error THEN Destroyed /\ UNCHANGED <<jpegbuffer, image, y>>
        ELSE /\ mycinfo' = d /\ caller' = "lines"
             /\ y' = 0 /\ jpegbuffer' = Garbage /\ Allocate(d)
  /\ UNCHANGED <<camera, id, jp, bmp, ret, wild, last>>

(* Mutant: as many columns as the frame has.                               *)
FrameColumns == 0..(mycinfo.frame.width - 1)

(* The columns of a line that are copied.                                  *)
Columns == {x \in 0..(IMG_WIDTH - 1) : x < mycinfo.frame.width}

NextLine == y + IMG_WIDTH

(* rgb with a line at y; what would be outside it is left out.             *)
WithLine(pixel, columns) ==
  [i \in 1..Len(rgb) |-> IF i - 1 - y \in columns THEN pixel ELSE rgb[i]]

(* A line is read and written to rgb, the one read before if none was. It  *)
(* is not looked at how many lines the call has read.                      *)
ReadLine ==
  /\ caller = "lines" /\ mycinfo.output_scanline < mycinfo.frame.height
  /\ \E d \in {jpeg_read_scanlines(mycinfo)} :
     \E line \in {IF d.emitted = <<>> THEN jpegbuffer
                  ELSE [frame |-> id, line |-> d.output_scanline]} :
       IF d.error
       THEN Destroyed /\ UNCHANGED <<jpegbuffer, image, y, wild, last>>
       ELSE /\ mycinfo' = Taken(d) /\ caller' = caller /\ jpegbuffer' = line
            /\ rgb' = WithLine(line, Columns) /\ y' = NextLine
            /\ wild' = (wild \/ \E x \in Columns : y + x \notin 0..(Len(rgb) - 1))
            /\ last' = id
            /\ UNCHANGED <<IMG_WIDTH, IMG_HEIGHT>>
  /\ UNCHANGED <<camera, id, jp, bmp, ret>>

(* What jpeg_finish_decompress returns is not looked at, and the object is *)
(* destroyed.                                                              *)
Finish ==
  /\ caller = "lines" /\ mycinfo.output_scanline >= mycinfo.frame.height
  /\ Destroyed
  /\ UNCHANGED <<camera, id, jpegbuffer, image, y, jp, bmp, ret, wild, last>>

SameSize == bmp.width = IMG_WIDTH /\ bmp.height = IMG_HEIGHT

(* Mutant: rgb is copied upside down.                                      *)
Reversed ==
  [i \in 1..(IMG_WIDTH * IMG_HEIGHT) |->
     IF Len(rgb) + 1 - i \in 1..Len(rgb) THEN rgb[Len(rgb) + 1 - i] ELSE Garbage]

(* The pixels that are copied.                                             *)
Copied ==
  [i \in 1..(IMG_WIDTH * IMG_HEIGHT) |-> IF i \in 1..Len(rgb) THEN rgb[i] ELSE Garbage]

Copy ==
  /\ caller = "copy"
  /\ IF SameSize
     THEN /\ bmp' = [bmp EXCEPT !.pixels = Copied] /\ ret' = 0
          /\ wild' = (wild \/ IMG_WIDTH * IMG_HEIGHT > Len(rgb))
     ELSE ret' = -1 /\ UNCHANGED <<bmp, wild>>
  /\ jp' = FALSE /\ caller' = "idle"
  /\ UNCHANGED <<camera, mycinfo, id, jpegbuffer, image, y, last>>

freeCameraMemory ==
  /\ camera = "sound" /\ caller = "idle"
  /\ rgb' = NULL
  /\ UNCHANGED <<camera, caller, mycinfo, id, jpegbuffer, IMG_WIDTH, IMG_HEIGHT, y, jp,
                 bmp, ret, wild, last>>

-----------------------------------------------------------------------------
(* What is assumed of the calls and of the frames. A frame that gets past  *)
(* its header and its start is one of the decompressors of which every     *)
(* line comes: each call reads one and counts it. So a frame may be broken *)
(* where it shows before the first line, but not cut off after that; the   *)
(* cameras differ as RgbImage says.                                        *)
Header(frame) == jpeg_read_header(Created(frame), TRUE)
Start(frame) == jpeg_start_decompress(Prepared(Header(frame)))
Decodes(frame) == ~Header(frame).error /\ ~Start(frame).error

IsSize(frame) == frame.width \in Nat \ {0} /\ frame.height \in Nat \ {0}

EveryLineComes ==
  \A d \in Decoding :
    /\ IsSize(d.frame) /\ d.output_scanline \in Nat
    /\ d.output_scanline < d.frame.height =>
         \E r \in {jpeg_read_scanlines(d)} :
           /\ ~r.error /\ r.emitted # <<>> /\ r.output_scanline = d.output_scanline + 1
           /\ Taken(r) \in Decoding /\ Taken(r).frame = d.frame
           /\ Taken(r).output_scanline = r.output_scanline

StartsAtTheTop(frame) ==
  Decodes(frame) =>
    /\ Start(frame) \in Decoding /\ Start(frame).output_scanline = 0
    /\ \E i \in 1..Len(frame) : Start(frame).frame = frame[i]

SizesAgree(frame, other) ==
  Decodes(frame) /\ Decodes(other) =>
    /\ Start(frame).frame.width = Start(other).frame.width
    /\ Start(frame).frame.height = Start(other).frame.height

FramesAssumption ==
  /\ Ids \in Nat \ {0} /\ Bitmaps \subseteq Nat \X Nat
  /\ DOMAIN Frames \subseteq {"sound", "odd", "sizes"}
  /\ EveryLineComes
  /\ \A c \in DOMAIN Frames : \A frame \in Frames[c] :
       /\ StartsAtTheTop(frame)
       /\ c = "sound" => Decodes(frame)
       /\ c # "sizes" => \A other \in Frames[c] : SizesAgree(frame, other)
-----------------------------------------------------------------------------
Decode == ReadHeader \/ StartDecompress \/ ReadLine \/ Finish \/ Copy

Next == pixeltobmp \/ Decode \/ freeCameraMemory

Spec == Init /\ [][Next]_vars

(* The thread goes on with a call it is in. This is WF_vars(Decode): a     *)
(* step of Decode can be taken whenever the thread is in a call, and only  *)
(* then, and always changes caller or y.                                   *)
CallGoesOn == []<>(caller = "idle") \/ []<><<caller # "idle">>_vars

LiveSpec == Spec /\ CallGoesOn
-----------------------------------------------------------------------------
(* Every call returns, whatever the array holds, unless it is cut short.   *)
Returns == (caller # "idle") ~> (caller = "idle")
=============================================================================
