------------------------------- MODULE RgbImage ------------------------------
(***************************************************************************)
(* What the caller of pixeltobmp is promised, whatever the camera sends:   *)
(* the global array rgb, into which frames are decompressed, the bitmap it *)
(* is copied to, and the count of lines. ImageProc is what fills them.     *)
(*                                                                         *)
(* A pixel is the frame it is of (a number that comes round after Ids      *)
(* frames) and its line.                                                   *)
(***************************************************************************)
EXTENDS Integers, Sequences

CONSTANT Ids     (* bound: after so many frames their numbers come round   *)

VARIABLES
  camera,        (* "sound": its frames decode and have one size, and the  *)
                 (* host may free the memory between them; "odd": so do    *)
                 (* those that decode; "sizes": their sizes differ, but    *)
                 (* none is higher than rgb                                *)
  caller,        (* where the caller of pixeltobmp is                      *)
  mycinfo,       (* the decompressor of processimage, or NoObject          *)
  id,            (* the number of the frame                                *)
  rgb,           (* the array, or NULL                                     *)
  IMG_WIDTH, IMG_HEIGHT,
  y,             (* where the next line is written                         *)
  jp,            (* TRUE: the elements of the array are held               *)
  bmp,           (* the bitmap: its size and pixels                        *)
  ret,           (* what the last call returned                            *)
  wild,          (* TRUE: something outside rgb was read or written        *)
  last           (* the last frame of which a line went into rgb           *)

NULL == <<>>
NoBitmap == [width |-> 0, height |-> 0, pixels |-> <<>>]
-----------------------------------------------------------------------------
RgbTypeOK ==
  /\ camera \in {"sound", "odd", "sizes"}
  /\ caller \in {"idle", "header", "start", "lines", "copy"}
  /\ id \in 0..(Ids - 1) /\ last \in -1..(Ids - 1)
  /\ ret \in {-1, 0} /\ jp \in BOOLEAN /\ wild \in BOOLEAN
  /\ rgb = NULL \/ Len(rgb) = IMG_WIDTH * IMG_HEIGHT
  /\ jp <=> caller # "idle"

(* What is returned with 0 is one whole picture of the size of the bitmap, *)
(* every line in its place: the frame of this call or, if that could not   *)
(* be decoded, the last one that could, and never a mixture                *)
(* (ImageProc.c:274-308).                                                  *)
WholePicture ==
  /\ RgbTypeOK
  /\ camera # "sizes" /\ caller = "idle" /\ ret = 0 /\ bmp # NoBitmap =>
       /\ Len(bmp.pixels) = bmp.width * bmp.height
       /\ \A i \in 1..Len(bmp.pixels) :
            bmp.pixels[i] = [frame |-> last, line |-> ((i - 1) \div bmp.width) + 1]

(* Each line of rgb is written where the decompressor says it is: y has    *)
(* kept in step with output_scanline (ImageProc.c:232-240).                *)
InStepWithDecompressor == caller = "lines" => y = IMG_WIDTH * mycinfo.output_scanline

(* Nothing outside rgb is read or written, and lines go where the          *)
(* decompressor counts them, as long as frames are whole, no frame is      *)
(* higher than the first, and the memory is not freed under a picture that *)
(* is then not replaced (ImageProc.c:219-240).                             *)
StaysInRgb == ~wild /\ InStepWithDecompressor
=============================================================================
