----------------------------- MODULE MCImageProc -----------------------------
(***************************************************************************)
(* ImageProc with an array that is cut short: a picture of two columns and *)
(* three lines, two rows of MCUs, of which the second and what follows it  *)
(* are missing.                                                            *)
(***************************************************************************)
EXTENDS RgbImage

CONSTANT RowLines
VARIABLE jpegbuffer

Item(t) == [t |-> t, multi |-> FALSE, width |-> 0, height |-> 0, components |-> 0]
OneScan ==
  [t |-> "SOF", multi |-> FALSE, width |-> 2, height |-> 3, components |-> 3]
Single ==
  <<Item("SOI"), OneScan, Item("SOS"), Item("ROW"), Item("ROW"), Item("EOI")>>

CutFrames == {Single, SubSeq(Single, 1, 4)}
Sizes == {<<2, 3>>, <<3, 2>>}

Calls == INSTANCE Decompressor

Proc == INSTANCE ImageProc WITH
  jpeg_create_decompress <- Calls!jpeg_create_decompress,
  jpeg_read_header <- Calls!jpeg_read_header,
  jpeg_start_decompress <- Calls!jpeg_start_decompress,
  jpeg_read_scanlines <- Calls!jpeg_read_scanlines,
  Frames <- [odd |-> CutFrames], Bitmaps <- Sizes, Decoding <- {}

ProcSpec == Proc!LiveSpec
=============================================================================
