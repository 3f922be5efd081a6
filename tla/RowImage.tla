------------------------------ MODULE RowImage -------------------------------
(***************************************************************************)
(* What an application of libjpeg is promised about the rows it reads,     *)
(* whatever brings them: the image as it has come so far, the rows of the  *)
(* components each of its rows was made from, and the count of lines.      *)
(* RowPipeline is what brings them.                                        *)
(***************************************************************************)
EXTENDS Integers, Sequences

VARIABLES
  config,   \* M: row groups in an iMCU row; v: max_v_samp_factor;
            \* rgroup: height of a row group by component; height:
            \* output_height; upsampler: "separate", "context" or "merged";
            \* post: "direct", "onepass" or "twopass"
  pass,     \* "prepass" of two-pass quantization, or "emit"
  output_scanline,
  image,    \* the rows the application was given
  call      \* of the last jpeg_read_scanlines: lines asked and got

CeilDiv(a, b) == ((a + b) - 1) \div b

Component == DOMAIN config.rgroup
R(c) == config.rgroup[c]
MaxV == config.v
Context == config.upsampler = "context"
DownsampledHeight(c) == CeilDiv(config.height * R(c), MaxV)

-----------------------------------------------------------------------------
(* The row of component c that output row y shows, and rows next to it.     *)
SourceRow(c, y) == (y * R(c)) \div MaxV

Clamped(c, r) ==
  IF r < 0 THEN 0
  ELSE IF r >= DownsampledHeight(c) THEN DownsampledHeight(c) - 1 ELSE r

Shown(c, y) == image[y + 1][c]

(* The row of the window of c's row group that is d rows from the one shown.*)
Near(c, y, d) == Shown(c, y).of[Shown(c, y).at + d]

(* Every row the application gets is made from the rows of its place in the *)
(* image: none is lost, repeated, taken from the iMCU row before or from    *)
(* the padding, however the calls cut the image.                            *)
RowsInPlace ==
  \A y \in 0 .. Len(image) - 1, c \in Component :
    Near(c, y, 0) = SourceRow(c, y)

(* With context rows, the rows just above and below it are its neighbours,  *)
(* the first and last row being their own; every other fill of the          *)
(* workspace, the wraparound and the bottom included.                       *)
NeighboursInPlace ==
  Context =>
    \A y \in 0 .. Len(image) - 1, c \in Component :
      R(c) < MaxV => \A d \in {-1, 1} :
        Near(c, y, d) = Clamped(c, SourceRow(c, y) + d)

(* Reading never goes past the bottom of the image, however many lines are  *)
(* asked for.                                                               *)
WithinImage ==
  /\ output_scanline <= config.height
  /\ pass = "emit" => Len(image) = output_scanline

(* A call that finds data returns lines, never more than asked for: an      *)
(* application that takes none for a suspension is right.                   *)
NeverEmptyHanded ==
  /\ call.got <= call.asked
  /\ call.ready => call.got > 0

(* Together: every row comes from its place in the image, with the right    *)
(* neighbours, none from below the bottom, and a call brings rows whenever  *)
(* data have come (jdmainct.c, jdpostct.c, jdmerge.c, jdapistd.c:115).      *)
RightRows ==
  RowsInPlace /\ NeighboursInPlace /\ WithinImage /\ NeverEmptyHanded
=============================================================================
