--------------------------- MODULE DecompressorApi ---------------------------
(***************************************************************************)
(* An application that decompresses the images of a stream that arrives    *)
(* item by item: either as the manual tells it to, with or without         *)
(* buffered-image mode, repeating the calls that were suspended, or by     *)
(* any call at any time.                                                   *)
(***************************************************************************)
EXTENDS Decompressor, FiniteSets

CONSTANTS
  Streams,       (* streams tried: sequences of items                      *)
  Anything,      (* TRUE: any call at any time                             *)
  Buffered,      (* values of buffered_image tried                         *)
  Quantize,      (* two-pass quantization tried                            *)
  Ahead,         (* bound: items the source holds that have not been read  *)
  Targets        (* scan numbers asked for, besides the current one        *)

VARIABLES
  d,             (* the decompressor                                       *)
  step,          (* where in the manual's loop the application is          *)
  out            (* the lines of the output pass so far                    *)

vars == <<d, step, out>>

Init ==
  /\ \E stream \in Streams : d = jpeg_create_decompress(stream, 0)
  /\ step = "header" /\ out = <<>>

(* More data in the source.                                                *)
Arrive ==
  /\ ~d.error /\ d.avail < Len(d.stream) /\ d.avail - d.pos < Ahead
  /\ d' = [d EXCEPT !.avail = @ + 1, !.ret = ""] /\ UNCHANGED <<step, out>>

May(s) == ~d.error /\ (step = s \/ (Anything /\ step # "end"))

(* The outcome of a call, where it leads, and the lines it brought.        *)
Call(result, next) ==
  \E r \in {result} :
    /\ d' = Taken(r)
    /\ step' = (IF r.error THEN "end" ELSE next)
    /\ out' = (IF r.global_state = "SCANNING" /\ d.global_state # "SCANNING"
               THEN <<>> ELSE out \o r.emitted)

MoreImages(e) == e.pos < Len(e.stream)

ReadHeader ==
  /\ May("header")
  /\ \E require_image \in (IF Anything THEN BOOLEAN ELSE {FALSE}) :
     \E buffered \in Buffered, quantize \in Quantize :
     \E r \in {jpeg_read_header(d, require_image)} :
          IF ~r.error /\ r.ret = "sos"
          THEN Call(SetParameters(r, buffered, quantize), "start")
          ELSE Call(r, IF r.ret = "eoi" /\ ~MoreImages(r) THEN "end" ELSE "header")

StartDecompress ==
  /\ May("start")
  /\ \E r \in {jpeg_start_decompress(d)} :
       Call(r, IF r.ret # "TRUE" THEN "start"
                ELSE IF r.buffered_image THEN "pass" ELSE "lines")

(* A call that was suspended is repeated as it was.                        *)
StartOutput ==
  /\ May("pass")
  /\ \E n \in (IF d.global_state = "PRESCAN" THEN {d.output_scan_number}
               ELSE Targets \cup {d.input_scan_number}) :
     \E r \in {jpeg_start_output(d, n)} :
       Call(r, IF r.ret = "TRUE" THEN "lines" ELSE "pass")

ReadScanlines ==
  /\ May("lines") /\ (Anything \/ d.output_scanline < output_height(d))
  /\ Call(jpeg_read_scanlines(d), IF Anything THEN step ELSE "lines")

(* A pass is given up when the image has arrived and it is not the final.  *)
FinishOutput ==
  /\ May("lines") \/ May("finish_output")
  /\ \/ Anything
     \/ /\ d.buffered_image
        /\ \/ d.output_scanline = output_height(d)
           \/ d.eoi_reached /\ d.output_scan_number < d.input_scan_number
  /\ \E r \in {jpeg_finish_output(d)} :
       Call(r, IF r.ret = "FALSE" THEN "finish_output"
                ELSE IF r.eoi_reached /\ r.input_scan_number = r.output_scan_number
                THEN "finish" ELSE "pass")

FinishDecompress ==
  /\ \/ May("finish")
     \/ May("lines") /\ (~d.buffered_image /\ d.output_scanline = output_height(d))
  /\ \E r \in {jpeg_finish_decompress(d)} :
       Call(r, IF r.ret = "FALSE" THEN "finish"
                ELSE IF MoreImages(r) THEN "header" ELSE "end")

(* At any time the application may have input read in advance, and not     *)
(* look at the outcome.                                                    *)
ConsumeInput ==
  /\ ~d.error /\ step # "end"
  /\ step \in {"pass", "lines", "finish_output", "finish"} \/ Anything
  /\ Call(Returned(jpeg_consume_input(d), ""), step)

Stay == step = "end" /\ UNCHANGED vars

Required == ReadHeader \/ StartDecompress \/ StartOutput \/ ReadScanlines
              \/ FinishOutput \/ FinishDecompress

Next == Arrive \/ Required \/ ConsumeInput \/ Stay

Spec == Init /\ [][Next]_vars
-----------------------------------------------------------------------------
(* The places of the rows of an image in the stream, by scan: those after  *)
(* its SOS and before the next marker.                                     *)
MarkersTo(pos) == {p \in 1..pos : d.stream[p].t # "ROW"}
MaxOf(S) == CHOOSE p \in S : \A q \in S : q <= p
ImageStart(pos) == MaxOf({p \in MarkersTo(pos) : d.stream[p].t = "SOI"})
ScanNumber(pos) ==
  Cardinality({p \in MarkersTo(pos) : p > ImageStart(pos) /\ d.stream[p].t = "SOS"})

(* What scans 1..n of the image being read say of an iMCU row.             *)
RowsOf(row, n) ==
  LET begin == ImageStart(d.pos)
      Mine(p) == /\ p > begin /\ d.stream[p].t = "ROW" /\ ScanNumber(p) \in 1..n
                 /\ \A q \in begin..p : d.stream[q].t # "EOI"
                 /\ p - MaxOf(MarkersTo(p)) = row
  IN {p \in 1..d.pos : Mine(p)}

LineOf(i, n) == RowsOf((i - 1) \div RowLines + 1, n)

TypeOK ==
  /\ step \in {"header", "start", "pass", "lines", "finish_output", "finish", "end"}
  /\ d.global_state \in {"START", "INHEADER", "READY", "PRELOAD", "PRESCAN", "SCANNING",
                         "BUFIMAGE", "BUFPOST", "STOPPING"}
  /\ d.pos \in 0..d.avail /\ d.avail \in 0..Len(d.stream)
  /\ d.global_state = "SCANNING" => Len(out) = d.output_scanline
  /\ d.input_iMCU_row \in 0..total_iMCU_rows(d) \/ d.frame = NoFrame

(* No call loops for ever, whatever the application does: not when it asks *)
(* for a scan the image does not have, either.                             *)
NeverSpins == ~d.spins

(* The output never falls behind its target: each line shows all that the  *)
(* scans up to the target say of it.                                       *)
InStep ==
  d.global_state = "SCANNING" =>
    \A i \in 1..Len(out) : LineOf(i, d.output_scan_number) \subseteq out[i]

(* When the manual's loop ends, with or without buffered-image mode, the   *)
(* last pass has shown the whole image, with everything the scans of this  *)
(* image say and nothing else, in spite of suspensions, passes given up,   *)
(* scans read in advance, and the image decoded before.                    *)
FinalPicture ==
  step = "finish" \/ (step = "lines" /\ ~d.buffered_image
                       /\ Len(out) = output_height(d)) =>
    /\ Len(out) = output_height(d)
    /\ d.whole => \A i \in 1..Len(out) : out[i] = LineOf(i, d.input_scan_number)
    /\ ~d.whole => \A i \in 1..Len(out) : out[i] = LineOf(i, 1)

(* An application that follows the manual on a sound stream meets no error *)
ManualIsSafe == ~Anything => ~d.error

(* A call is suspended only when it has used up the data that have come,   *)
(* and never at the end of a sound stream: with the data at hand every     *)
(* call does its work.                                                     *)
NeverWaitsInVain ==
  ~Anything /\ d.ret \in {"suspended", "FALSE"} =>
    d.pos = d.avail /\ d.avail < Len(d.stream)
=============================================================================
