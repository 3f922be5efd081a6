---------------------------- MODULE Decompressor ----------------------------
(***************************************************************************)
(* The calls of libjpeg's decompressor as functions of its object: the     *)
(* states of jdapimin.c and jdapistd.c, the input controller jdinput.c and *)
(* the marker loop it drives, the passes of jdmaster.c, and as much of the *)
(* coefficient and main controllers as decides what a call returns.        *)
(*                                                                         *)
(* The data are a sequence of items: markers, and rows of MCUs, each of    *)
(* which arrives as a whole. The picture is known by the rows that went    *)
(* into each line of it, by their places in the data. One line is a row    *)
(* group; RowLines of them are a row of MCUs.                              *)
(***************************************************************************)
EXTENDS Integers, Sequences

CONSTANT RowLines    (* min_DCT_v_scaled_size                              *)

RowLinesAssumption == RowLines \in Nat \ {0}

NoFrame == [t |-> "none", multi |-> FALSE, height |-> 0, components |-> 0]

(* jpeg_CreateDecompress, and a source from which avail items have come.   *)
jpeg_create_decompress(stream, avail) ==
  [stream |-> stream, avail |-> avail, pos |-> 0, error |-> FALSE, ret |-> "",
   spins |-> FALSE, global_state |-> "START", saw_SOI |-> FALSE, frame |-> NoFrame,
   has_multiple_scans |-> FALSE, eoi_reached |-> FALSE, inheaders |-> TRUE,
   reading |-> "markers", input_scan_number |-> 0, input_iMCU_row |-> 0,
   buffered_image |-> FALSE, quantize |-> FALSE, colormap |-> FALSE,
   jpeg_color_space |-> "", is_dummy_pass |-> FALSE, main |-> "thru",
   whole |-> FALSE, coefs |-> <<>>, output_scan_number |-> 0,
   output_iMCU_row |-> 0, output_scanline |-> 0, buffer_full |-> FALSE,
   buffer |-> {}, rowgroup_ctr |-> 0, saved |-> <<>>, emitted |-> <<>>]

(* An error exit: the application is never returned to.                    *)
ERREXIT(d) == [d EXCEPT !.error = TRUE, !.ret = "error"]
Returned(d, ret) == [d EXCEPT !.ret = ret]
Stopped(d) == d.error \/ d.ret = "suspended"

output_height(d) == d.frame.height
total_iMCU_rows(d) == (d.frame.height + RowLines - 1) \div RowLines
-----------------------------------------------------------------------------
(* read_markers: as far as the next SOS or EOI. Data where a marker should *)
(* be is skipped.                                                          *)
RECURSIVE read_markers(_)
read_markers(d) ==
  LET item == d.stream[d.pos + 1]
      e == [d EXCEPT !.pos = @ + 1]
  IN IF d.pos >= d.avail THEN Returned(d, "suspended")
     ELSE CASE item.t = "SOI" /\ ~d.saw_SOI ->
                 read_markers([e EXCEPT !.saw_SOI = TRUE, !.jpeg_color_space = ""])
            [] item.t = "SOF" /\ d.saw_SOI /\ d.frame = NoFrame ->
                 read_markers([e EXCEPT !.frame = item])
            [] item.t = "SOS" /\ d.saw_SOI /\ d.frame # NoFrame ->
                 Returned([e EXCEPT !.input_scan_number = @ + 1], "sos")
            [] item.t = "EOI" /\ d.saw_SOI -> Returned(e, "eoi")
            [] item.t = "ROW" /\ d.saw_SOI -> read_markers(e)
            [] OTHER -> ERREXIT(d)

start_input_pass(d) == [d EXCEPT !.input_iMCU_row = 0, !.reading = "data"]

(* At the end of the image the output no longer waits for more scans.      *)
Limited(d, scan_number) ==
  IF ~d.inheaders /\ scan_number > d.input_scan_number THEN d.input_scan_number
  ELSE scan_number

(* Between scans: what follows from the marker that was reached.           *)
AtMarker(r) ==
  IF Stopped(r) THEN r
  ELSE IF r.ret = "sos" /\ r.inheaders
    THEN [r EXCEPT !.inheaders = FALSE, !.has_multiple_scans = r.frame.multi]
  ELSE IF r.ret = "sos"
    THEN IF r.has_multiple_scans THEN start_input_pass(r) ELSE ERREXIT(r)
  ELSE IF r.inheaders /\ r.frame # NoFrame THEN ERREXIT(r)
  ELSE [r EXCEPT !.eoi_reached = TRUE, !.output_scan_number = Limited(r, @)]

consume_markers(d) ==
  IF d.eoi_reached THEN Returned(d, "eoi") ELSE AtMarker(read_markers(d))

(* A row of MCUs into the coefficients. At a marker the decoder has no     *)
(* more data, and leaves the row as it is.                                 *)
FetchRow(d) ==
  LET row == d.input_iMCU_row + 1
      e == IF d.stream[d.pos + 1].t = "ROW"
           THEN [d EXCEPT !.pos = @ + 1, !.coefs[row] = @ \cup {d.pos + 1}] ELSE d
  IN IF d.pos >= d.avail THEN Returned(d, "suspended")
     ELSE IF row < total_iMCU_rows(d)
       THEN Returned([e EXCEPT !.input_iMCU_row = @ + 1], "row")
     ELSE Returned([e EXCEPT !.input_iMCU_row = @ + 1, !.reading = "markers"], "scan")

(* consume_data; in one pass there is nothing to be read in advance.       *)
consume_data(d) == IF d.whole THEN FetchRow(d) ELSE Returned(d, "suspended")

consume_input(d) == IF d.reading = "markers" THEN consume_markers(d) ELSE consume_data(d)

(* Mutant: the rows of the scan being read are not waited for.                     *)
BehindByScan(d) == d.input_scan_number < d.output_scan_number

(* decompress_data waits until the input is ahead of the output. A round   *)
(* of the loop that changes nothing would be repeated for ever.            *)
Behind(d) ==
  \/ d.input_scan_number < d.output_scan_number
  \/ /\ d.input_scan_number = d.output_scan_number
     /\ d.input_iMCU_row <= d.output_iMCU_row

RECURSIVE CatchUpFrom(_, _)
CatchUpFrom(d, c) ==
  IF ~Behind(d) THEN Returned(d, "ok")
  ELSE IF Stopped(c) THEN c
  ELSE IF c = Returned(d, c.ret) THEN Returned([d EXCEPT !.spins = TRUE], "suspended")
  ELSE CatchUpFrom(c, consume_input(c))

CatchUp(d) == CatchUpFrom(d, consume_input(d))

(* The row to be output, from the coefficients as they are now.            *)
Shown(c, row) ==
  IF Stopped(c) THEN c
  ELSE [c EXCEPT !.buffer = c.coefs[row], !.buffer_full = TRUE, !.output_iMCU_row = @ + 1]

decompress_data(d) == Shown(CatchUp(d), d.output_iMCU_row + 1)

decompress_onepass(d) == Shown(FetchRow(d), d.input_iMCU_row + 1)
-----------------------------------------------------------------------------
(* process_data_simple_main and the postprocessor: a line from the buffer, *)
(* which is filled first when it is empty. In a dummy pass the line is     *)
(* saved, for the pass that cranks the saved lines out.                    *)
LineFrom(f) ==
  LET last == f.rowgroup_ctr + 1 >= RowLines
      e == [f EXCEPT !.rowgroup_ctr = IF last THEN 0 ELSE @ + 1,
                     !.buffer_full = ~last, !.output_scanline = @ + 1]
  IN IF Stopped(f) THEN f
     ELSE IF f.is_dummy_pass THEN [e EXCEPT !.saved = Append(@, f.buffer)]
     ELSE [e EXCEPT !.emitted = <<f.buffer>>]

process_data_simple_main(d) ==
  LineFrom(IF d.buffer_full THEN Returned(d, "ok")
           ELSE IF d.whole THEN decompress_data(d) ELSE decompress_onepass(d))

process_data_crank_post(d) ==
  [d EXCEPT !.emitted = <<d.saved[d.output_scanline + 1]>>, !.output_scanline = @ + 1,
            !.ret = "ok"]

process_data(d) ==
  IF d.main = "crank" THEN process_data_crank_post(d) ELSE process_data_simple_main(d)

(* Mutant: what a pass that was given up left in the buffer is kept.       *)
KeepBuffer(d) ==
  IF d.is_dummy_pass THEN [d EXCEPT !.is_dummy_pass = FALSE, !.main = "crank"]
  ELSE [d EXCEPT !.is_dummy_pass = d.quantize /\ ~d.colormap, !.main = "thru",
                 !.saved = <<>>, !.output_iMCU_row = 0]

prepare_for_output_pass(d) ==
  IF d.is_dummy_pass THEN [d EXCEPT !.is_dummy_pass = FALSE, !.main = "crank"]
  ELSE [d EXCEPT !.is_dummy_pass = d.quantize /\ ~d.colormap, !.main = "thru",
                 !.saved = <<>>, !.output_iMCU_row = 0, !.buffer_full = FALSE,
                 !.rowgroup_ctr = 0]

finish_output_pass(d) == [d EXCEPT !.colormap = d.quantize]

(* jinit_master_decompress: the color space must suit the components.      *)
jinit_master_decompress(d) ==
  IF d.jpeg_color_space = "YCbCr" /\ d.frame.components # 3 THEN ERREXIT(d)
  ELSE start_input_pass(
         [d EXCEPT !.whole = d.has_multiple_scans \/ d.buffered_image,
                   !.is_dummy_pass = FALSE,
                   !.coefs = [row \in 1..total_iMCU_rows(d) |-> {}]])

RECURSIVE DummyPass(_, _)
DummyPass(d, p) ==
  LET next == [prepare_for_output_pass(finish_output_pass(d))
                 EXCEPT !.output_scanline = 0]
  IN IF ~d.is_dummy_pass
       THEN Returned([d EXCEPT !.global_state = "SCANNING"], "TRUE")
     ELSE IF d.output_scanline = output_height(d) THEN DummyPass(next, next)
     ELSE IF p.error THEN p
     ELSE IF p.output_scanline = d.output_scanline THEN Returned(p, "FALSE")
     ELSE DummyPass(p, process_data(p))

DummyPasses(d) == DummyPass(d, process_data(d))

output_pass_setup(d) ==
  DummyPasses(IF d.global_state = "PRESCAN" THEN d
              ELSE [prepare_for_output_pass(d)
                      EXCEPT !.output_scanline = 0, !.global_state = "PRESCAN"])
-----------------------------------------------------------------------------
(* The calls. The application takes the line a call has emitted.           *)
Taken(d) == [d EXCEPT !.emitted = <<>>]

reset_input_controller(d) ==
  [d EXCEPT !.reading = "markers", !.has_multiple_scans = FALSE,
            !.eoi_reached = FALSE, !.inheaders = TRUE, !.frame = NoFrame,
            !.input_scan_number = 0, !.saw_SOI = FALSE]

default_decompress_parms(d) ==
  [d EXCEPT !.global_state = "READY", !.buffered_image = FALSE, !.quantize = FALSE,
            !.colormap = FALSE,
            !.jpeg_color_space = IF d.frame.components = 1 THEN "gray" ELSE "YCbCr"]

Consumed(d, c) ==
  IF d.global_state \in {"START", "INHEADER"} /\ c.ret = "sos"
    THEN default_decompress_parms(c)
  ELSE IF d.global_state = "READY" THEN Returned(d, "sos")
  ELSE c

jpeg_consume_input(d) ==
  Consumed(d, consume_input(
    IF d.global_state = "START"
    THEN [reset_input_controller(d) EXCEPT !.global_state = "INHEADER"] ELSE d))

jpeg_abort(d) == [d EXCEPT !.global_state = "START", !.coefs = <<>>, !.saved = <<>>]

HeaderRead(c, require_image) ==
  IF c.error \/ c.ret # "eoi" THEN c
  ELSE IF require_image THEN ERREXIT(c) ELSE jpeg_abort(c)

jpeg_read_header(d, require_image) ==
  IF d.global_state \notin {"START", "INHEADER"} THEN ERREXIT(d)
  ELSE HeaderRead(jpeg_consume_input(d), require_image)

(* The parameters an application may set when the header has been read.    *)
SetParameters(d, buffered_image, quantize) ==
  [d EXCEPT !.buffered_image = buffered_image, !.quantize = quantize]

RECURSIVE Absorbed(_)
Absorbed(c) ==
  IF Stopped(c) \/ c.ret = "eoi" THEN c ELSE Absorbed(consume_input(c))

Absorb(d) ==
  IF d.has_multiple_scans THEN Absorbed(consume_input(d)) ELSE Returned(d, "eoi")

Preloaded(r) ==
  IF r.error THEN r
  ELSE IF r.ret = "suspended" THEN Returned(r, "FALSE")
  ELSE output_pass_setup([r EXCEPT !.output_scan_number = r.input_scan_number])

(* What is done when the modules have been initialized, now or before.     *)
Started(d, init) ==
  IF init.error THEN init
  ELSE IF d.global_state = "READY" /\ d.buffered_image THEN Returned(init, "TRUE")
  ELSE IF init.global_state = "PRESCAN" THEN output_pass_setup(init)
  ELSE IF init.global_state # "PRELOAD" THEN ERREXIT(init)
  ELSE Preloaded(Absorb(init))

jpeg_start_decompress(d) ==
  Started(d, IF d.global_state # "READY" THEN d
             ELSE [jinit_master_decompress(d)
                     EXCEPT !.global_state = IF d.buffered_image THEN "BUFIMAGE"
                                             ELSE "PRELOAD"])

(* One line at most.                                                       *)
jpeg_read_scanlines(d) ==
  IF d.global_state # "SCANNING" THEN ERREXIT(d)
  ELSE IF d.output_scanline >= output_height(d) THEN Returned(d, "ok")
  ELSE process_data(d)

jpeg_start_output(d, scan_number) ==
  LET atLeast == IF scan_number <= 0 THEN 1 ELSE scan_number
      target == IF d.eoi_reached /\ atLeast > d.input_scan_number
                THEN d.input_scan_number ELSE atLeast
  IN IF d.global_state \notin {"BUFIMAGE", "PRESCAN"} THEN ERREXIT(d)
     ELSE output_pass_setup([d EXCEPT !.output_scan_number = target])

RECURSIVE ReadBetweenScans(_, _)
ReadBetweenScans(d, c) ==
  IF d.input_scan_number > d.output_scan_number \/ d.eoi_reached
    THEN Returned([d EXCEPT !.global_state = "BUFIMAGE"], "TRUE")
  ELSE IF c.error THEN c
  ELSE IF c.ret = "suspended" THEN Returned(c, "FALSE")
  ELSE ReadBetweenScans(c, consume_input(c))

jpeg_finish_output(d) ==
  LET ended == [finish_output_pass(d) EXCEPT !.global_state = "BUFPOST"]
  IN IF d.global_state = "SCANNING" /\ d.buffered_image
       THEN ReadBetweenScans(ended, consume_input(ended))
     ELSE IF d.global_state = "BUFPOST" THEN ReadBetweenScans(d, consume_input(d))
     ELSE ERREXIT(d)

RECURSIVE ReadUntilEoi(_, _)
ReadUntilEoi(d, c) ==
  IF d.eoi_reached THEN Returned(jpeg_abort(d), "TRUE")
  ELSE IF c.error THEN c
  ELSE IF c.ret = "suspended" THEN Returned(c, "FALSE")
  ELSE ReadUntilEoi(c, consume_input(c))

jpeg_finish_decompress(d) ==
  LET scanning == d.global_state = "SCANNING" /\ ~d.buffered_image
      ended == [(IF scanning THEN finish_output_pass(d) ELSE d)
                  EXCEPT !.global_state = "STOPPING"]
  IN IF \/ scanning /\ d.output_scanline < output_height(d)
        \/ ~scanning /\ d.global_state \notin {"BUFIMAGE", "STOPPING"}
     THEN ERREXIT(d)
     ELSE ReadUntilEoi(ended, consume_input(ended))
=============================================================================
