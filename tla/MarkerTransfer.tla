--------------------------- MODULE MarkerTransfer ---------------------------
(***************************************************************************)
(* A file is written marker by marker, comes to a decompressor in pieces,  *)
(* and is read in as many calls of read_markers as it takes. The coded     *)
(* data after a scan header are left out; other bytes may be between the   *)
(* markers, as a scan that was not read to its end leaves them.            *)
(***************************************************************************)
EXTENDS MarkerReader

CONSTANTS
  Files,     \* what the compressor is asked for: sequences of images, see MarkerWriter
  Broken,    \* files of other origin, as bytes
  Limits,    \* the limits for saving COM and APPn markers, by code
  Between,   \* what may come before a marker: fill and garbage
  Chunks     \* in how large pieces the file comes

VARIABLES
  phase,     \* "write", "read" or "stopped"
  images,    \* the images, empty for a file of other origin
  image,     \* the number of the image at hand; 0 for the tables before the first
  scan,      \* of the image, the number of scans written or read
  sent,      \* the tables that were sent, by kind
  last_restart_interval,
  between,   \* what comes before each marker of a scan header
  stream,    \* the file
  d          \* the decompressor

vars == <<phase, images, image, scan, sent, last_restart_interval, between, stream, d>>
written == <<images, sent, last_restart_interval, between, stream>>

Current == images[image]
Abbreviated == Len(images) > 0 /\ images[1].tables_first

NoneSent == [quant |-> {}, huff |-> {}]

Init ==
  /\ \E limits \in Limits : d = jinit_marker_reader(limits)
  /\ image = 0 /\ scan = 0 /\ sent = NoneSent /\ last_restart_interval = 0
  /\ \/ phase = "write" /\ images \in Files /\ between \in Between /\ stream = <<>>
     \/ phase = "read" /\ images = <<>> /\ between = <<>> /\ stream \in Broken

-----------------------------------------------------------------------------
(* The compressor *)

WriteTables ==
  /\ phase = "write" /\ image = 0 /\ stream = <<>> /\ Abbreviated
  /\ stream' = write_tables_only(images[1])
  /\ sent' = [quant |-> DOMAIN images[1].quant,
              huff |-> DOMAIN images[1].dc_huff
                         \cup {16 + n : n \in DOMAIN images[1].ac_huff}]
  /\ UNCHANGED <<phase, images, image, scan, last_restart_interval, between, d>>

(* start_pass of the marker writer, the markers of the application and the *)
(* frame header. An image that is not abbreviated sends all its tables.    *)
WriteHeader ==
  /\ phase = "write" /\ scan = 0 /\ image < Len(images)
  /\ Abbreviated => stream # <<>>
  /\ image' = image + 1 /\ scan' = 0
  /\ LET c == images[image + 1]
         known == IF Abbreviated THEN sent ELSE NoneSent
     IN /\ stream' = stream \o write_file_header(c)
                       \o FlattenSeq([i \in DOMAIN c.extras |-> write_marker(c.extras[i])])
                       \o write_frame_header(c, known.quant)
        /\ sent' = [quant |-> known.quant \cup Range(QuantNumbers(c)), huff |-> known.huff]
  /\ last_restart_interval' = 0
  /\ phase' = "scans"
  /\ UNCHANGED <<images, between, d>>

WriteScan ==
  /\ phase = "scans" /\ scan < Len(Current.scans)
  /\ LET asked == Current.scans[scan + 1]
     IN /\ stream' = stream \o between
                       \o write_scan_header(Current, asked, sent.huff, last_restart_interval)
        /\ sent' = [sent EXCEPT !.huff = @ \cup Range(HuffNumbers(Current, asked))]
        /\ last_restart_interval' = asked.restart_interval
  /\ scan' = scan + 1
  /\ UNCHANGED <<phase, images, image, between, d>>

WriteTrailer ==
  /\ phase = "scans" /\ scan = Len(Current.scans)
  /\ stream' = stream \o between \o write_file_trailer
  /\ scan' = 0
  /\ \/ image < Len(images) /\ phase' = "write" /\ image' = image
     \/ image = Len(images) /\ phase' = "read" /\ image' = IF Abbreviated THEN 0 ELSE 1
  /\ UNCHANGED <<images, sent, last_restart_interval, between, d>>

-----------------------------------------------------------------------------
(* The decompressor *)

Deliver(n) ==
  /\ phase = "read" /\ d.stop = "suspended" /\ d.avail < Len(stream)
  /\ d' = [d EXCEPT !.avail = Min({@ + n, Len(stream)}), !.stop = ""]
  /\ UNCHANGED <<phase, image, scan, written>>

read_markers ==
  /\ phase = "read" /\ d.stop = ""
  /\ d' = MarkerTurn(stream, d)
  /\ scan' = IF d'.stop = "sos" /\ d'.comps_in_scan > 0 THEN scan + 1 ELSE scan
  /\ UNCHANGED <<phase, image, written>>

(* After a scan, or a pseudo one, the application goes on to the next.     *)
NextScan ==
  /\ phase = "read" /\ d.stop = "sos"
  /\ d' = [d EXCEPT !.stop = ""]
  /\ UNCHANGED <<phase, image, scan, written>>

(* jpeg_abort after an image.                                              *)
NextImage ==
  /\ phase = "read" /\ d.stop = "eoi"
  /\ IF d.next < Len(stream)
     THEN /\ d' = [reset_marker_reader(d) EXCEPT !.stop = ""]
          /\ image' = image + 1 /\ scan' = 0 /\ UNCHANGED phase
     ELSE phase' = "stopped" /\ UNCHANGED <<d, image, scan>>
  /\ UNCHANGED written

Next ==
  \/ WriteTables \/ WriteHeader \/ WriteScan \/ WriteTrailer
  \/ \E n \in Chunks : Deliver(n)
  \/ read_markers \/ NextScan \/ NextImage

Spec == Init /\ [][Next]_vars
-----------------------------------------------------------------------------
FromUs == phase = "read" /\ images # <<>>
AtScan == FromUs /\ d.stop = "sos" /\ d.comps_in_scan > 0

(* The frame is the one that was asked for, whatever cuts the file came    *)
(* in: size, coding process, components and their tables.                  *)
FrameArrives ==
  FromUs /\ d.stop = "sos" =>
    /\ d.image_height = Current.height /\ d.image_width = Current.width
    /\ d.data_precision = Current.precision
    /\ d.progressive_mode = Current.progressive_mode
    /\ d.arith_code = Current.arith_code
    /\ d.num_components = Len(Current.comps)
    /\ \A ci \in DOMAIN Current.comps :
         LET got == d.comp_info[ci]
             asked == Current.comps[ci]
         IN /\ got.id = asked.id /\ got.h = asked.h /\ got.v = asked.v
            /\ got.tq = asked.tq
            /\ \A i \in 1 .. lim_Se(Current) + 1 :
                 LET p == OrderFor(lim_Se(Current) + 1)[i]
                 IN d.quant[got.tq][p] = Current.quant[asked.tq][p]

(* At a scan header its parameters are there, and each component has the   *)
(* entropy coding tables, or conditioning, that the encoder uses for it.   *)
ScanArrives ==
  AtScan =>
    LET asked == Current.scans[scan]
    IN /\ d.input_scan_number = scan
       /\ d.cur_comp_info = asked.comps
       /\ <<d.Ss, d.Se, d.Ah, d.Al>> = <<asked.Ss, asked.Se, asked.Ah, asked.Al>>
       /\ d.restart_interval = asked.restart_interval
       /\ \A ci \in Range(asked.comps) :
            LET got == d.comp_info[ci]
                c == Current.comps[ci]
            IN /\ UsesDc(asked) =>
                    IF Current.arith_code
                    THEN /\ d.arith_dc_L[got.dc] = Current.arith_dc_L[c.dc]
                         /\ d.arith_dc_U[got.dc] = Current.arith_dc_U[c.dc]
                    ELSE d.dc_huff[got.dc] = Current.dc_huff[c.dc]
               /\ UsesAc(asked) =>
                    IF Current.arith_code
                    THEN d.arith_ac_K[got.ac] = Current.arith_ac_K[c.ac]
                    ELSE d.ac_huff[got.ac] = Current.ac_huff[c.ac]

(* The decoder guesses the colour space the encoder was set to, and gets   *)
(* the density with it.                                                    *)
ColourSpaceKept ==
  AtScan /\ Current.space # "UNKNOWN" =>
    /\ default_decompress_parms(d) = Current.space
    /\ Current.write_JFIF_header =>
         /\ <<d.density_unit, d.X_density, d.Y_density>>
              = <<Current.density_unit, Current.X_density, Current.Y_density>>

(* Of each marker that is to be saved the list has the code, the length    *)
(* and the first bytes up to the limit, in the order of the file.          *)
MarkersSaved ==
  AtScan =>
    LET asked == SelectSeq(Current.extras, LAMBDA x : d.limits[x.code] > 0)
        mine == SelectSeq(d.marker_list, LAMBDA m : m.code \notin {APP0, APP14})
    IN /\ Len(mine) = Len(asked)
       /\ \A i \in DOMAIN asked :
            LET n == Min({Len(asked[i].data), d.limits[asked[i].code]})
            IN mine[i] = [code |-> asked[i].code, original_length |-> Len(asked[i].data),
                          data_length |-> n, data |-> SubSeq(asked[i].data, 1, n)]

(* What has to be dropped between two markers is reported once, with all   *)
(* its bytes.                                                              *)
Garbage ==
  LET Zero(i) == between[i] = 0 /\ i > 1 /\ between[i - 1] = 255
  IN Cardinality({i \in DOMAIN between : between[i] # 255 /\ ~Zero(i)})
       + 2 * Cardinality({i \in DOMAIN between : Zero(i)})

DroppedOnce ==
  FromUs => \A i \in DOMAIN d.warnings : d.warnings[i] = Garbage

(* A file that is all there is not waited for.                             *)
NoWaitAtTheEnd ==
  FromUs /\ d.avail = Len(stream) => d.stop # "suspended"

(* A suspending source keeps no more than the marker at hand: of one that  *)
(* is skipped or saved only what comes before the text.                    *)
LargestKept ==
  CASE d.unread_marker = 0 -> Len(between) + 1
    [] d.limits[d.unread_marker] > 0 -> 1
    [] d.unread_marker \in {APP0, APP14} -> 15
    [] OTHER -> 1

KeepsLittle ==
  phase = "read" /\ d.stop = "suspended" /\ d.unread_marker \in DOMAIN d.limits \cup {0} =>
    d.avail - d.next <= LargestKept

(* Reading all of the file at once.                                        *)
RECURSIVE ReadOn(_, _)
ReadOn(x, stops) ==
  IF x.stop = "" THEN ReadOn(MarkerTurn(stream, x), stops)
  ELSE IF stops = 0 \/ x.stop \in {"error", "suspended"} THEN x
  ELSE ReadOn([IF x.stop = "sos" THEN x ELSE reset_marker_reader(x) EXCEPT !.stop = ""],
              stops - 1)

Uncut(stops) ==
  ReadOn([jinit_marker_reader(d.limits) EXCEPT !.avail = Len(stream), !.stop = ""], stops)

(* How many times the reader has stopped before, by scans and images.      *)
Forget(x) == [x EXCEPT !.avail = 0]

(* A file of any origin that comes in pieces is read as if it came at      *)
(* once, down to the error it ends with.                                   *)
CutsDoNotMatter ==
  phase = "read" /\ images = <<>> /\ d.stop \in {"sos", "eoi", "error"} =>
    \E stops \in 0 .. 3 : Forget(d) = Forget(Uncut(stops))
=============================================================================
