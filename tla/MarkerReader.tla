---------------------------- MODULE MarkerReader ----------------------------
(***************************************************************************)
(* The marker reader jdmarker.c on a source that suspends: every routine   *)
(* as a function of the decompressor d and the bytes s of the file.        *)
(*                                                                         *)
(* d.next bytes lie before the restart point, d.avail have come. A routine *)
(* that meets the end of what has come leaves the restart point where it   *)
(* was and what it has set already as it is, and is called again.          *)
(***************************************************************************)
EXTENDS MarkerWriter, FiniteSetsExt

Unset == -1           \* storage nothing was written to
NoTable == [none |-> TRUE]
NoMarker == [code |-> 0]

(* Byte k of the parameters, the word there, and whether it has come.      *)
Byte(s, d, k) == s[d.next + k]
Word(s, d, k) == (256 * Byte(s, d, k)) + Byte(s, d, k + 1)
Got(d, k) == d.next + k <= d.avail
High(byte) == byte \div 16
Low(byte) == byte % 16

(* Mutant: what was read before suspending is not read again. *)
SuspendAtEnd(d) == [d EXCEPT !.stop = "suspended", !.next = @ + Max({0, d.avail - @})]

Suspend(d) == [d EXCEPT !.stop = "suspended"]
Error(d) == [d EXCEPT !.stop = "error"]

(* INPUT_SYNC after n bytes; the marker is dealt with.                     *)
Done(d, n) == [d EXCEPT !.next = @ + n, !.unread_marker = 0]

(* A suspending source drops what it has and remembers to drop the rest.   *)
skip_input_data(d, n) == IF n > 0 THEN [d EXCEPT !.next = @ + n] ELSE d

-----------------------------------------------------------------------------
reset_marker_reader(d) ==
  [d EXCEPT !.comp_info = <<>>, !.input_scan_number = 0, !.unread_marker = 0,
            !.saw_SOI = FALSE, !.saw_SOF = FALSE, !.discarded_bytes = 0,
            !.cur_marker = NoMarker, !.marker_list = <<>>]

get_soi(d) ==
  IF d.saw_SOI THEN Error(d)
  ELSE Done([d EXCEPT
         !.arith_dc_L = [i \in DOMAIN @ |-> 0], !.arith_dc_U = [i \in DOMAIN @ |-> 1],
         !.arith_ac_K = [i \in DOMAIN @ |-> 5], !.restart_interval = 0,
         !.saw_JFIF_marker = FALSE, !.density_unit = 0,
         !.X_density = 1, !.Y_density = 1,
         !.saw_Adobe_marker = FALSE, !.Adobe_transform = 0, !.saw_SOI = TRUE], 0)

(* What comes of a field if its last byte is byte k.                       *)
Read(d, k, new, old) == IF Got(d, k) THEN new ELSE old

get_sof(s, d, baseline, progressive, arith) ==
  LET e == [d EXCEPT
        !.is_baseline = baseline, !.progressive_mode = progressive, !.arith_code = arith,
        !.data_precision = Read(d, 3, Byte(s, d, 3), @),
        !.image_height = Read(d, 5, Word(s, d, 4), @),
        !.image_width = Read(d, 7, Word(s, d, 6), @),
        !.num_components = Read(d, 8, Byte(s, d, 8), @)]
      n == e.num_components
      old == IF d.comp_info # <<>> THEN d.comp_info
             ELSE [ci \in 1 .. n |-> [id |-> Unset, h |-> Unset, v |-> Unset,
                                      tq |-> Unset, dc |-> Unset, ac |-> Unset]]
      comps == [ci \in 1 .. n |->
        [old[ci] EXCEPT
           !.id = Read(d, 6 + (3 * ci), Byte(s, d, 6 + (3 * ci)), @),
           !.h = Read(d, 7 + (3 * ci), High(Byte(s, d, 7 + (3 * ci))), @),
           !.v = Read(d, 7 + (3 * ci), Low(Byte(s, d, 7 + (3 * ci))), @),
           !.tq = Read(d, 8 + (3 * ci), Byte(s, d, 8 + (3 * ci)), @)]]
  IN IF ~Got(d, 8) THEN Suspend(e)
     ELSE IF d.saw_SOF \/ e.image_height = 0 \/ e.image_width = 0 \/ n = 0
             \/ Word(s, d, 1) - 8 # 3 * n
     THEN Error(e)
     ELSE IF ~Got(d, 8 + (3 * n)) THEN Suspend([e EXCEPT !.comp_info = comps])
     ELSE Done([e EXCEPT !.comp_info = comps, !.saw_SOF = TRUE], 8 + (3 * n))

(* The component with this id: the first, or 0.                            *)
Found(d, id) ==
  LET with == {ci \in DOMAIN d.comp_info : d.comp_info[ci].id = id}
  IN IF with = {} THEN 0 ELSE Min(with)

get_sos(s, d) ==
  LET n == Byte(s, d, 3)
      Named(i) == Found(d, Byte(s, d, 2 + (2 * i)))
      come == {i \in 1 .. n : Got(d, 3 + (2 * i)) /\ \A j \in 1 .. i : Named(j) # 0}
      LatestFor(ci) == Max({i \in come : Named(i) = ci})
      named == [d EXCEPT
        !.comps_in_scan = n,
        !.cur_comp_info = [i \in 1 .. n |-> IF i \in come THEN Named(i)
                                            ELSE IF i \in DOMAIN @ THEN @[i] ELSE Unset],
        !.comp_info = [ci \in DOMAIN @ |->
          IF \A i \in come : Named(i) # ci THEN @[ci]
          ELSE [@[ci] EXCEPT !.dc = High(Byte(s, d, 3 + (2 * LatestFor(ci)))),
                             !.ac = Low(Byte(s, d, 3 + (2 * LatestFor(ci))))]]]
      e == [named EXCEPT
        !.Ss = Read(d, 4 + (2 * n), Byte(s, d, 4 + (2 * n)), @),
        !.Se = Read(d, 5 + (2 * n), Byte(s, d, 5 + (2 * n)), @),
        !.Ah = Read(d, 6 + (2 * n), High(Byte(s, d, 6 + (2 * n))), @),
        !.Al = Read(d, 6 + (2 * n), Low(Byte(s, d, 6 + (2 * n))), @)]
  IN IF ~d.saw_SOF THEN Error(d)
     ELSE IF ~Got(d, 3) THEN Suspend(d)
     ELSE IF Word(s, d, 1) # (2 * n) + 6 \/ n > MAX_COMPS_IN_SCAN
             \/ (n = 0 /\ ~d.progressive_mode)
     THEN Error(d)
     ELSE IF \E i \in 1 .. n : Got(d, 3 + (2 * i)) /\ Named(i) = 0 THEN Error(named)
     ELSE IF ~Got(d, 6 + (2 * n)) THEN Suspend(e)
     ELSE [Done([e EXCEPT !.input_scan_number = @ + (IF n = 0 THEN 0 ELSE 1)],
                6 + (2 * n)) EXCEPT !.stop = "sos"]

(* The entries of a DAC from parameter k on, length bytes of them left.    *)
RECURSIVE DacEntries(_, _, _, _)
DacEntries(s, d, k, length) ==
  LET index == Byte(s, d, k)
      val == Byte(s, d, k + 1)
      e == IF index >= NUM_ARITH_TBLS
           THEN [d EXCEPT !.arith_ac_K[index - NUM_ARITH_TBLS] = val]
           ELSE [d EXCEPT !.arith_dc_L[index] = Low(val), !.arith_dc_U[index] = High(val)]
  IN IF length <= 0 THEN IF length = 0 THEN Done(d, k - 1) ELSE Error(d)
     ELSE IF ~Got(d, k + 1) THEN Suspend(d)
     ELSE IF index >= 2 * NUM_ARITH_TBLS THEN Error(d)
     ELSE IF index < NUM_ARITH_TBLS /\ Low(val) > High(val) THEN Error(e)
     ELSE DacEntries(s, e, k + 2, length - 2)

get_dac(s, d) ==
  IF ~Got(d, 2) THEN Suspend(d) ELSE DacEntries(s, d, 3, Word(s, d, 1) - 2)

(* A table is stored when all of it has come.                              *)
RECURSIVE DhtTables(_, _, _, _)
DhtTables(s, d, k, length) ==
  LET index == Byte(s, d, k)
      number == IF High(index) % 2 = 1 THEN index - 16 ELSE index
      bits == [i \in 1 .. 16 |-> Byte(s, d, k + i)]
      count == FoldSeq(+, 0, bits)
      tbl == [bits |-> bits, huffval |-> [i \in 1 .. count |-> Byte(s, d, (k + 16) + i)]]
  IN IF length <= 16 THEN IF length = 0 THEN Done(d, k - 1) ELSE Error(d)
     ELSE IF ~Got(d, k + 16) THEN Suspend(d)
     ELSE IF count > 256 \/ count > length - 17 THEN Error(d)
     ELSE IF ~Got(d, (k + 16) + count) THEN Suspend(d)
     ELSE IF number >= NUM_TBLS THEN Error(d)
     ELSE DhtTables(s,
            IF number # index THEN [d EXCEPT !.ac_huff[number] = tbl]
            ELSE [d EXCEPT !.dc_huff[number] = tbl],
            (k + 17) + count, (length - 17) - count)

get_dht(s, d) ==
  IF ~Got(d, 2) THEN Suspend(d) ELSE DhtTables(s, d, 3, Word(s, d, 1) - 2)

(* A quantization table takes its entries as they come; one that is too    *)
(* short for a block starts as all ones.                                   *)
Ones == [p \in 0 .. 63 |-> 1]

RECURSIVE DqtTables(_, _, _, _)
DqtTables(s, d, k, length) ==
  LET n == Low(Byte(s, d, k))
      prec == IF High(Byte(s, d, k)) = 0 THEN 1 ELSE 2
      count == Min({64, (length - 1) \div prec})
      order == OrderFor(count)
      old == IF count < 64 THEN Ones
             ELSE IF d.quant[n] = NoTable THEN [p \in 0 .. 63 |-> Unset] ELSE d.quant[n]
      come == {i \in 1 .. count : Got(d, k + (prec * i))}
      Entry(i) == IF prec = 1 THEN Byte(s, d, k + i) ELSE Word(s, d, (k - 1) + (2 * i))
      tbl == [p \in 0 .. 63 |-> IF \E i \in come : order[i] = p
                                THEN Entry(CHOOSE i \in come : order[i] = p) ELSE old[p]]
      e == [d EXCEPT !.quant[n] = tbl]
      used == 1 + (prec * count)
  IN IF length <= 0 THEN IF length = 0 THEN Done(d, k - 1) ELSE Error(d)
     ELSE IF ~Got(d, k) THEN Suspend(d)
     ELSE IF n >= NUM_TBLS THEN Error(d)
     ELSE IF Cardinality(come) < count THEN Suspend(e)
     ELSE DqtTables(s, e, k + used, length - used)

get_dqt(s, d) ==
  IF ~Got(d, 2) THEN Suspend(d) ELSE DqtTables(s, d, 3, Word(s, d, 1) - 2)

get_dri(s, d) ==
  IF ~Got(d, 2) THEN Suspend(d)
  ELSE IF Word(s, d, 1) # 4 THEN Error(d)
  ELSE IF ~Got(d, 4) THEN Suspend(d)
  ELSE Done([d EXCEPT !.restart_interval = Word(s, d, 3)], 4)

-----------------------------------------------------------------------------
(* APPn and COM markers are examined, saved or skipped.                    *)

APP0_DATA_LEN == 14
APP14_DATA_LEN == 12
APPN_DATA_LEN == 14

examine_app0(d, data) ==
  IF Len(data) >= APP0_DATA_LEN /\ SubSeq(data, 1, 5) = << 74, 70, 73, 70, 0 >>
  THEN [d EXCEPT !.saw_JFIF_marker = TRUE, !.density_unit = data[8],
                 !.X_density = (256 * data[9]) + data[10],
                 !.Y_density = (256 * data[11]) + data[12]]
  ELSE d

examine_app14(d, data) ==
  IF Len(data) >= APP14_DATA_LEN /\ SubSeq(data, 1, 5) = << 65, 100, 111, 98, 101 >>
  THEN [d EXCEPT !.saw_Adobe_marker = TRUE, !.Adobe_transform = data[12]]
  ELSE d

Examined(d, data) ==
  CASE d.unread_marker = APP0 -> examine_app0(d, data)
    [] d.unread_marker = APP14 -> examine_app14(d, data)
    [] OTHER -> d

get_interesting_appn(s, d) ==
  LET length == Word(s, d, 1) - 2
      numtoread == Max({0, Min({length, APPN_DATA_LEN})})
  IN IF ~Got(d, 2) \/ ~Got(d, 2 + numtoread) THEN Suspend(d)
     ELSE skip_input_data(
            Done(Examined(d, [i \in 1 .. numtoread |-> Byte(s, d, 2 + i)]), 2 + numtoread),
            length - numtoread)

skip_variable(s, d) ==
  IF ~Got(d, 2) THEN Suspend(d) ELSE skip_input_data(Done(d, 2), Word(s, d, 1) - 2)

(* jpeg_save_markers: the limit that is kept, 0 to save none.              *)
SavedLength(code, length_limit) ==
  IF length_limit = 0 THEN 0
  ELSE IF code = APP0 THEN Max({length_limit, APP0_DATA_LEN})
  ELSE IF code = APP14 THEN Max({length_limit, APP14_DATA_LEN})
  ELSE length_limit

(* The length word begins a marker; a bogus one is no marker at all.       *)
BeginMarker(s, d) ==
  LET length == Word(s, d, 1) - 2
  IN [d EXCEPT !.next = @ + 2,
               !.cur_marker = [code |-> d.unread_marker, original_length |-> length,
                               data_length |-> Min({length, d.limits[d.unread_marker]}),
                               data |-> <<>>]]

(* Restarting moves to the end of what was copied.                         *)
CopyMarker(s, d) ==
  LET n == Min({d.cur_marker.data_length - Len(d.cur_marker.data),
                Max({d.avail - d.next, 0})})
  IN [d EXCEPT !.next = @ + n,
               !.cur_marker.data = @ \o [i \in 1 .. n |-> Byte(s, d, i)]]

EndMarker(d) ==
  LET m == d.cur_marker
      e == [Examined(d, m.data) EXCEPT !.marker_list = Append(@, m), !.cur_marker = NoMarker]
  IN skip_input_data(Done(e, 0), m.original_length - m.data_length)

(* Mutant: a marker half saved is begun again. *)
BeginAgain(s, d) ==
  IF ~Got(d, 2) THEN Suspend(d)
  ELSE IF Word(s, d, 1) < 2 THEN Done(Examined(d, <<>>), 2)
  ELSE LET c == CopyMarker(s, BeginMarker(s, d))
       IN IF Len(c.cur_marker.data) < c.cur_marker.data_length THEN Suspend(c)
          ELSE EndMarker(c)

save_marker(s, d) ==
  IF d.cur_marker = NoMarker /\ ~Got(d, 2) THEN Suspend(d)
  ELSE IF d.cur_marker = NoMarker /\ Word(s, d, 1) < 2 THEN Done(Examined(d, <<>>), 2)
  ELSE LET c == CopyMarker(s, IF d.cur_marker = NoMarker THEN BeginMarker(s, d) ELSE d)
       IN IF Len(c.cur_marker.data) < c.cur_marker.data_length THEN Suspend(c)
          ELSE EndMarker(c)

process_APPn(s, d) ==
  IF d.limits[d.unread_marker] > 0 THEN save_marker(s, d)
  ELSE IF d.unread_marker \in {APP0, APP14} THEN get_interesting_appn(s, d)
  ELSE skip_variable(s, d)

-----------------------------------------------------------------------------
Discard(d, n) == [d EXCEPT !.next = @ + n, !.discarded_bytes = @ + n]

(* The bytes that may be the code of a marker after the FF at hand.        *)
Codes(s, d) == {k \in 2 .. d.avail - d.next : Byte(s, d, k) # 255}

(* What was dropped is reported with the marker.                           *)
Reported(d) ==
  IF d.discarded_bytes = 0 THEN d
  ELSE [d EXCEPT !.warnings = Append(@, d.discarded_bytes), !.discarded_bytes = 0]

(* Looks for FF and a code; FF before the code is fill.                    *)
RECURSIVE next_marker(_, _)
next_marker(s, d) ==
  LET k == Min(Codes(s, d))
  IN IF ~Got(d, 1) THEN Suspend(d)
     ELSE IF Byte(s, d, 1) # 255 THEN next_marker(s, Discard(d, 1))
     ELSE IF Codes(s, d) = {} THEN Suspend(d)
     ELSE IF Byte(s, d, k) = 0
     THEN next_marker(s, [d EXCEPT !.next = @ + k, !.discarded_bytes = @ + 2])
     ELSE [Reported(d) EXCEPT !.next = @ + k, !.unread_marker = Byte(s, d, k)]

first_marker(s, d) ==
  IF ~Got(d, 2) THEN Suspend(d)
  ELSE IF Word(s, d, 1) # (255 * 256) + SOI THEN Error(d)
  ELSE [d EXCEPT !.next = @ + 2, !.unread_marker = SOI]

Parameterless == 208 .. 215 \cup {1}
DNL == 220

(* The switch of read_markers. Unsupported frames and unknown markers are  *)
(* errors.                                                                 *)
ProcessMarker(s, d) ==
  LET code == d.unread_marker
  IN CASE code = SOI -> get_soi(d)
       [] code = 192 -> get_sof(s, d, TRUE, FALSE, FALSE)
       [] code = 193 -> get_sof(s, d, FALSE, FALSE, FALSE)
       [] code = 194 -> get_sof(s, d, FALSE, TRUE, FALSE)
       [] code = 201 -> get_sof(s, d, FALSE, FALSE, TRUE)
       [] code = 202 -> get_sof(s, d, FALSE, TRUE, TRUE)
       [] code = SOS -> get_sos(s, d)
       [] code = EOI -> [Done(d, 0) EXCEPT !.stop = "eoi"]
       [] code = DAC -> get_dac(s, d)
       [] code = DHT -> get_dht(s, d)
       [] code = DQT -> get_dqt(s, d)
       [] code = DRI -> get_dri(s, d)
       [] code \in 224 .. 239 \cup {COM} -> process_APPn(s, d)
       [] code \in Parameterless -> Done(d, 0)
       [] code = DNL -> skip_variable(s, d)
       [] OTHER -> Error(d)

(* A turn of the loop of read_markers: finding a marker, unless there is   *)
(* one from the last call, and dealing with it.                            *)
MarkerTurn(s, d) ==
  LET f == IF d.unread_marker # 0 THEN d
           ELSE IF d.saw_SOI THEN next_marker(s, d) ELSE first_marker(s, d)
  IN IF f.stop # "" THEN f ELSE ProcessMarker(s, f)

(* Guessing the colour space of the file.                                  *)
default_decompress_parms(d) ==
  LET ids == [ci \in DOMAIN d.comp_info |-> d.comp_info[ci].id]
  IN CASE d.num_components = 1 -> "GRAYSCALE"
       [] d.num_components = 3 ->
            IF d.saw_JFIF_marker THEN "YCbCr"
            ELSE IF d.saw_Adobe_marker
            THEN IF d.Adobe_transform = 0 THEN "RGB" ELSE "YCbCr"
            ELSE IF ids = << 82, 71, 66 >> THEN "RGB" ELSE "YCbCr"
       [] d.num_components = 4 ->
            IF d.saw_Adobe_marker /\ d.Adobe_transform # 0 THEN "YCCK" ELSE "CMYK"
       [] OTHER -> "UNKNOWN"

(* A new object that saves markers up to limits, by code.                  *)
jinit_marker_reader(limits) ==
  reset_marker_reader(
    [next |-> 0, avail |-> 0, stop |-> "suspended", limits |-> limits, warnings |-> <<>>,
     unread_marker |-> 0, saw_SOI |-> FALSE, saw_SOF |-> FALSE, discarded_bytes |-> 0,
     cur_marker |-> NoMarker, marker_list |-> <<>>, comp_info |-> <<>>,
     is_baseline |-> FALSE, progressive_mode |-> FALSE, arith_code |-> FALSE,
     data_precision |-> Unset, image_height |-> Unset, image_width |-> Unset,
     num_components |-> Unset, input_scan_number |-> 0, comps_in_scan |-> Unset,
     cur_comp_info |-> <<>>, Ss |-> Unset, Se |-> Unset, Ah |-> Unset, Al |-> Unset,
     restart_interval |-> 0, saw_JFIF_marker |-> FALSE, density_unit |-> 0,
     X_density |-> 1, Y_density |-> 1, saw_Adobe_marker |-> FALSE, Adobe_transform |-> 0,
     arith_dc_L |-> [i \in 0 .. NUM_ARITH_TBLS - 1 |-> 0],
     arith_dc_U |-> [i \in 0 .. NUM_ARITH_TBLS - 1 |-> 1],
     arith_ac_K |-> [i \in 0 .. NUM_ARITH_TBLS - 1 |-> 5],
     quant |-> [n \in 0 .. NUM_TBLS - 1 |-> NoTable],
     dc_huff |-> [n \in 0 .. NUM_TBLS - 1 |-> NoTable],
     ac_huff |-> [n \in 0 .. NUM_TBLS - 1 |-> NoTable]])
=============================================================================
