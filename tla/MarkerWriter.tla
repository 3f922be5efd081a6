---------------------------- MODULE MarkerWriter ----------------------------
(***************************************************************************)
(* What the compressor writes around the coded data: jcmarker.c, with the  *)
(* colour spaces of jcparam.c. The parameters of an image are a record c:  *)
(*   space, comps, write_JFIF_header, write_Adobe_marker                   *)
(*     from jpeg_set_colorspace; a component is [id, h, v, tq, dc, ac]     *)
(*   X_density, Y_density, density_unit, height, width, precision          *)
(*   arith_code, progressive_mode, block_size                              *)
(*   arith_dc_L, arith_dc_U, arith_ac_K   by number of a table             *)
(*   quant    number of a table to the table, in natural order             *)
(*   extras   markers of the application, between header and frame         *)
(*   scans    [comps (indices), Ss, Se, Ah, Al, restart_interval]          *)
(*   dc_huff, ac_huff   by number, [bits, huffval]                         *)
(***************************************************************************)
EXTENDS Integers, Sequences, SequencesExt, NaturalOrder

SOI == 216
EOI == 217
SOS == 218
DQT == 219
DRI == 221
DHT == 196
DAC == 204
APP0 == 224
APP14 == 238
COM == 254

SOF(baseline, progressive, arith) ==
  IF arith THEN IF progressive THEN 202 ELSE 201
  ELSE IF progressive THEN 194 ELSE IF baseline THEN 192 ELSE 193

NUM_TBLS == 4         \* NUM_QUANT_TBLS, NUM_HUFF_TBLS
NUM_ARITH_TBLS == 16
MAX_COMPS_IN_SCAN == 4
DCTSIZE == 8

-----------------------------------------------------------------------------
Comp(id, h, v, t) == [id |-> id, h |-> h, v |-> v, tq |-> t, dc |-> t, ac |-> t]

jpeg_set_colorspace(space, input_components) ==
  [space |-> space,
   write_JFIF_header |-> space \in {"GRAYSCALE", "YCbCr"},
   write_Adobe_marker |-> space \in {"RGB", "CMYK", "YCCK"},
   comps |->
     CASE space = "GRAYSCALE" -> << Comp(1, 1, 1, 0) >>
       [] space = "RGB" -> << Comp(82, 1, 1, 0), Comp(71, 1, 1, 0), Comp(66, 1, 1, 0) >>
       [] space = "YCbCr" -> << Comp(1, 2, 2, 0), Comp(2, 1, 1, 1), Comp(3, 1, 1, 1) >>
       [] space = "CMYK" -> << Comp(67, 1, 1, 0), Comp(77, 1, 1, 0),
                               Comp(89, 1, 1, 0), Comp(75, 1, 1, 0) >>
       [] space = "YCCK" -> << Comp(1, 2, 2, 0), Comp(2, 1, 1, 1),
                               Comp(3, 1, 1, 1), Comp(4, 2, 2, 0) >>
       [] space = "UNKNOWN" ->
            [i \in 1 .. input_components |-> Comp(i - 1, 1, 1, 0)]]

-----------------------------------------------------------------------------
emit_marker(code) == <<255, code>>
emit_2bytes(value) == << (value \div 256) % 256, value % 256 >>

(* The last coefficient of a block that is there.                          *)
lim_Se(c) == IF c.block_size < DCTSIZE THEN (c.block_size * c.block_size) - 1 ELSE 63

(* The entries of a table in the order of the file.                        *)
Entries(c, index) ==
  LET order == OrderFor(lim_Se(c) + 1)
  IN [i \in 1 .. lim_Se(c) + 1 |-> c.quant[index][order[i]]]

Precision(c, index) == IF \E q \in Range(Entries(c, index)) : q > 255 THEN 1 ELSE 0

emit_dqt(c, index) ==
  LET prec == Precision(c, index)
      entries == Entries(c, index)
  IN emit_marker(DQT) \o emit_2bytes((Len(entries) * (1 + prec)) + 3)
       \o << index + (16 * prec) >>
       \o IF prec = 0 THEN [k \in DOMAIN entries |-> entries[k] % 256]
          ELSE [k \in 1 .. 2 * Len(entries) |->
                  emit_2bytes(entries[(k + 1) \div 2])[IF k % 2 = 1 THEN 1 ELSE 2]]

emit_dht(tbl, number) ==
  emit_marker(DHT) \o emit_2bytes(Len(tbl.huffval) + 19)
    \o << number >> \o tbl.bits \o tbl.huffval

(* A refinement of DC needs no table, nor does a scan without AC.          *)
UsesDc(scan) == scan.Ss = 0 /\ scan.Ah = 0
UsesAc(scan) == scan.Se # 0

emit_dac(c, scan) ==
  LET dc == {c.comps[ci].dc : ci \in IF UsesDc(scan) THEN Range(scan.comps) ELSE {}}
      ac == {c.comps[ci].ac : ci \in IF UsesAc(scan) THEN Range(scan.comps) ELSE {}}
      Entry(i) ==
        (IF i \in dc THEN << i, c.arith_dc_L[i] + (16 * c.arith_dc_U[i]) >> ELSE <<>>)
          \o (IF i \in ac THEN << i + 16, c.arith_ac_K[i] >> ELSE <<>>)
      entries == FlattenSeq([i \in 1 .. NUM_ARITH_TBLS |-> Entry(i - 1)])
  IN IF entries = <<>> THEN <<>>
     ELSE emit_marker(DAC) \o emit_2bytes(Len(entries) + 2) \o entries

emit_dri(interval) == emit_marker(DRI) \o emit_2bytes(4) \o emit_2bytes(interval)

emit_sof(c, code) ==
  emit_marker(code) \o emit_2bytes((3 * Len(c.comps)) + 8)
    \o << c.precision >> \o emit_2bytes(c.height) \o emit_2bytes(c.width)
    \o << Len(c.comps) >>
    \o FlattenSeq([i \in DOMAIN c.comps |->
         << c.comps[i].id, (16 * c.comps[i].h) + c.comps[i].v, c.comps[i].tq >>])

emit_sos(c, scan) ==
  LET td(ci) == IF UsesDc(scan) THEN c.comps[ci].dc ELSE 0
      ta(ci) == IF UsesAc(scan) THEN c.comps[ci].ac ELSE 0
  IN emit_marker(SOS) \o emit_2bytes((2 * Len(scan.comps)) + 6)
       \o << Len(scan.comps) >>
       \o FlattenSeq([i \in DOMAIN scan.comps |->
            << c.comps[scan.comps[i]].id, (16 * td(scan.comps[i])) + ta(scan.comps[i]) >>])
       \o << scan.Ss, scan.Se, (16 * scan.Ah) + scan.Al >>

emit_pseudo_sos(c) ==
  emit_marker(SOS) \o emit_2bytes(6)
    \o << 0, 0, (c.block_size * c.block_size) - 1, 0 >>

emit_jfif_app0(c) ==
  emit_marker(APP0) \o emit_2bytes(16) \o << 74, 70, 73, 70, 0, 1, 1, c.density_unit >>
    \o emit_2bytes(c.X_density) \o emit_2bytes(c.Y_density) \o << 0, 0 >>

emit_adobe_app14(c) ==
  emit_marker(APP14) \o emit_2bytes(14) \o << 65, 100, 111, 98, 101, 0, 100, 0, 0, 0, 0 >>
    \o << CASE c.space = "YCbCr" -> 1 [] c.space = "YCCK" -> 2 [] OTHER -> 0 >>

write_marker(extra) ==
  emit_marker(extra.code) \o emit_2bytes(Len(extra.data) + 2) \o extra.data

-----------------------------------------------------------------------------
write_file_header(c) ==
  emit_marker(SOI)
    \o (IF c.write_JFIF_header THEN emit_jfif_app0(c) ELSE <<>>)
    \o (IF c.write_Adobe_marker THEN emit_adobe_app14(c) ELSE <<>>)

(* A table is written once: sent holds the numbers of those that were, and *)
(* "unsent" tells the numbers of a sequence that are new, in order.        *)
Unsent(numbers, sent) ==
  LET IsNew(i) == numbers[i] \notin sent /\ \A j \in 1 .. i - 1 : numbers[j] # numbers[i]
  IN [k \in 1 .. Cardinality({i \in DOMAIN numbers : IsNew(i)}) |->
        numbers[CHOOSE i \in DOMAIN numbers :
                  IsNew(i) /\ Cardinality({j \in 1 .. i : IsNew(j)}) = k]]

QuantNumbers(c) == [i \in DOMAIN c.comps |-> c.comps[i].tq]

is_baseline(c) ==
  /\ ~c.arith_code /\ ~c.progressive_mode
  /\ c.precision = 8 /\ c.block_size = DCTSIZE
  /\ \A i \in DOMAIN c.comps : c.comps[i].dc <= 1 /\ c.comps[i].ac <= 1
  /\ \A i \in DOMAIN c.comps : Precision(c, c.comps[i].tq) = 0

write_frame_header(c, sent) ==
  LET new == Unsent(QuantNumbers(c), sent)
  IN FlattenSeq([i \in DOMAIN new |-> emit_dqt(c, new[i])])
       \o emit_sof(c, SOF(is_baseline(c), c.progressive_mode, c.arith_code))
       \o IF c.progressive_mode /\ c.block_size # DCTSIZE THEN emit_pseudo_sos(c) ELSE <<>>

(* DC tables have the numbers 0..3 in the file, AC tables 16..19.          *)
HuffNumbers(c, scan) ==
  FlattenSeq([i \in DOMAIN scan.comps |->
    (IF UsesDc(scan) THEN << c.comps[scan.comps[i]].dc >> ELSE <<>>)
      \o (IF UsesAc(scan) THEN << 16 + c.comps[scan.comps[i]].ac >> ELSE <<>>)])

HuffTable(c, number) ==
  IF number >= 16 THEN c.ac_huff[number - 16] ELSE c.dc_huff[number]

(* last is last_restart_interval.                                          *)
write_scan_header(c, scan, sent, last) ==
  LET new == Unsent(HuffNumbers(c, scan), sent)
  IN (IF c.arith_code THEN emit_dac(c, scan)
      ELSE FlattenSeq([i \in DOMAIN new |-> emit_dht(HuffTable(c, new[i]), new[i])]))
       \o (IF scan.restart_interval # last THEN emit_dri(scan.restart_interval) ELSE <<>>)
       \o emit_sos(c, scan)

write_file_trailer == emit_marker(EOI)

write_tables_only(c) ==
  LET quants == [i \in 1 .. NUM_TBLS |->
                   IF i - 1 \in DOMAIN c.quant THEN emit_dqt(c, i - 1) ELSE <<>>]
      huffs == [i \in 1 .. NUM_TBLS |->
                  (IF i - 1 \in DOMAIN c.dc_huff THEN emit_dht(c.dc_huff[i - 1], i - 1) ELSE <<>>)
                    \o (IF i - 1 \in DOMAIN c.ac_huff THEN emit_dht(c.ac_huff[i - 1], 15 + i)
                        ELSE <<>>)]
  IN emit_marker(SOI) \o FlattenSeq(quants)
       \o (IF c.arith_code THEN <<>> ELSE FlattenSeq(huffs)) \o write_file_trailer
=============================================================================
