---------------------------- MODULE HuffmanCoding ----------------------------
(***************************************************************************)
(* The Huffman entropy coder, jchuff.c, and decoder, jdhuff.c, on the two  *)
(* sides of a line that may damage the data and delivers them in pieces.   *)
(*                                                                         *)
(* A scan may be tried first, to count its symbols and make the best       *)
(* tables for it. The decoder works MCU by MCU; when its input runs out in *)
(* the middle of one it suspends: it puts back everything but some         *)
(* coefficients, and starts the MCU again when there is more input.        *)
(***************************************************************************)
EXTENDS CodedScans, HuffmanTables, Bags

CONSTANTS
  Images,            (* images tried: [component -> sequence of blocks]    *)
  Scripts,           (* scan scripts tried: sequences of scans             *)
  Optimize,          (* optimize_coding tried                              *)
  RestartIntervals,  (* restart_interval tried, in MCUs; 0: none           *)
  Damages,           (* positions of bytes the line may change             *)
  Chunks,            (* how many bytes arrive at a time                    *)
  LimSe,             (* lim_Se: the last coefficient a block may have      *)
  CoefLimit,         (* coef_limit of each component, in sequential scans  *)
  MaxEobRun,         (* 0x7FFF in the code: an EOB run is forced out       *)
  MAX_CORR_BITS      (* 1000 in the code: the buffer of correction bits    *)

HuffmanAssumption ==
  /\ LimSe \in 1..63 /\ RestartIntervals \subseteq Nat /\ Chunks \subseteq Nat \ {0}
  /\ MaxEobRun \in 1..32767 /\ MAX_CORR_BITS > LimSe
  /\ \A sc \in Scripts : \A i \in 1..Len(sc) :
       /\ sc[i].Ss \in 0..sc[i].Se /\ sc[i].Se \in 0..LimSe
       /\ sc[i].Ah \in 0..13 /\ sc[i].Al \in 0..13
       /\ sc[i].Ss # 0 => Len(sc[i].comps) = 1

DCTSIZE2 == LimSe + 1
MIN_GET_BITS == 25

VARIABLES
  pc,       (* "gather", "encode", "transmit", "decode" or "done"          *)
  script, optimize, restart_interval, image, chunk,  (* what, and how      *)
  scan,     (* the scan being coded                                        *)
  mcu,      (* the MCUs of it tried, coded or decoded                      *)
  enc,      (* the encoder: bits of the segment, EOB run, tables, output   *)
  line,     (* bytes that have not arrived yet                             *)
  dec,      (* the decoder: bits, input, EOB run, coefficients so far      *)
  damaged   (* the restart interval that met with damage, or -1            *)

vars == <<pc, script, optimize, restart_interval, image, chunk, scan, mcu,
          enc, line, dec, damaged>>

Components == DOMAIN image
McuCount == Len(image[1])
s == script[scan]
Tables == {"dc", "ac"} \X {0, 1}
Dc(ci) == <<"dc", TableNo(ci)>>
Ac(ci) == <<"ac", TableNo(ci)>>
-----------------------------------------------------------------------------
(* What a coder produces is a sequence of items: symbols, each with its    *)
(* table, and bits that follow as they are.                                *)
Symbol(tbl, sym) == [tbl |-> tbl, sym |-> sym, bits |-> <<>>]
Raw(bits) == [tbl |-> <<>>, sym |-> -1, bits |-> bits]

RECURSIVE Nbits(_)
Nbits(v) == IF v = 0 THEN 0 ELSE 1 + Nbits(v \div 2)

LowBits(v, n) == [i \in 1..n |-> (v \div 2^(n - i)) % 2]

(* The value if positive, the complement of its magnitude if negative.     *)
ValueBits(v, magnitude) ==
  Raw(LowBits(IF v < 0 THEN -magnitude - 1 ELSE magnitude, Nbits(magnitude)))

(* A Huffman symbol and as many bits as it says.                           *)
DcItems(tbl, diff) ==
  LET nbits == Nbits(Absolute(diff))
  IN <<Symbol(tbl, nbits)>>
       \o IF nbits = 0 THEN <<>> ELSE <<ValueBits(diff, Absolute(diff))>>

ZRL == 240

(* A coefficient after r zeros, sixteen of which take a symbol.            *)
AcItems(tbl, r, v, magnitude) ==
  [i \in 1..(r \div 16) |-> Symbol(tbl, ZRL)]
    \o <<Symbol(tbl, 16 * (r % 16) + Nbits(magnitude)), ValueBits(v, magnitude)>>

(* EOBn for the pending run, its low bits, and the correction bits of the  *)
(* blocks in it.                                                           *)
EobItems(tbl, EOBRUN, BE) ==
  IF EOBRUN = 0 THEN <<>>
  ELSE LET nbits == Nbits(EOBRUN) - 1
       IN <<Symbol(tbl, 16 * nbits), Raw(LowBits(EOBRUN, nbits)), Raw(BE)>>

Missing(e, item) == item.sym >= 0 /\ item.sym \notin DOMAIN e.codes[item.tbl]

ItemBits(e, item) ==
  IF item.sym < 0 THEN item.bits ELSE CodeBits(e.codes[item.tbl][item.sym])

(* Counted in the gathering pass, put out in the other.                    *)
Emit(e, items) ==
  LET Used(tbl) == SelectSeq(items, LAMBDA item : item.tbl = tbl)
      Bag(tbl) == LET used == Used(tbl)
                      syms == {used[i].sym : i \in DOMAIN used}
                  IN [x \in syms |-> Cardinality({i \in DOMAIN used : used[i].sym = x})]
  IN IF e.gather
     THEN [e EXCEPT !.counts = [tbl \in Tables |-> @[tbl] (+) Bag(tbl)]]
     ELSE IF \E i \in DOMAIN items : Missing(e, items[i])
     THEN [e EXCEPT !.missing = TRUE]
     ELSE [e EXCEPT !.bits =
             @ \o FlattenSeq([i \in DOMAIN items |-> ItemBits(e, items[i])])]

-----------------------------------------------------------------------------
(* The run of zeros before coefficient k when the last nonzero one before  *)
(* it, or the beginning of the band, is in from.                           *)
LastBefore(nonzero, k, Ss) ==
  LET before == {j \in nonzero : j < k}
  IN IF before = {} THEN Ss - 1 ELSE Max(before)

Coefficients(tbl, block, nonzero, Ss, Al) ==
  LET Items(k) == AcItems(tbl, (k - LastBefore(nonzero, k, Ss)) - 1, block[k],
                          Shifted(block[k], Al))
  IN FlattenSeq([k \in 1..LimSe |-> IF k \in nonzero THEN Items(k) ELSE <<>>])

encode_one_block(e, ci, block) ==
  LET nonzero == {k \in 1..LimSe : block[k] # 0}
  IN Emit([e EXCEPT !.last_dc_val[ci] = block[0]],
          DcItems(Dc(ci), block[0] - e.last_dc_val[ci])
            \o Coefficients(Ac(ci), block, nonzero, 1, 0)
            \o IF LimSe \in nonzero THEN <<>> ELSE <<Symbol(Ac(ci), 0)>>)

(* The symbols alone, figured a second time: it must agree with the above. *)
htest_one_block(e, ci, block) ==
  LET nonzero == {k \in 1..LimSe : block[k] # 0}
      Run(k) == (k - LastBefore(nonzero, k, 1)) - 1
      Symbols(k) ==
        [i \in 1..(Run(k) \div 16) |-> Symbol(Ac(ci), ZRL)]
          \o <<Symbol(Ac(ci), 16 * (Run(k) % 16) + Nbits(Absolute(block[k])))>>
  IN Emit([e EXCEPT !.last_dc_val[ci] = block[0]],
          <<Symbol(Dc(ci), Nbits(Absolute(block[0] - e.last_dc_val[ci])))>>
            \o FlattenSeq([k \in 1..LimSe |->
                             IF k \in nonzero THEN Symbols(k) ELSE <<>>])
            \o IF LimSe \in nonzero THEN <<>> ELSE <<Symbol(Ac(ci), 0)>>)

encode_mcu_DC_first(e, ci, block) ==
  LET v == block[0] \div 2^s.Al
  IN Emit([e EXCEPT !.last_dc_val[ci] = v],
          DcItems(Dc(ci), v - e.last_dc_val[ci]))

emit_eobrun(e, tbl) ==
  Emit([e EXCEPT !.EOBRUN = 0, !.BE = <<>>], EobItems(tbl, e.EOBRUN, e.BE))

(* A block that ends in zeros is counted in the EOB run, which is not put  *)
(* out before it must.                                                     *)
encode_mcu_AC_first(e, ci, block) ==
  LET nonzero == {k \in s.Ss..s.Se : Shifted(block[k], s.Al) # 0}
      f == IF nonzero = {} THEN e
           ELSE Emit(emit_eobrun(e, Ac(ci)),
                     Coefficients(Ac(ci), block, nonzero, s.Ss, s.Al))
      g == IF s.Se \in nonzero THEN f ELSE [f EXCEPT !.EOBRUN = @ + 1]
  IN IF g.EOBRUN = MaxEobRun THEN emit_eobrun(g, Ac(ci)) ELSE g

encode_mcu_DC_refine(e, ci, block) ==
  Emit(e, <<Raw(<<(block[0] \div 2^s.Al) % 2>>)>>)

MustForceOutLate(e) == e.EOBRUN = MaxEobRun \/ Len(e.BE) > MAX_CORR_BITS - 1

(* The run is forced out before its counter or the buffer could overflow.  *)
MustForceOut(e) ==
  e.EOBRUN = MaxEobRun \/ Len(e.BE) > (MAX_CORR_BITS - DCTSIZE2) + 1

(* One pass over the band: r zeros and the correction bits BR since the    *)
(* last symbol; a ZRL that can be folded into the EOB run is not put out.  *)
RECURSIVE RefineFrom(_, _, _, _, _, _)
RefineFrom(e, ci, block, k, r, BR) ==
  LET magnitude == Shifted(block[k], s.Al)
      EOB == Max({0} \cup {j \in s.Ss..s.Se : Shifted(block[j], s.Al) = 1})
      high == [e EXCEPT !.high = Max({@, Len(e.BE) + Len(BR)})]
      flushed == emit_eobrun(high, Ac(ci))
      counted == [high EXCEPT !.EOBRUN = @ + 1, !.BE = @ \o BR]
  IN IF k > s.Se
       THEN IF r = 0 /\ BR = <<>> THEN high
            ELSE IF MustForceOut(counted) THEN emit_eobrun(counted, Ac(ci))
            ELSE counted
     ELSE IF magnitude = 0 THEN RefineFrom(e, ci, block, k + 1, r + 1, BR)
     ELSE IF r > 15 /\ k <= EOB
       THEN RefineFrom(Emit(flushed, <<Symbol(Ac(ci), ZRL), Raw(BR)>>),
                       ci, block, k, r - 16, <<>>)
     ELSE IF magnitude > 1
       THEN RefineFrom(e, ci, block, k + 1, r, Append(BR, magnitude % 2))
     ELSE RefineFrom(
            Emit(flushed, <<Symbol(Ac(ci), 16 * r + 1),
                            Raw(<<IF block[k] < 0 THEN 0 ELSE 1>>), Raw(BR)>>),
            ci, block, k + 1, 0, <<>>)

encode_mcu_AC_refine(e, ci, block) ==
  RefineFrom(e, ci, block, s.Ss, 0, <<>>)

EncodeBlock(e, ci, block) ==
  CASE ~s.progressive /\ e.gather -> htest_one_block(e, ci, block)
    [] ~s.progressive /\ ~e.gather -> encode_one_block(e, ci, block)
    [] s.progressive /\ s.Ah = 0 /\ s.Ss = 0 -> encode_mcu_DC_first(e, ci, block)
    [] s.progressive /\ s.Ah = 0 /\ s.Ss > 0 -> encode_mcu_AC_first(e, ci, block)
    [] s.progressive /\ s.Ah > 0 /\ s.Ss = 0 -> encode_mcu_DC_refine(e, ci, block)
    [] s.progressive /\ s.Ah > 0 /\ s.Ss > 0 -> encode_mcu_AC_refine(e, ci, block)

-----------------------------------------------------------------------------
Stuffed(byte) == IF byte = 255 THEN <<255, 0>> ELSE <<byte>>

(* Bytes of the segment, the last filled up with ones, each FF stuffed.    *)
StuffedBytes(bits) ==
  LET Filled(i) == IF i <= Len(bits) THEN bits[i] ELSE 1
      Byte(n) == FoldSet(LAMBDA i, sum : sum + Filled(8 * n - 8 + i) * 2^(8 - i),
                         0, 1..8)
  IN FlattenSeq([n \in 1..((Len(bits) + 7) \div 8) |-> Stuffed(Byte(n))])

flush_bits(e) == [e EXCEPT !.out = @ \o StuffedBytes(e.bits), !.bits = <<>>]

NoPredictions == [ci \in Components |-> 0]

emit_restart(before) ==
  LET e == IF s.progressive /\ s.Ss > 0
           THEN emit_eobrun(before, Ac(s.comps[1])) ELSE before
      f == [flush_bits(e) EXCEPT !.out = @ \o <<255, RST0 + e.next_restart_num>>]
  IN [(IF e.gather THEN e ELSE f)
        EXCEPT !.last_dc_val = NoPredictions, !.restarts_to_go = restart_interval,
               !.next_restart_num = (@ + 1) % 8]

AtRestart(e) == restart_interval > 0 /\ e.restarts_to_go = 0

Counted(e) ==
  IF restart_interval > 0 THEN [e EXCEPT !.restarts_to_go = @ - 1] ELSE e

(* A progressive scan is always tried first, unless it needs no table.     *)
Tried(n) ==
  optimize /\ (script[n].Ss # 0 \/ script[n].Ah = 0)

(* The tables a scan uses.                                                 *)
NeededIn(sc) ==
  {tbl \in Tables : /\ \E i \in 1..Len(sc.comps) : TableNo(sc.comps[i]) = tbl[2]
                    /\ tbl[1] = "dc" => sc.Ss = 0 /\ sc.Ah = 0
                    /\ tbl[1] = "ac" => sc.Se > 0}

start_pass_huff(e, n, gather) ==
  [e EXCEPT !.gather = gather, !.bits = <<>>, !.EOBRUN = 0, !.BE = <<>>,
            !.last_dc_val = NoPredictions, !.restarts_to_go = restart_interval,
            !.next_restart_num = 0, !.out = <<>>,
            !.counts = [tbl \in Tables |-> EmptyBag],
            !.codes = IF gather THEN @
                      ELSE [tbl \in NeededIn(script[n]) |->
                        jpeg_make_c_derived_tbl(tbl[1] = "dc", e.tables[tbl])]]

(* New tables for what was counted.                                        *)
finish_pass_gather(before) ==
  LET e == IF s.progressive /\ s.Ss > 0
           THEN emit_eobrun(before, Ac(s.comps[1])) ELSE before
  IN [e EXCEPT !.tables = [tbl \in Tables |->
        IF e.counts[tbl] = EmptyBag THEN @[tbl]
        ELSE jpeg_gen_optimal_table(e.counts[tbl])]]

finish_pass_huff(e) ==
  flush_bits(IF s.progressive /\ s.Ss > 0 THEN emit_eobrun(e, Ac(s.comps[1])) ELSE e)

-----------------------------------------------------------------------------
(* The decoder, a record as well. ok is false once it must suspend; v is   *)
(* what the last routine returned; newnz the coefficients of the block     *)
(* that this attempt has made nonzero.                                     *)
ByteBits(byte) == [i \in 1..8 |-> (byte \div 2^(8 - i)) % 2]

(* The position of the first byte after FF bytes, or one past the end.     *)
PastFill(input) ==
  Min({p \in 1..Len(input) : input[p] # 255} \cup {Len(input) + 1})

RECURSIVE LoadTo(_, _), LoadFrom(_, _, _)
LoadFrom(d, p, enough) ==
  IF p > Len(d.input) THEN [d EXCEPT !.ok = FALSE]
  ELSE IF p > 1 /\ d.input[p] # 0
    THEN [d EXCEPT !.unread_marker = d.input[p], !.input = SubSeq(@, p + 1, Len(@))]
  ELSE LoadTo([d EXCEPT !.bits = @ \o ByteBits(IF p = 1 THEN d.input[1] ELSE 255),
                        !.input = SubSeq(@, p + 1, Len(@))], enough)

(* Bytes into the bit buffer until it has enough, a marker is met or there *)
(* are no more; FF, any FF after it, and a zero are one FF.                *)
LoadTo(d, enough) ==
  IF Len(d.bits) >= enough \/ d.unread_marker # 0 THEN d
  ELSE LoadFrom(d, PastFill(d.input), enough)

LoadBytes(d) == LoadTo(d, MIN_GET_BITS)

(* At a marker zeros are made up, unless what is left is enough.           *)
MadeUp(d, nbits) ==
  IF ~d.ok \/ nbits <= Len(d.bits) THEN d
  ELSE [d EXCEPT !.insufficient_data = TRUE,
          !.bits = @ \o [i \in 1..(MIN_GET_BITS - Len(@)) |-> 0]]

jpeg_fill_bit_buffer(d, nbits) == MadeUp(LoadBytes(d), nbits)

CHECK_BIT_BUFFER(d, n) ==
  IF d.ok /\ Len(d.bits) < n THEN jpeg_fill_bit_buffer(d, n) ELSE d

Taken(d, n) ==
  IF d.ok THEN [d EXCEPT !.v = GetBits(d.bits, 1, n),
                         !.bits = SubSeq(@, n + 1, Len(@))]
  ELSE d

GET_BITS(d, n) == Taken(CHECK_BIT_BUFFER(d, n), n)

(* The code so far is the prefix and the bits just read, n bits in all.    *)
RECURSIVE CodeOrMore(_, _, _, _)
CodeOrMore(d, dtbl, prefix, n) ==
  IF ~d.ok THEN d
  ELSE IF prefix + d.v <= dtbl.maxcode[n]
  THEN [d EXCEPT !.v = IF n > 16 THEN 0
                       ELSE dtbl.huffval[prefix + @ + dtbl.valoffset[n]]]
  ELSE CodeOrMore(GET_BITS(d, 1), dtbl, 2 * (prefix + d.v), n + 1)

SlowDecode(d, dtbl, min_bits) ==
  CodeOrMore(GET_BITS(d, min_bits), dtbl, 0, min_bits)

Looked(d, dtbl) ==
  LET look == dtbl.look[GetBits(d.bits, 1, HUFF_LOOKAHEAD)]
      few == Len(d.bits) < HUFF_LOOKAHEAD
  IN IF ~d.ok THEN d
     ELSE IF few \/ look[1] = 0
       THEN SlowDecode(d, dtbl, IF few THEN 1 ELSE HUFF_LOOKAHEAD + 1)
     ELSE [d EXCEPT !.v = look[2], !.bits = SubSeq(@, look[1] + 1, Len(@))]

(* The next symbol of a table.                                             *)
DecodeSymbol(d, tbl) ==
  Looked(IF Len(d.bits) < HUFF_LOOKAHEAD THEN jpeg_fill_bit_buffer(d, 0) ELSE d,
         d.dtbls[tbl])

HUFF_EXTEND(x, size) == IF x < 2^(size - 1) THEN (x - 2^size) + 1 ELSE x

Extended(d, size) ==
  [d EXCEPT !.v = IF size = 0 \/ ~d.ok THEN 0 ELSE HUFF_EXTEND(@, size)]

(* The value of that many bits.                                            *)
ReceiveValue(d, size) == Extended(GET_BITS(d, size), size)

JCOEF(v) == ((v + 32768) % 65536) - 32768

(* natural_order has extra entries, for a k beyond the block: they stand   *)
(* for the last coefficient of a full one.                                 *)
Store(d, ci, k, v) ==
  IF k > LimSe /\ LimSe < 63 THEN d
  ELSE [d EXCEPT !.image[ci][mcu + 1][IF k > LimSe THEN 63 ELSE k] = JCOEF(v)]

Coef(d, ci, k) == d.image[ci][mcu + 1][k]

(* The value that a symbol announces.                                      *)
Valued(sym) == IF sym.ok THEN ReceiveValue(sym, sym.v % 16) ELSE sym

StoreDc(d, ci, Al) ==
  LET v == d.v + d.last_dc_val[ci]
  IN IF d.ok THEN Store([d EXCEPT !.last_dc_val[ci] = v], ci, 0, v * 2^Al) ELSE d

DecodeDc(d, ci, Al) == StoreDc(Valued(DecodeSymbol(d, Dc(ci))), ci, Al)

(* Coefficients of a sequential block; those at the limit and beyond it    *)
(* are read but not kept.                                                  *)
RECURSIVE DecodeAc(_, _, _), AcSymbol(_, _, _), AcValue(_, _, _, _)
AcValue(d, ci, k, at) ==
  DecodeAc(IF d.ok /\ k < CoefLimit[ci] THEN Store(d, ci, at, d.v) ELSE d, ci, at + 1)

AcSymbol(sym, ci, k) ==
  IF ~sym.ok THEN sym
  ELSE IF sym.v % 16 # 0 THEN AcValue(Valued(sym), ci, k, k + sym.v \div 16)
  ELSE IF sym.v = ZRL THEN DecodeAc(sym, ci, k + 16)
  ELSE sym

DecodeAc(d, ci, k) ==
  IF ~d.ok \/ k > LimSe THEN d ELSE AcSymbol(DecodeSymbol(d, Ac(ci)), ci, k)

decode_mcu(d, ci) ==
  DecodeAc(IF CoefLimit[ci] = 0 THEN Valued(DecodeSymbol(d, Dc(ci)))
           ELSE DecodeDc(d, ci, 0), ci, 1)

decode_mcu_DC_first(d, ci) == DecodeDc(d, ci, s.Al)

(* EOBn: 2^n blocks and as many more as n bits say.                        *)
RunOf(d, n) == IF d.ok THEN [d EXCEPT !.EOBRUN = 2^n + d.v] ELSE d
StartEobRun(d, n) == RunOf(GET_BITS(d, n), n)

CountedOff(d) == IF d.ok THEN [d EXCEPT !.EOBRUN = @ - 1] ELSE d

RECURSIVE DecodeBand(_, _, _), BandSymbol(_, _, _), BandValue(_, _, _)
BandValue(d, ci, at) ==
  DecodeBand(IF d.ok THEN Store(d, ci, at, d.v * 2^s.Al) ELSE d, ci, at + 1)

BandSymbol(sym, ci, k) ==
  IF ~sym.ok THEN sym
  ELSE IF sym.v % 16 # 0 THEN BandValue(Valued(sym), ci, k + sym.v \div 16)
  ELSE IF sym.v = ZRL THEN DecodeBand(sym, ci, k + 16)
  ELSE CountedOff(StartEobRun(sym, sym.v \div 16))

DecodeBand(d, ci, k) ==
  IF ~d.ok \/ k > s.Se THEN d ELSE BandSymbol(DecodeSymbol(d, Ac(ci)), ci, k)

decode_mcu_AC_first(d, ci) ==
  IF d.EOBRUN > 0 THEN CountedOff(d) ELSE DecodeBand(d, ci, s.Ss)

BitSet(v) == (v \div 2^s.Al) % 2 = 1

DcRefined(d, ci) ==
  LET v == Coef(d, ci, 0)
  IN IF d.ok /\ d.v = 1 /\ ~BitSet(v) THEN Store(d, ci, 0, v + 2^s.Al) ELSE d

decode_mcu_DC_refine(d, ci) == DcRefined(GET_BITS(d, 1), ci)

(* A correction bit of a nonzero coefficient, which may have been applied  *)
(* by an attempt that was suspended.                                       *)
Corrected(d, ci, k) ==
  LET v == Coef(d, ci, k)
  IN IF ~d.ok \/ d.v = 0 \/ BitSet(v) THEN d
     ELSE Store(d, ci, k, IF v >= 0 THEN v + 2^s.Al ELSE v - 2^s.Al)

Correct(d, ci, k) == Corrected(GET_BITS(d, 1), ci, k)

(* Past r zeros and the nonzero coefficients among them, which are         *)
(* corrected; v is then where that ends.                                   *)
RECURSIVE PassZeros(_, _, _, _)
PassZeros(d, ci, k, r) ==
  IF ~d.ok THEN d
  ELSE IF k > s.Se THEN [d EXCEPT !.v = k]
  ELSE IF Coef(d, ci, k) # 0 THEN PassZeros(Correct(d, ci, k), ci, k + 1, r)
  ELSE IF r = 0 THEN [d EXCEPT !.v = k]
  ELSE PassZeros(d, ci, k + 1, r - 1)

RECURSIVE CorrectRest(_, _, _)
CorrectRest(d, ci, k) ==
  IF ~d.ok THEN d
  ELSE IF k > s.Se THEN CountedOff(d)
  ELSE CorrectRest(IF Coef(d, ci, k) # 0 THEN Correct(d, ci, k) ELSE d, ci, k + 1)

(* Symbols of a refinement: a zero run and a new coefficient, of either    *)
(* sign; a ZRL; or an EOB run, which leaves the rest of the band.          *)
RECURSIVE RefineBand(_, _, _), RefineSymbol(_, _, _), NewCoef(_, _, _), Onward(_, _)
Onward(d, ci) == RefineBand(d, ci, d.v + 1)

NewCoef(d, ci, v) ==
  Onward(IF d.ok THEN [Store(d, ci, d.v, v) EXCEPT !.newnz = @ \cup {d.v}] ELSE d, ci)

SignedCoef(sign, ci, k, r) ==
  NewCoef(PassZeros(sign, ci, k, r), ci, IF sign.v = 1 THEN 2^s.Al ELSE -2^s.Al)

RefineSymbol(sym, ci, k) ==
  IF ~sym.ok THEN sym
  ELSE IF sym.v % 16 # 0 THEN SignedCoef(GET_BITS(sym, 1), ci, k, sym.v \div 16)
  ELSE IF sym.v = ZRL THEN Onward(PassZeros(sym, ci, k, 15), ci)
  ELSE CorrectRest(StartEobRun(sym, sym.v \div 16), ci, k)

RefineBand(d, ci, k) ==
  IF ~d.ok \/ k > s.Se THEN d ELSE RefineSymbol(DecodeSymbol(d, Ac(ci)), ci, k)

(* They are left as they are.                                              *)
NotUndone(d, ci) == d

(* Suspended, the coefficients made nonzero must be zero again: the next   *)
(* attempt would take them for old ones.                                   *)
Undone(d, ci) ==
  [d EXCEPT !.image[ci][mcu + 1] =
     [k \in DOMAIN @ |-> IF k \in d.newnz THEN 0 ELSE @[k]]]

RefineBlock(d, ci) ==
  IF d.EOBRUN > 0 THEN CorrectRest(d, ci, s.Ss) ELSE RefineBand(d, ci, s.Ss)

WholeOrUndone(d, ci) == IF d.ok THEN d ELSE Undone(d, ci)

decode_mcu_AC_refine(d, ci) ==
  WholeOrUndone(RefineBlock([d EXCEPT !.newnz = {}], ci), ci)

DecodeBlock(d, ci) ==
  CASE ~d.ok -> d
    [] d.ok /\ ~s.progressive -> decode_mcu(d, ci)
    [] d.ok /\ s.progressive /\ s.Ah = 0 /\ s.Ss = 0 -> decode_mcu_DC_first(d, ci)
    [] d.ok /\ s.progressive /\ s.Ah = 0 /\ s.Ss > 0 -> decode_mcu_AC_first(d, ci)
    [] d.ok /\ s.progressive /\ s.Ah > 0 /\ s.Ss = 0 -> decode_mcu_DC_refine(d, ci)
    [] d.ok /\ s.progressive /\ s.Ah > 0 /\ s.Ss > 0 -> decode_mcu_AC_refine(d, ci)

-----------------------------------------------------------------------------
(* Skip data until a marker; suspended when it is not there yet.           *)
next_marker(d) ==
  LET at == {p \in 1..(Len(d.input) - 1) :
               d.input[p] = 255 /\ d.input[p + 1] \notin {0, 255}}
  IN IF at = {} THEN [d EXCEPT !.ok = FALSE]
     ELSE [d EXCEPT !.unread_marker = d.input[Min(at) + 1],
                    !.input = SubSeq(@, Min(at) + 2, Len(@))]

(* An unexpected marker: one of the next two restarts, or no restart at    *)
(* all, is left for later; one of the last two is skipped; another is      *)
(* taken for the expected one.                                             *)
RECURSIVE jpeg_resync_to_restart(_)
jpeg_resync_to_restart(d) ==
  LET ahead == (d.unread_marker - (RST0 + d.next_restart_num)) % 8
  IN IF ~d.ok \/ d.unread_marker \notin RST0..(RST0 + 7) \/ ahead \in 1..2 THEN d
     ELSE IF ahead \in 6..7 THEN jpeg_resync_to_restart(next_marker(d))
     ELSE [d EXCEPT !.unread_marker = 0]

TakenOrResynced(d) ==
  IF d.unread_marker = RST0 + d.next_restart_num
  THEN [d EXCEPT !.unread_marker = 0] ELSE jpeg_resync_to_restart(d)

NextExpected(d) == IF d.ok THEN [d EXCEPT !.next_restart_num = (@ + 1) % 8] ELSE d

read_restart_marker(d) ==
  NextExpected(TakenOrResynced(IF d.unread_marker = 0 THEN next_marker(d) ELSE d))

Restarted(d) ==
  IF ~d.ok THEN d
  ELSE [d EXCEPT !.last_dc_val = NoPredictions, !.EOBRUN = 0,
                 !.restarts_to_go = restart_interval,
                 !.insufficient_data = @ /\ d.unread_marker # 0]

process_restart(d) == Restarted(read_restart_marker([d EXCEPT !.bits = <<>>]))

start_pass_huff_decoder(d, tables) ==
  [d EXCEPT !.bits = <<>>, !.input = <<>>, !.unread_marker = 0, !.ok = TRUE,
            !.insufficient_data = FALSE, !.EOBRUN = 0,
            !.last_dc_val = NoPredictions, !.restarts_to_go = restart_interval,
            !.next_restart_num = 0,
            !.dtbls = [tbl \in NeededIn(s) |->
              jpeg_make_d_derived_tbl(tbl[1] = "dc", tables[tbl])]]
-----------------------------------------------------------------------------
StandardTables ==
  [tbl \in Tables |-> std_huff_tables[tbl[1] = "ac"][tbl[2]]]

Init ==
  /\ scan = 1 /\ mcu = 0 /\ damaged = -1 /\ line = <<>>
  /\ script \in Scripts /\ restart_interval \in RestartIntervals
  /\ image \in Images /\ optimize \in Optimize /\ chunk \in Chunks
  /\ script[1].progressive => optimize
  /\ pc = (IF Tried(1) THEN "gather" ELSE "encode")
  /\ enc = start_pass_huff(
       [gather |-> FALSE, bits |-> <<>>, out |-> <<>>, counts |-> <<>>,
        codes |-> <<>>, tables |-> StandardTables, EOBRUN |-> 0, BE |-> <<>>,
        high |-> 0, missing |-> FALSE, last_dc_val |-> NoPredictions,
        restarts_to_go |-> 0, next_restart_num |-> 0], 1, Tried(1))
  /\ dec = [bits |-> <<>>, input |-> <<>>, unread_marker |-> 0, ok |-> TRUE,
            insufficient_data |-> FALSE, EOBRUN |-> 0, v |-> 0, newnz |-> {},
            last_dc_val |-> NoPredictions, restarts_to_go |-> 0,
            next_restart_num |-> 0, dtbls |-> <<>>,
            image |-> [ci \in Components |->
                         [n \in 1..McuCount |-> [k \in 0..LimSe |-> 0]]]]

EncodeMcu ==
  /\ pc \in {"gather", "encode"} /\ mcu < McuCount
  /\ enc' = LET started == Counted(IF AtRestart(enc) THEN emit_restart(enc)
                                   ELSE enc)
                Step(e, ci) == EncodeBlock(e, ci, image[ci][mcu + 1])
            IN FoldLeft(Step, started, s.comps)
  /\ mcu' = mcu + 1
  /\ UNCHANGED <<pc, script, optimize, restart_interval, image, chunk, scan,
                 line, dec, damaged>>

FinishGather ==
  /\ pc = "gather" /\ mcu = McuCount /\ pc' = "encode" /\ mcu' = 0
  /\ enc' = start_pass_huff(finish_pass_gather(enc), scan, FALSE)
  /\ UNCHANGED <<script, optimize, restart_interval, image, chunk, scan, line,
                 dec, damaged>>

FinishScan ==
  /\ pc = "encode" /\ mcu = McuCount /\ pc' = "transmit"
  /\ enc' = finish_pass_huff(enc)
  /\ UNCHANGED <<script, optimize, restart_interval, image, chunk, scan, mcu,
                 line, dec, damaged>>

Deliver(bytes) ==
  /\ line' = bytes \o <<255, EOI>>
  /\ dec' = start_pass_huff_decoder(dec, enc.tables)
  /\ pc' = "decode" /\ mcu' = 0
  /\ UNCHANGED <<script, optimize, restart_interval, image, chunk, scan, enc>>

Transmit == pc = "transmit" /\ Deliver(enc.out) /\ UNCHANGED damaged

Change ==
  /\ pc = "transmit" /\ damaged = -1
  /\ \E n \in Damages \cap Changeable(enc.out) :
       /\ Deliver(Changed(enc.out, n))
       /\ damaged' = IntervalAt(enc.out, n)

Lose ==
  /\ pc = "transmit" /\ damaged = -1
  /\ \E n \in 1..IntervalAt(enc.out, Len(enc.out)) :
       Deliver(Lost(enc.out, n)) /\ damaged' = n

(* The application feeds a decoder that is suspended.                      *)
Arrive ==
  /\ pc = "decode" /\ ~dec.ok /\ line # <<>>
  /\ dec' = [dec EXCEPT !.ok = TRUE,
                        !.input = @ \o SubSeq(line, 1, Min({chunk, Len(line)}))]
  /\ line' = SubSeq(line, chunk + 1, Len(line))
  /\ UNCHANGED <<pc, script, optimize, restart_interval, image, chunk, scan,
                 mcu, enc, damaged>>

(* Out of data, an MCU is left as it is, but DC refinement goes on: it     *)
(* changes nothing when it reads zeros.                                    *)
Attempted(ready) ==
  IF /\ ready.ok /\ ready.insufficient_data
     /\ ~(s.progressive /\ s.Ah > 0 /\ s.Ss = 0)
  THEN ready ELSE FoldLeft(DecodeBlock, ready, s.comps)

(* An attempt at an MCU. Suspended, only what was done at the restart and  *)
(* some coefficients remain.                                               *)
DecodeMcu ==
  /\ pc = "decode" /\ mcu < McuCount /\ dec.ok
  /\ \E ready \in {IF AtRestart(dec) THEN process_restart(dec) ELSE dec} :
       \E tried \in {Attempted(ready)} :
         /\ dec' = IF tried.ok THEN [Counted(tried) EXCEPT !.newnz = {}, !.v = 0]
                   ELSE [ready EXCEPT !.image = tried.image, !.ok = FALSE]
         /\ mcu' = mcu + (IF tried.ok THEN 1 ELSE 0)
  /\ UNCHANGED <<pc, script, optimize, restart_interval, image, chunk, scan,
                 enc, line, damaged>>

NextScan ==
  /\ pc = "decode" /\ mcu = McuCount /\ scan < Len(script)
  /\ scan' = scan + 1 /\ mcu' = 0 /\ line' = <<>>
  /\ pc' = (IF Tried(scan + 1) THEN "gather" ELSE "encode")
  /\ enc' = start_pass_huff(enc, scan + 1, Tried(scan + 1))
  /\ UNCHANGED <<script, optimize, restart_interval, image, chunk, dec, damaged>>

Finish ==
  /\ pc = "decode" /\ mcu = McuCount /\ scan = Len(script) /\ pc' = "done"
  /\ UNCHANGED <<script, optimize, restart_interval, image, chunk, scan, mcu,
                 enc, line, dec, damaged>>

Stay == pc = "done" /\ UNCHANGED vars

Next == EncodeMcu \/ FinishGather \/ FinishScan \/ Transmit \/ Change \/ Lose
          \/ Arrive \/ DecodeMcu \/ NextScan \/ Finish \/ Stay

Spec == Init /\ [][Next]_vars
-----------------------------------------------------------------------------
Kept(ci) == IF s.progressive THEN 0..LimSe ELSE 0..(CoefLimit[ci] - 1)

Faithful(ci, n, scans) ==
  \A k \in Kept(ci) :
    dec.image[ci][n][k] = Approximation(script, ci, k, scans, image[ci][n][k])

(* The bit buffer never has more than its 32 bits, and the EOB run and the *)
(* predictions stay what the scan allows.                                  *)
TypeOK ==
  /\ pc \in {"gather", "encode", "transmit", "decode", "done"}
  /\ mcu \in 0..McuCount /\ scan \in 1..Len(script)
  /\ Len(dec.bits) <= 32 /\ dec.unread_marker \in 0..254
  /\ enc.EOBRUN \in 0..(MaxEobRun - 1) /\ Len(enc.BE) <= MAX_CORR_BITS
  /\ damaged = -1 => dec.EOBRUN \in 0..(MaxEobRun - 1)
  /\ enc.EOBRUN > 0 \/ enc.BE # <<>> => s.progressive /\ s.Ss > 0

(* What is not damaged is decoded as it was encoded, to the precision of   *)
(* the scans, no matter where in an MCU the input ran out and how often:   *)
(* an attempt that was suspended leaves no trace.                          *)
RoundTrip ==
  pc \in {"decode", "done"} /\ damaged = -1 =>
    \A j \in 1..Len(s.comps), n \in 1..mcu : Faithful(s.comps[j], n, scan)

(* A changed byte or a lost interval costs the MCUs of its own restart     *)
(* interval and no other, although a wrong code may swallow any number of  *)
(* bits and start an EOB run of any length.                                *)
DamageIsContained ==
  pc \in {"decode", "done"} /\ damaged >= 0 =>
    \A j \in 1..Len(s.comps), n \in 1..mcu :
      \/ restart_interval = 0
      \/ (n - 1) \div restart_interval = damaged
      \/ Faithful(s.comps[j], n, scan)

(* In the output of a scan FF is followed by a zero or a restart marker.   *)
CleanOutput ==
  pc = "transmit" =>
    \A i \in 1..Len(enc.out) :
      enc.out[i] = 255 =>
        i < Len(enc.out) /\ (enc.out[i + 1] = 0 \/ IsRestart(enc.out, i))

(* The pass that counts and the pass that writes agree: every symbol that  *)
(* is written has a code, in the tables made for the scan or the standard. *)
NoMissingCode == ~enc.missing

(* The correction bits of an EOB run and of the block at hand always fit   *)
(* in the buffer, which is never tested where they are stored.             *)
CorrectionBitsFit == enc.high <= MAX_CORR_BITS
=============================================================================
