-------------------------- MODULE ArithmeticCoding --------------------------
(***************************************************************************)
(* The arithmetic entropy coder, jcarith.c, and decoder, jdarith.c, on the *)
(* two sides of a stream that may be damaged on its way.                   *)
(*                                                                         *)
(* An image is coded in scans, a scan in MCUs, an MCU in binary decisions, *)
(* each with the statistics bin it is conditioned on. The encoder knows    *)
(* the decisions of an MCU beforehand; the decoder asks for them one by    *)
(* one. Bins adapt on both sides and must stay equal.                      *)
(***************************************************************************)
EXTENDS CodedScans

CONSTANTS
  Images,            (* images tried: [component -> sequence of blocks]    *)
  Scripts,           (* scan scripts tried: sequences of scans             *)
  RestartIntervals,  (* restart_interval tried, in MCUs; 0: none           *)
  Damages,           (* what may happen to the bytes of a scan             *)
  LimSe              (* lim_Se: the last coefficient a block may have      *)

ArithmeticAssumption ==
  /\ LimSe \in 1..63 /\ RestartIntervals \subseteq Nat
  /\ \A sc \in Scripts : \A i \in 1..Len(sc) :
       /\ sc[i].Ss \in 0..sc[i].Se /\ sc[i].Se \in 0..LimSe
       /\ sc[i].Ah \in 0..13 /\ sc[i].Al \in 0..13
       /\ sc[i].Ss # 0 => Len(sc[i].comps) = 1

(* The conditioning: arith_dc_L, arith_dc_U and arith_ac_K of every table. *)
arith_dc_L == 0
arith_dc_U == 1
arith_ac_K == 5

(* Qe_Value, Next_Index_LPS, Next_Index_MPS, Switch_MPS of each state.     *)
jpeg_aritab ==
  << <<23069, 1, 1, 1>>, <<9606, 14, 2, 0>>, <<4372, 16, 3, 0>>,
     <<2059, 18, 4, 0>>, <<984, 20, 5, 0>>, <<474, 23, 6, 0>>,
     <<229, 25, 7, 0>>, <<111, 28, 8, 0>>, <<54, 30, 9, 0>>,
     <<26, 33, 10, 0>>, <<13, 35, 11, 0>>, <<6, 9, 12, 0>>, <<3, 10, 13, 0>>,
     <<1, 12, 13, 0>>, <<23167, 15, 15, 1>>, <<16165, 36, 16, 0>>,
     <<11506, 38, 17, 0>>, <<8316, 39, 18, 0>>, <<6073, 40, 19, 0>>,
     <<4482, 42, 20, 0>>, <<3311, 43, 21, 0>>, <<2465, 45, 22, 0>>,
     <<1839, 46, 23, 0>>, <<1372, 48, 24, 0>>, <<1030, 49, 25, 0>>,
     <<771, 51, 26, 0>>, <<576, 52, 27, 0>>, <<433, 54, 28, 0>>,
     <<324, 56, 29, 0>>, <<245, 57, 30, 0>>, <<183, 59, 31, 0>>,
     <<138, 60, 32, 0>>, <<104, 62, 33, 0>>, <<78, 63, 34, 0>>,
     <<59, 32, 35, 0>>, <<44, 33, 9, 0>>, <<23265, 37, 37, 1>>,
     <<18508, 64, 38, 0>>, <<14861, 65, 39, 0>>, <<12017, 67, 40, 0>>,
     <<9759, 68, 41, 0>>, <<7987, 69, 42, 0>>, <<6568, 70, 43, 0>>,
     <<5400, 72, 44, 0>>, <<4471, 73, 45, 0>>, <<3700, 74, 46, 0>>,
     <<3067, 75, 47, 0>>, <<2552, 77, 48, 0>>, <<2145, 78, 49, 0>>,
     <<1798, 79, 50, 0>>, <<1485, 48, 51, 0>>, <<1246, 50, 52, 0>>,
     <<1039, 50, 53, 0>>, <<867, 51, 54, 0>>, <<724, 52, 55, 0>>,
     <<604, 53, 56, 0>>, <<504, 54, 57, 0>>, <<420, 55, 58, 0>>,
     <<352, 56, 59, 0>>, <<293, 57, 60, 0>>, <<246, 58, 61, 0>>,
     <<203, 59, 62, 0>>, <<171, 61, 63, 0>>, <<143, 61, 32, 0>>,
     <<23314, 65, 65, 1>>, <<19716, 80, 66, 0>>, <<16684, 81, 67, 0>>,
     <<14296, 82, 68, 0>>, <<12264, 83, 69, 0>>, <<10556, 84, 70, 0>>,
     <<9081, 86, 71, 0>>, <<7903, 87, 72, 0>>, <<6825, 87, 73, 0>>,
     <<5966, 72, 74, 0>>, <<5156, 72, 75, 0>>, <<4508, 74, 76, 0>>,
     <<3947, 74, 77, 0>>, <<3409, 75, 78, 0>>, <<2998, 77, 79, 0>>,
     <<2624, 77, 48, 0>>, <<22578, 80, 81, 1>>, <<19740, 88, 82, 0>>,
     <<17294, 89, 83, 0>>, <<15325, 90, 84, 0>>, <<13550, 91, 85, 0>>,
     <<11950, 92, 86, 0>>, <<10650, 93, 87, 0>>, <<9494, 86, 71, 0>>,
     <<21872, 88, 89, 1>>, <<19625, 95, 90, 0>>, <<17625, 96, 91, 0>>,
     <<15906, 97, 92, 0>>, <<14372, 99, 93, 0>>, <<12980, 99, 94, 0>>,
     <<11799, 93, 86, 0>>, <<22184, 95, 96, 1>>, <<20294, 101, 97, 0>>,
     <<18405, 102, 98, 0>>, <<16847, 103, 99, 0>>, <<15421, 104, 100, 0>>,
     <<14174, 99, 93, 0>>, <<21041, 105, 102, 0>>, <<19471, 106, 103, 0>>,
     <<17977, 107, 104, 0>>, <<16734, 103, 99, 0>>, <<22055, 105, 106, 1>>,
     <<20711, 108, 107, 0>>, <<19333, 109, 103, 0>>, <<21911, 110, 109, 0>>,
     <<20559, 111, 107, 0>>, <<23056, 110, 111, 1>>, <<21794, 112, 109, 0>>,
     <<23019, 112, 111, 1>>, <<23069, 113, 113, 0>> >>

(* A bin is one byte: the state, and 128 more when the more probable       *)
(* symbol is 1. The statistics areas of table tbl are bins Dc(tbl, _) and  *)
(* Ac(tbl, _), all at zero at first; FixedBin, for even chances, stays.    *)
DC_STAT_BINS == 64
AC_STAT_BINS == 256
Dc(tbl, i) == (DC_STAT_BINS + AC_STAT_BINS) * tbl + i + 1
Ac(tbl, i) == (DC_STAT_BINS + AC_STAT_BINS) * tbl + DC_STAT_BINS + i + 1
FixedBin == 641
InitialBins == [st \in 1..FixedBin |-> IF st = FixedBin THEN 113 ELSE 0]

Entry(bin) == jpeg_aritab[(bin % 128) + 1]
Qe(bin) == Entry(bin)[1]
MPS(bin) == bin \div 128
AfterMPS(bin) == 128 * MPS(bin) + Entry(bin)[3]
AfterLPS(bin) ==
  128 * (IF Entry(bin)[4] = 1 THEN 1 - MPS(bin) ELSE MPS(bin)) + Entry(bin)[2]

VARIABLES
  pc,       (* "encode", "transmit", "decode" or "done"                    *)
  script, restart_interval, image,  (* what is coded, and how              *)
  scan,     (* the scan being coded                                        *)
  mcu,      (* the MCUs of it coded or decoded                             *)
  enc,      (* the encoder: its registers, bins, predictions and output    *)
  dec,      (* the decoder: the same, with the coefficients it has so far  *)
  damaged   (* the restart interval that met with damage, or -1            *)

vars == <<pc, script, restart_interval, image, scan, mcu, enc, dec, damaged>>

Components == DOMAIN image
McuCount == Len(image[1])
s == script[scan]
EmptyBlock == [k \in 0..LimSe |-> 0]

-----------------------------------------------------------------------------
(* The encoder's registers when a segment begins.                          *)
ResetEncoder(out, number) ==
  [c |-> 0, a |-> 65536, sc |-> 0, zc |-> 0, ct |-> 11, buffer |-> -1,
   bins |-> InitialBins, out |-> out, restarts_to_go |-> restart_interval,
   next_restart_num |-> number, last_dc_val |-> [ci \in Components |-> 0],
   dc_context |-> [ci \in Components |-> 0]]

(* Bytes after the zero bytes that were held back, which now must appear.  *)
Emit(e, bytes) ==
  [e EXCEPT !.out = @ \o [i \in 1..e.zc |-> 0] \o bytes, !.zc = 0]

Stuffed(byte) == IF byte = 255 THEN <<255, 0>> ELSE <<byte>>

(* A carry goes into the byte held back and turns stacked FF into zeros.   *)
Carry(e) ==
  LET f == IF e.buffer >= 0 THEN Emit(e, Stuffed(e.buffer + 1)) ELSE e
  IN [f EXCEPT !.zc = @ + e.sc, !.sc = 0]

(* Without a carry the byte held back and the stacked FF are final.        *)
NoCarry(e) ==
  LET f == IF e.buffer = 0 THEN [e EXCEPT !.zc = @ + 1]
           ELSE IF e.buffer > 0 THEN Emit(e, <<e.buffer>>) ELSE e
  IN IF e.sc = 0 THEN f
     ELSE [Emit(f, [i \in 1..(2 * e.sc) |-> IF i % 2 = 1 THEN 255 ELSE 0])
             EXCEPT !.sc = 0]

(* Another byte is ready: it may still get a carry, and so is held back;   *)
(* as FF it is counted instead.                                            *)
ByteReady(e) ==
  LET temp == e.c \div 2^19
      f == IF temp > 255 THEN [Carry(e) EXCEPT !.buffer = temp % 256]
           ELSE IF temp = 255 THEN [e EXCEPT !.sc = @ + 1]
           ELSE [NoCarry(e) EXCEPT !.buffer = temp % 256]
  IN [f EXCEPT !.c = @ % 2^19, !.ct = 8]

Doubled(e) ==
  LET f == [e EXCEPT !.a = 2 * @, !.c = 2 * @, !.ct = @ - 1]
  IN IF f.ct = 0 THEN ByteReady(f) ELSE f

RECURSIVE Renormalize(_)
Renormalize(e) == IF e.a < 32768 THEN Renormalize(Doubled(e)) ELSE e

(* One decision: the interval is divided, and exchanged when the part of   *)
(* the less probable symbol is the larger.                                 *)
arith_encode(e, decision) ==
  LET st == decision[1]
      val == decision[2]
      bin == e.bins[st]
      qe == Qe(bin)
      a == e.a - qe
      upper == [e EXCEPT !.c = @ + a, !.a = qe]
      lower == [e EXCEPT !.a = a]
  IN Renormalize(
       IF val # MPS(bin)
       THEN [(IF a >= qe THEN upper ELSE lower) EXCEPT !.bins[st] = AfterLPS(bin)]
       ELSE IF a >= 32768 THEN lower
       ELSE [(IF a < qe THEN upper ELSE lower) EXCEPT !.bins[st] = AfterMPS(bin)])

(* The interval is never empty; the test makes TLC evaluate as it goes.    *)
RECURSIVE EncodeAll(_, _)
EncodeAll(e, decisions) ==
  IF e.a = 0 \/ decisions = <<>> THEN e
  ELSE EncodeAll(arith_encode(e, Head(decisions)), Tail(decisions))

(* The value in the coding interval with the most trailing zero bits goes  *)
(* out, but no zero bytes at the end.                                      *)
finish_pass(e) ==
  LET temp == ((e.a - 1 + e.c) \div 65536) * 65536
      c == (IF temp < e.c THEN temp + 32768 ELSE temp) * 2^e.ct
      f == IF c \div 2^27 # 0 THEN Carry(e) ELSE NoCarry(e)
      first == (c \div 2^19) % 256
      second == (c \div 2^11) % 256
  IN IF first = 0 /\ second = 0 THEN f
     ELSE Emit(f, Stuffed(first)
                    \o (IF second = 0 THEN <<>> ELSE Stuffed(second)))
-----------------------------------------------------------------------------
(* The decisions of an MCU.                                                *)
Log2(v) == CHOOSE n \in 0..15 : 2^n <= v /\ v < 2^(n + 1)
Sign(v) == IF v < 0 THEN 1 ELSE 0
Times(n, decision) == [i \in 1..n |-> decision]
Rising(st, n) == [i \in 1..n |-> <<st + i - 1, 1>>]
Pattern(w, n, st) == [i \in 1..n |-> <<st, (w \div 2^(n - i)) % 2>>]

(* Figures F.8 and F.9 for DC: w is the magnitude less one.                *)
DcMagnitude(tbl, st, w) ==
  IF w = 0 THEN << <<Dc(tbl, st), 0>> >>
  ELSE LET n == Log2(w)
       IN << <<Dc(tbl, st), 1>> >> \o Rising(Dc(tbl, 20), n)
            \o << <<Dc(tbl, 20 + n), 0>> >> \o Pattern(w, n, Dc(tbl, 34 + n))

DcDecisions(tbl, context, v) ==
  IF v = 0 THEN << <<Dc(tbl, context), 0>> >>
  ELSE << <<Dc(tbl, context), 1>>, <<Dc(tbl, context + 1), Sign(v)>> >>
         \o DcMagnitude(tbl, context + 2 + Sign(v), Absolute(v) - 1)

(* The conditioning category a difference leaves for the next one; m is    *)
(* its magnitude category.                                                 *)
DcContext(v) ==
  LET w == Absolute(v) - 1
      m == IF w = 0 THEN 0 ELSE 2^Log2(w)
  IN IF v = 0 \/ m < 2^arith_dc_L \div 2 THEN 0
     ELSE (IF v > 0 THEN 4 ELSE 8) + (IF m > 2^arith_dc_U \div 2 THEN 8 ELSE 0)

AcMagnitude(tbl, k, st, w) ==
  IF w = 0 THEN << <<Ac(tbl, st), 0>> >>
  ELSE IF w = 1 THEN << <<Ac(tbl, st), 1>>, <<Ac(tbl, st), 0>> >>
  ELSE LET n == Log2(w)
           x1 == IF k <= arith_ac_K THEN 189 ELSE 217
       IN Times(2, <<Ac(tbl, st), 1>>) \o Rising(Ac(tbl, x1), n - 1)
            \o << <<Ac(tbl, x1 + n - 1), 0>> >>
            \o Pattern(w, n, Ac(tbl, x1 + n + 13))

(* The last coefficient the point transform leaves, or 0.                  *)
LastNonzero(block, Al) ==
  LET left == {k \in 1..s.Se : Shifted(block[k], Al) # 0}
  IN IF left = {} THEN 0 ELSE CHOOSE k \in left : \A j \in left : j <= k

EndOfBlock(tbl, k) ==
  IF k <= s.Se THEN << <<Ac(tbl, 3 * (k - 1)), 1>> >> ELSE <<>>

(* Figure F.5, from coefficient k on, which is after a nonzero one.        *)
RECURSIVE AcDecisions(_, _, _, _)
AcDecisions(tbl, block, k, ke) ==
  IF k > ke THEN EndOfBlock(tbl, k)
  ELSE LET j == CHOOSE j \in k..ke :
                  /\ Shifted(block[j], s.Al) # 0
                  /\ \A i \in k..(j - 1) : Shifted(block[i], s.Al) = 0
           st == 3 * (j - 1)
       IN << <<Ac(tbl, 3 * (k - 1)), 0>> >>
            \o [i \in 1..(j - k) |-> <<Ac(tbl, 3 * (k + i - 2) + 1), 0>>]
            \o << <<Ac(tbl, st + 1), 1>>, <<FixedBin, Sign(block[j])>> >>
            \o AcMagnitude(tbl, j, st + 2, Shifted(block[j], s.Al) - 1)
            \o AcDecisions(tbl, block, j + 1, ke)

(* Figure G.10: correction bits for the coefficients already nonzero, and  *)
(* the newly nonzero; an EOB decision only past the end of what is known.  *)
RECURSIVE AcRefinements(_, _, _, _, _)
AcRefinements(tbl, block, k, ke, kex) ==
  IF k > ke THEN EndOfBlock(tbl, k)
  ELSE LET j == CHOOSE j \in k..ke :
                  /\ Shifted(block[j], s.Al) # 0
                  /\ \A i \in k..(j - 1) : Shifted(block[i], s.Al) = 0
           v == Shifted(block[j], s.Al)
           st == 3 * (j - 1)
       IN (IF k > kex THEN << <<Ac(tbl, 3 * (k - 1)), 0>> >> ELSE <<>>)
            \o [i \in 1..(j - k) |-> <<Ac(tbl, 3 * (k + i - 2) + 1), 0>>]
            \o (IF v > 1 THEN << <<Ac(tbl, st + 2), v % 2>> >>
                ELSE << <<Ac(tbl, st + 1), 1>>, <<FixedBin, Sign(block[j])>> >>)
            \o AcRefinements(tbl, block, j + 1, ke, kex)

(* The difference to the previous DC value of the component.               *)
EncodeDc(e, ci, v) ==
  LET diff == v - e.last_dc_val[ci]
  IN [EncodeAll(e, DcDecisions(TableNo(ci), e.dc_context[ci], diff))
        EXCEPT !.last_dc_val[ci] = v, !.dc_context[ci] = DcContext(diff)]

EncodeAc(e, ci, block, Ss) ==
  EncodeAll(e, AcDecisions(TableNo(ci), block, Ss, LastNonzero(block, s.Al)))

(* The five encode_mcu methods, on the blocks of one component of the MCU. *)
encode_mcu(e, ci, block) ==
  EncodeAc(EncodeDc(e, ci, block[0]), ci, block, 1)

encode_mcu_DC_first(e, ci, block) == EncodeDc(e, ci, block[0] \div 2^s.Al)

encode_mcu_AC_first(e, ci, block) == EncodeAc(e, ci, block, s.Ss)

encode_mcu_DC_refine(e, ci, block) ==
  arith_encode(e, <<FixedBin, (block[0] \div 2^s.Al) % 2>>)

encode_mcu_AC_refine(e, ci, block) ==
  EncodeAll(e, AcRefinements(TableNo(ci), block, s.Ss,
                             LastNonzero(block, s.Al),
                             LastNonzero(block, s.Ah)))

EncodeBlock(e, ci, block) ==
  CASE ~s.progressive -> encode_mcu(e, ci, block)
    [] s.progressive /\ s.Ah = 0 /\ s.Ss = 0 -> encode_mcu_DC_first(e, ci, block)
    [] s.progressive /\ s.Ah = 0 /\ s.Ss > 0 -> encode_mcu_AC_first(e, ci, block)
    [] s.progressive /\ s.Ah > 0 /\ s.Ss = 0 -> encode_mcu_DC_refine(e, ci, block)
    [] s.progressive /\ s.Ah > 0 /\ s.Ss > 0 -> encode_mcu_AC_refine(e, ci, block)

(* A restart interval is ended like a scan; the next begins afresh.        *)
emit_restart(e) ==
  ResetEncoder(finish_pass(e).out \o <<255, RST0 + e.next_restart_num>>,
               (e.next_restart_num + 1) % 8)

AtRestart(e) == restart_interval > 0 /\ e.restarts_to_go = 0

Counted(e) ==
  IF restart_interval > 0 THEN [e EXCEPT !.restarts_to_go = @ - 1] ELSE e

-----------------------------------------------------------------------------
(* The decoder's registers when a segment begins: two bytes are read at    *)
(* the first decision. bit, m and v are the results of its routines.       *)
ResetDecoder(d) ==
  [d EXCEPT !.c = 0, !.a = 0, !.ct = -16, !.bins = InitialBins,
            !.last_dc_val = [ci \in Components |-> 0],
            !.dc_context = [ci \in Components |-> 0],
            !.restarts_to_go = restart_interval]

start_pass(d, bytes) ==
  [ResetDecoder(d) EXCEPT !.input = bytes, !.pos = 1, !.unread_marker = 0,
                          !.next_restart_num = 0]

(* The first position from p on where the input is not FF.                 *)
RECURSIVE PastFill(_, _)
PastFill(d, p) == IF d.input[p] = 255 THEN PastFill(d, p + 1) ELSE p

(* The next data byte into C: a stuffed zero is dropped, and once a marker *)
(* is met the data are zeros.                                              *)
FetchByte(d) ==
  IF d.unread_marker # 0 THEN [d EXCEPT !.c = 256 * @]
  ELSE IF d.input[d.pos] # 255
  THEN [d EXCEPT !.c = 256 * @ + d.input[d.pos], !.pos = @ + 1]
  ELSE LET p == PastFill(d, d.pos)
       IN IF d.input[p] = 0 THEN [d EXCEPT !.c = 256 * @ + 255, !.pos = p + 1]
          ELSE [d EXCEPT !.c = 256 * @, !.pos = p + 1,
                         !.unread_marker = d.input[p]]

RECURSIVE Refill(_)
Refill(d) ==
  IF d.a >= 32768 THEN d
  ELSE IF d.ct > 0 THEN Refill([d EXCEPT !.ct = @ - 1, !.a = 2 * @])
  ELSE LET f == FetchByte(d)
           ct == d.ct + 7
       IN Refill([f EXCEPT !.ct = IF ct < 0 THEN ct + 1 ELSE ct,
                           !.a = IF ct = -1 THEN 65536 ELSE 2 * @])

Decided(d, st, bin, qe, a) ==
  LET temp == a * 2^d.ct
      mps == MPS(bin)
  IN IF d.c >= temp
     THEN [d EXCEPT !.c = @ - temp, !.a = qe,
                    !.bins[st] = IF a < qe THEN AfterMPS(bin) ELSE AfterLPS(bin),
                    !.bit = IF a < qe THEN mps ELSE 1 - mps]
     ELSE IF a >= 32768 THEN [d EXCEPT !.a = a, !.bit = mps]
     ELSE [d EXCEPT !.a = a,
                    !.bins[st] = IF a < qe THEN AfterLPS(bin) ELSE AfterMPS(bin),
                    !.bit = IF a < qe THEN 1 - mps ELSE mps]

DecideBin(d, st) == Decided(d, st, d.bins[st], Qe(d.bins[st]), d.a - Qe(d.bins[st]))

arith_decode(d, st) == DecideBin(Refill(d), st)

(* Figure F.23: one doubling per decision; too many are an error, after    *)
(* which nothing is decoded until the next restart.                        *)
InError(d) == d.ct = -1
Fail(d) == [d EXCEPT !.ct = -1]

RECURSIVE Categorized(_, _, _)
Categorized(d, st, m) ==
  IF d.bit = 0 THEN [d EXCEPT !.m = m, !.st = st]
  ELSE IF 2 * m = 32768 THEN Fail(d)
  ELSE Categorized(arith_decode(d, st + 1), st + 1, 2 * m)

Category(d, st, m) == Categorized(arith_decode(d, st), st, m)

(* Figure F.24: the bits of the magnitude below the highest.               *)
WithBit(d, m) == [d EXCEPT !.v = @ + m * d.bit]

RECURSIVE BitPattern(_, _)
BitPattern(d, m) ==
  IF m = 0 THEN d ELSE BitPattern(WithBit(arith_decode(d, d.st), m), m \div 2)

(* Figure F.21 from the category in d.m on; sign is 1 for a negative.      *)
SignedValue(d, sign) ==
  [BitPattern([d EXCEPT !.st = @ + 14, !.v = d.m], d.m \div 2)
     EXCEPT !.v = IF sign = 1 THEN -(@ + 1) ELSE @ + 1]

DecodedContext(m, sign) ==
  IF m < 2^arith_dc_L \div 2 THEN 0
  ELSE IF m > 2^arith_dc_U \div 2 THEN 12 + 4 * sign
  ELSE 4 + 4 * sign

(* Sections F.2.4.1 and F.1.4.4.1: what follows once it is known that the  *)
(* difference is not zero, its sign, whether it is more than one, and its  *)
(* magnitude category.                                                     *)
DcValued(d, ci, context) ==
  [d EXCEPT !.last_dc_val[ci] = @ + d.v, !.dc_context[ci] = context]

DcSized(d, ci, sign) ==
  IF InError(d) THEN d
  ELSE DcValued(SignedValue(d, sign), ci, DecodedContext(d.m, sign))

DcMore(d, st, tbl) ==
  IF d.bit = 0 THEN [d EXCEPT !.m = 0, !.st = st] ELSE Category(d, Dc(tbl, 20), 1)

DcSigned(d, ci, st) ==
  DcSized(DcMore(arith_decode(d, st + d.bit), st + d.bit, TableNo(ci)), ci, d.bit)

DcNonzero(d, ci, st) ==
  IF d.bit = 0 THEN [d EXCEPT !.dc_context[ci] = 0]
  ELSE DcSigned(arith_decode(d, st + 1), ci, st + 2)

DecodeDcDiff(d, ci) ==
  LET st == Dc(TableNo(ci), d.dc_context[ci])
  IN DcNonzero(arith_decode(d, st), ci, st)

DcStored(d, ci) ==
  IF InError(d) THEN d
  ELSE [d EXCEPT !.image[ci][mcu + 1][0] = d.last_dc_val[ci] * 2^s.Al]

DecodeDc(d, ci) == DcStored(DecodeDcDiff(d, ci), ci)

(* The run of zeros before a nonzero coefficient: d.m is the coefficient.  *)
RECURSIVE ZeroRunFrom(_, _, _)
ZeroRunFrom(d, tbl, k) ==
  IF d.bit = 1 THEN [d EXCEPT !.m = k]
  ELSE IF k = s.Se THEN Fail(d)
  ELSE ZeroRunFrom(arith_decode(d, Ac(tbl, 3 * k + 1)), tbl, k + 1)

ZeroRun(d, tbl, k) ==
  ZeroRunFrom(arith_decode(d, Ac(tbl, 3 * (k - 1) + 1)), tbl, k)

(* The value of coefficient k: its sign, whether it is more than one, and  *)
(* more than two, and its category.                                        *)
AcSized(d, sign) == IF InError(d) THEN d ELSE SignedValue(d, sign)

AcMoreThanTwo(d, st, tbl, k) ==
  IF d.bit = 0 THEN [d EXCEPT !.m = 1, !.st = st]
  ELSE Category(d, Ac(tbl, IF k <= arith_ac_K THEN 189 ELSE 217), 2)

AcMoreThanOne(d, st, tbl, k) ==
  IF d.bit = 0 THEN [d EXCEPT !.m = 0, !.st = st]
  ELSE AcMoreThanTwo(arith_decode(d, st), st, tbl, k)

AcSigned(d, st, tbl, k) ==
  AcSized(AcMoreThanOne(arith_decode(d, st), st, tbl, k), d.bit)

AcValue(d, tbl, k) ==
  AcSigned(arith_decode(d, FixedBin), Ac(tbl, 3 * (k - 1) + 2), tbl, k)

(* Figure F.20, from coefficient k on: after the end-of-block decision,    *)
(* after the run of zeros, and with the value of the coefficient.          *)
AcStored(d, ci, k) ==
  IF InError(d) THEN d
  ELSE [d EXCEPT !.image[ci][mcu + 1][k] = d.v * 2^s.Al, !.m = k]

AcAfterRun(d, ci) ==
  IF InError(d) THEN d ELSE AcStored(AcValue(d, TableNo(ci), d.m), ci, d.m)

RECURSIVE DecodeAc(_, _, _), AcFrom(_, _, _), AcNext(_, _)
AcNext(d, ci) == IF InError(d) THEN d ELSE DecodeAc(d, ci, d.m + 1)

AcFrom(d, ci, k) ==
  IF d.bit = 1 THEN d ELSE AcNext(AcAfterRun(ZeroRun(d, TableNo(ci), k), ci), ci)

DecodeAc(d, ci, k) ==
  IF k > s.Se THEN d
  ELSE AcFrom(arith_decode(d, Ac(TableNo(ci), 3 * (k - 1))), ci, k)

(* A correction bit, or a new coefficient of one unit, or one more zero.   *)
Put(d, ci, k, v) == [d EXCEPT !.image[ci][mcu + 1][k] = v, !.m = k]

Corrected(d, ci, k, this) ==
  Put(d, ci, k, IF d.bit = 0 THEN this
                ELSE IF this < 0 THEN this - 2^s.Al ELSE this + 2^s.Al)

NewUnit(d, ci, k) == Put(d, ci, k, IF d.bit = 1 THEN -(2^s.Al) ELSE 2^s.Al)

RECURSIVE Refine(_, _, _), RefineZero(_, _, _)
RefineZero(d, ci, k) ==
  IF d.bit = 1 THEN NewUnit(arith_decode(d, FixedBin), ci, k)
  ELSE IF k = s.Se THEN Fail(d)
  ELSE Refine(d, ci, k + 1)

Refine(d, ci, k) ==
  LET this == d.image[ci][mcu + 1][k]
      st == Ac(TableNo(ci), 3 * (k - 1))
  IN IF this # 0 THEN Corrected(arith_decode(d, st + 2), ci, k, this)
     ELSE RefineZero(arith_decode(d, st + 1), ci, k)

RECURSIVE DecodeRefinements(_, _, _, _), RefineFrom(_, _, _, _), RefineNext(_, _, _)
RefineNext(d, ci, kex) ==
  IF InError(d) THEN d ELSE DecodeRefinements(d, ci, d.m + 1, kex)

RefineFrom(d, ci, k, kex) ==
  IF d.bit = 1 THEN d ELSE RefineNext(Refine(d, ci, k), ci, kex)

DecodeRefinements(d, ci, k, kex) ==
  IF k > s.Se THEN d
  ELSE RefineFrom(IF k > kex THEN arith_decode(d, Ac(TableNo(ci), 3 * (k - 1)))
                  ELSE [d EXCEPT !.bit = 0], ci, k, kex)

AcAfterDc(d, ci) == IF InError(d) THEN d ELSE DecodeAc(d, ci, 1)

decode_mcu(d, ci) == AcAfterDc(DecodeDc(d, ci), ci)

decode_mcu_DC_first(d, ci) == DecodeDc(d, ci)

decode_mcu_AC_first(d, ci) == DecodeAc(d, ci, s.Ss)

DcRefined(d, ci) ==
  IF d.bit = 1 THEN [d EXCEPT !.image[ci][mcu + 1][0] = @ + 2^s.Al] ELSE d

decode_mcu_DC_refine(d, ci) == DcRefined(arith_decode(d, FixedBin), ci)

decode_mcu_AC_refine(d, ci) ==
  LET block == d.image[ci][mcu + 1]
      known == {k \in 1..s.Se : block[k] # 0}
      kex == CHOOSE k \in known \cup {0} : \A j \in known : j <= k
  IN DecodeRefinements(d, ci, s.Ss, kex)

DecodeBlock(d, ci) ==
  CASE InError(d) -> d
    [] ~InError(d) /\ ~s.progressive -> decode_mcu(d, ci)
    [] ~InError(d) /\ s.progressive /\ s.Ah = 0 /\ s.Ss = 0 ->
         decode_mcu_DC_first(d, ci)
    [] ~InError(d) /\ s.progressive /\ s.Ah = 0 /\ s.Ss > 0 ->
         decode_mcu_AC_first(d, ci)
    [] ~InError(d) /\ s.progressive /\ s.Ah > 0 /\ s.Ss = 0 ->
         decode_mcu_DC_refine(d, ci)
    [] ~InError(d) /\ s.progressive /\ s.Ah > 0 /\ s.Ss > 0 ->
         decode_mcu_AC_refine(d, ci)

(* Skip data until a marker that is neither FF nor stuffing.               *)
next_marker(d) ==
  LET p == CHOOSE p \in d.pos..Len(d.input) :
             /\ d.input[p] = 255 /\ d.input[p + 1] \notin {0, 255}
             /\ \A q \in d.pos..(p - 1) :
                  d.input[q] = 255 => d.input[q + 1] \in {0, 255}
  IN [d EXCEPT !.pos = p + 2, !.unread_marker = d.input[p + 1]]

(* An unexpected marker: one of the next two restarts, or no restart at    *)
(* all, is left for later; one of the last two is skipped; another is      *)
(* taken for the expected one.                                             *)
RECURSIVE jpeg_resync_to_restart(_)
jpeg_resync_to_restart(d) ==
  LET ahead == (d.unread_marker - (RST0 + d.next_restart_num)) % 8
  IN IF d.unread_marker \notin RST0..(RST0 + 7) \/ ahead \in 1..2 THEN d
     ELSE IF ahead \in 6..7 THEN jpeg_resync_to_restart(next_marker(d))
     ELSE [d EXCEPT !.unread_marker = 0]

(* With the number forgotten: any restart marker will do.                  *)
AnyRestartMarker(before) ==
  LET d == IF before.unread_marker = 0 THEN next_marker(before) ELSE before
  IN [(IF d.unread_marker \in RST0..(RST0 + 7)
       THEN [d EXCEPT !.unread_marker = 0] ELSE d)
        EXCEPT !.next_restart_num = (@ + 1) % 8]

read_restart_marker(before) ==
  LET d == IF before.unread_marker = 0 THEN next_marker(before) ELSE before
  IN [(IF d.unread_marker = RST0 + d.next_restart_num
       THEN [d EXCEPT !.unread_marker = 0]
       ELSE jpeg_resync_to_restart(d))
        EXCEPT !.next_restart_num = (@ + 1) % 8]

process_restart(d) == ResetDecoder(read_restart_marker(d))

-----------------------------------------------------------------------------
BlankImage ==
  [ci \in Components |-> [n \in 1..McuCount |-> EmptyBlock]]

Init ==
  /\ pc = "encode" /\ scan = 1 /\ mcu = 0 /\ damaged = -1
  /\ script \in Scripts /\ restart_interval \in RestartIntervals
  /\ image \in Images
  /\ enc = ResetEncoder(<<>>, 0)
  /\ dec = [c |-> 0, a |-> 0, ct |-> -16, bins |-> InitialBins,
            last_dc_val |-> [ci \in Components |-> 0],
            dc_context |-> [ci \in Components |-> 0], input |-> <<>>,
            pos |-> 1, unread_marker |-> 0, restarts_to_go |-> 0,
            next_restart_num |-> 0, image |-> BlankImage,
            bit |-> 0, m |-> 0, st |-> 1, v |-> 0]

EncodeMcu ==
  /\ pc = "encode" /\ mcu < McuCount
  /\ enc' = LET started == Counted(IF AtRestart(enc) THEN emit_restart(enc)
                                   ELSE enc)
                Step(e, ci) == EncodeBlock(e, ci, image[ci][mcu + 1])
            IN FoldLeft(Step, started, s.comps)
  /\ mcu' = mcu + 1
  /\ UNCHANGED <<pc, script, restart_interval, image, scan, dec, damaged>>

FinishScan ==
  /\ pc = "encode" /\ mcu = McuCount
  /\ enc' = finish_pass(enc) /\ pc' = "transmit"
  /\ UNCHANGED <<script, restart_interval, image, scan, mcu, dec, damaged>>

Deliver(bytes) ==
  /\ dec' = start_pass(dec, bytes \o <<255, EOI>>)
  /\ pc' = "decode" /\ mcu' = 0
  /\ UNCHANGED <<script, restart_interval, image, scan, enc>>

Transmit == pc = "transmit" /\ Deliver(enc.out) /\ UNCHANGED damaged

Change ==
  /\ pc = "transmit" /\ damaged = -1
  /\ \E n \in Damages \cap Changeable(enc.out) :
       /\ Deliver(Changed(enc.out, n))
       /\ damaged' = IntervalAt(enc.out, n)

Lose ==
  /\ pc = "transmit" /\ damaged = -1
  /\ \E n \in 1..IntervalAt(enc.out, Len(enc.out)) :
       Deliver(Lost(enc.out, n)) /\ damaged' = n

DecodeMcu ==
  /\ pc = "decode" /\ mcu < McuCount
  /\ dec' = LET started == Counted(IF AtRestart(dec) THEN process_restart(dec)
                                   ELSE dec)
            IN FoldLeft(DecodeBlock, started, s.comps)
  /\ mcu' = mcu + 1
  /\ UNCHANGED <<pc, script, restart_interval, image, scan, enc, damaged>>

NextScan ==
  /\ pc = "decode" /\ mcu = McuCount /\ scan < Len(script)
  /\ scan' = scan + 1 /\ mcu' = 0 /\ pc' = "encode"
  /\ enc' = ResetEncoder(<<>>, 0)
  /\ UNCHANGED <<script, restart_interval, image, dec, damaged>>

Finish ==
  /\ pc = "decode" /\ mcu = McuCount /\ scan = Len(script) /\ pc' = "done"
  /\ UNCHANGED <<script, restart_interval, image, scan, mcu, enc, dec, damaged>>

Next == EncodeMcu \/ FinishScan \/ Transmit \/ Change \/ Lose \/ DecodeMcu
          \/ NextScan \/ Finish

Spec == Init /\ [][Next]_vars
-----------------------------------------------------------------------------
Faithful(ci, n, scans) ==
  \A k \in 0..LimSe :
    dec.image[ci][n][k] = Approximation(script, ci, k, scans, image[ci][n][k])

(* The registers stay in the ranges the arithmetic relies on, A above the  *)
(* half of its range after each decision, and every bin in the table.      *)
TypeOK ==
  /\ pc \in {"encode", "transmit", "decode", "done"}
  /\ mcu \in 0..McuCount /\ scan \in 1..Len(script)
  /\ pc = "encode" => enc.a \in 32768..65536 /\ enc.ct \in 1..11 /\ enc.c \in 0..(2^28 - 1)
  /\ enc.buffer \in -1..255
  /\ dec.ct \in {-16, -1} \cup 0..7
  /\ dec.ct >= 0 => dec.a \in 1..65536 /\ dec.c \in 0..(dec.a * 2^dec.ct - 1)
  /\ \A ci \in Components :
       enc.dc_context[ci] \in {0, 4, 8, 12, 16} /\ dec.dc_context[ci] \in {0, 4, 8, 12, 16}
  /\ \A st \in 1..FixedBin : enc.bins[st] % 128 \in 0..113 /\ dec.bins[st] % 128 \in 0..113

(* What is not damaged is decoded as it was encoded, scan by scan, each    *)
(* coefficient to the precision its scans had: the encoder's and the       *)
(* decoder's bins, contexts and registers never part.                      *)
RoundTrip ==
  pc \in {"decode", "done"} /\ damaged = -1 =>
    \A j \in 1..Len(s.comps), n \in 1..mcu : Faithful(s.comps[j], n, scan)

(* A changed byte or a lost interval costs the MCUs of its own restart     *)
(* interval and no other: errors do not outlive a restart marker, and the  *)
(* markers' numbers put what follows a loss in its place.                  *)
DamageIsContained ==
  pc \in {"decode", "done"} /\ damaged >= 0 =>
    \A j \in 1..Len(s.comps), n \in 1..mcu :
      \/ restart_interval = 0
      \/ (n - 1) \div restart_interval = damaged
      \/ Faithful(s.comps[j], n, scan)

(* The output of a scan can be parsed, FF being followed by a zero or a    *)
(* restart marker, and is the shortest: no segment ends in a zero byte     *)
(* that is not there to stuff an FF.                                       *)
CleanOutput ==
  pc = "transmit" =>
    \A i \in 1..Len(enc.out) :
      LET last == i = Len(enc.out)
      IN /\ enc.out[i] = 255 =>
              ~last /\ (enc.out[i + 1] = 0 \/ IsRestart(enc.out, i))
         /\ enc.out[i] = 0 /\ (last \/ IsRestart(enc.out, i + 1)) =>
              i > 1 /\ enc.out[i - 1] = 255
=============================================================================
