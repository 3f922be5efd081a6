----------------------------- MODULE ForwardDct -----------------------------
(***************************************************************************)
(* From samples to quantized coefficients: the forward DCT routines of     *)
(* jfdctint.c and jfdctfst.c, and jcdctmgr.c, which selects one for each   *)
(* component, prepares its divisors and quantizes what it computes.        *)
(*                                                                         *)
(* Every routine makes two passes: the rows of samples by the w-point      *)
(* kernel, then the columns of the results by the h-point kernel. The      *)
(* result is left 8 times too large, which the divisors take off.          *)
(***************************************************************************)
EXTENDS FdctKernels, Cosines, FiniteSets

CONSTANTS
  Frames,      (* the images tried: sequences of components                *)
  Methods,     (* the dct_method tried, of "islow" and "ifast"             *)
  QuantTables, (* the quant_tbl_ptrs tried: [0..3 -> first entry, 0: NULL] *)
  SampleBlocks (* the blocks tried: sample (x, y) of 16 x 16               *)

ForwardAssumption ==
  /\ \A f \in Frames : \A c \in 1..Len(f) :
       f[c] \in [size : (1..16) \X (1..16), quant_tbl_no : 0..3]
  /\ Methods \subseteq {"islow", "ifast"}
  /\ QuantTables \subseteq [0..3 -> 0..255]

NoTable == <<>>

VARIABLES
  pc,         (* "start_pass", "ready", "rows", "columns", "quantize",     *)
              (* "coefs" or "error"                                        *)
  frame,      (* cinfo->comp_info                                          *)
  quant,      (* cinfo->quant_tbl_ptrs                                     *)
  do_dct,     (* the routine of each component                             *)
  divisors,   (* the divisor tables, one for each quantization table       *)
  ci,         (* the component a block of which is being transformed       *)
  samples,    (* its samples                                               *)
  data,       (* the work area: the result of each pass                    *)
  coefs       (* the block stored                                          *)

vars == <<pc, frame, quant, do_dct, divisors, ci, samples, data, coefs>>

(* The routine for w x h samples, which shifts the results of its passes   *)
(* back by shift1 and shift2.                                              *)
Passes(w, shift1, h, shift2) ==
  [fast |-> FALSE, w |-> w, shift1 |-> shift1, h |-> h, shift2 |-> shift2]

jpeg_fdct_islow == Passes(8, 11, 8, 15)
jpeg_fdct_7x7 == Passes(7, 11, 7, 15)
jpeg_fdct_6x6 == Passes(6, 11, 6, 15)
jpeg_fdct_5x5 == Passes(5, 10, 5, 15)
jpeg_fdct_4x4 == Passes(4, 9, 4, 15)
jpeg_fdct_3x3 == Passes(3, 9, 3, 15)
jpeg_fdct_2x2 == Passes(2, 13, 2, 9)
jpeg_fdct_1x1 == Passes(1, 13, 1, 7)
jpeg_fdct_9x9 == Passes(9, 12, 9, 15)
jpeg_fdct_10x10 == Passes(10, 12, 10, 15)
jpeg_fdct_11x11 == Passes(11, 12, 11, 15)
jpeg_fdct_12x12 == Passes(12, 13, 12, 14)
jpeg_fdct_13x13 == Passes(13, 13, 13, 14)
jpeg_fdct_14x14 == Passes(14, 13, 14, 14)
jpeg_fdct_15x15 == Passes(15, 13, 15, 15)
jpeg_fdct_16x16 == Passes(16, 11, 16, 17)
jpeg_fdct_16x8 == Passes(16, 11, 8, 16)
jpeg_fdct_14x7 == Passes(14, 11, 7, 16)
jpeg_fdct_12x6 == Passes(12, 11, 6, 16)
jpeg_fdct_10x5 == Passes(10, 11, 5, 15)
jpeg_fdct_8x4 == Passes(8, 10, 4, 15)
jpeg_fdct_6x3 == Passes(6, 10, 3, 15)
jpeg_fdct_4x2 == Passes(4, 8, 2, 15)
jpeg_fdct_2x1 == Passes(2, 8, 1, 13)
jpeg_fdct_8x16 == Passes(8, 11, 16, 16)
jpeg_fdct_7x14 == Passes(7, 11, 14, 15)
jpeg_fdct_6x12 == Passes(6, 11, 12, 15)
jpeg_fdct_5x10 == Passes(5, 11, 10, 15)
jpeg_fdct_4x8 == Passes(4, 10, 8, 15)
jpeg_fdct_3x6 == Passes(3, 10, 6, 15)
jpeg_fdct_2x4 == Passes(2, 10, 4, 13)
jpeg_fdct_1x2 == Passes(1, 13, 2, 8)

(* The fast routine shifts nothing back: its divisors do.                  *)
jpeg_fdct_ifast ==
  [fast |-> TRUE, w |-> 8, shift1 |-> 0, h |-> 8, shift2 |-> 0]

ScaledRoutines ==
  {jpeg_fdct_islow, jpeg_fdct_7x7, jpeg_fdct_6x6, jpeg_fdct_5x5,
   jpeg_fdct_4x4, jpeg_fdct_3x3, jpeg_fdct_2x2, jpeg_fdct_1x1,
   jpeg_fdct_9x9, jpeg_fdct_10x10, jpeg_fdct_11x11, jpeg_fdct_12x12,
   jpeg_fdct_13x13, jpeg_fdct_14x14, jpeg_fdct_15x15, jpeg_fdct_16x16,
   jpeg_fdct_16x8, jpeg_fdct_14x7, jpeg_fdct_12x6, jpeg_fdct_10x5,
   jpeg_fdct_8x4, jpeg_fdct_6x3, jpeg_fdct_4x2, jpeg_fdct_2x1,
   jpeg_fdct_8x16, jpeg_fdct_7x14, jpeg_fdct_6x12, jpeg_fdct_5x10,
   jpeg_fdct_4x8, jpeg_fdct_3x6, jpeg_fdct_2x4, jpeg_fdct_1x2}

CENTERJSAMPLE == 128

(* The scale factors of the fast DCT, cos(k*pi/16) * root 2 in 14 bits.    *)
aanscales ==
  << <<16384, 22725, 21407, 19266, 16384, 12873,  8867,  4520>>,
     <<22725, 31521, 29692, 26722, 22725, 17855, 12299,  6270>>,
     <<21407, 29692, 27969, 25172, 21407, 16819, 11585,  5906>>,
     <<19266, 26722, 25172, 22654, 19266, 15137, 10426,  5315>>,
     <<16384, 22725, 21407, 19266, 16384, 12873,  8867,  4520>>,
     <<12873, 17855, 16819, 15137, 12873, 10114,  6967,  3552>>,
     << 8867, 12299, 11585, 10426,  8867,  6967,  4799,  2446>>,
     << 4520,  6270,  5906,  5315,  4520,  3552,  2446,  1247>> >>

(* A quantization table with steps that differ, for its first entry.       *)
quantval(q) == [u \in 0..7 |-> [v \in 0..7 |-> q + ((u + 2 * v) % q)]]

(* The divisors a routine needs for a quantization table: 8 times the      *)
(* steps, for the fast one with its scale factors.                         *)
DivisorTable(fast, q) ==
  [u \in 0..7 |-> [v \in 0..7 |->
     IF fast THEN DESCALE(quantval(q)[u][v] * aanscales[u + 1][v + 1], 11)
     ELSE quantval(q)[u][v] * 8]]

SelectRoutine(wh, method) ==
  IF wh = <<8, 8>> /\ method = "ifast" THEN {jpeg_fdct_ifast}
  ELSE {r \in ScaledRoutines : r.w = wh[1] /\ r.h = wh[2]}

Init ==
  /\ pc = "start_pass" /\ frame = <<>> /\ quant \in QuantTables
  /\ do_dct = <<>> /\ divisors = [t \in 0..3 |-> NoTable]
  /\ ci = 0 /\ samples = <<>> /\ data = <<>> /\ coefs = <<>>

(* Each component's size has a routine and its quantization table exists.  *)
Supported(f, method) ==
  \A c \in 1..Len(f) :
    SelectRoutine(f[c].size, method) # {} /\ quant[f[c].quant_tbl_no] # 0

(* The divisor tables start_pass fills in, component after component: the  *)
(* last component to use a quantization table leaves its divisors there.   *)
Divisors(routines, f) ==
  [t \in 0..3 |->
     LET users == {c \in 1..Len(f) : f[c].quant_tbl_no = t}
         last == CHOOSE c \in users : \A o \in users : o <= c
     IN IF users = {} THEN NoTable
        ELSE DivisorTable(routines[last].fast, quant[t])]

start_pass_fdctmgr(f, method) ==
  /\ pc = "start_pass" /\ frame' = f
  /\ IF Supported(f, method)
     THEN LET routines == [c \in 1..Len(f) |->
                CHOOSE r \in SelectRoutine(f[c].size, method) : TRUE]
          IN /\ pc' = "ready" /\ do_dct' = routines
             /\ divisors' = Divisors(routines, f)
     ELSE pc' = "error" /\ UNCHANGED <<do_dct, divisors>>
  /\ UNCHANGED <<quant, ci, samples, data, coefs>>

(* forward_DCT is given a block of a component.                            *)
forward_DCT(c, b) ==
  /\ pc = "ready" /\ c \in 1..Len(frame)
  /\ pc' = "rows" /\ ci' = c /\ samples' = b
  /\ UNCHANGED <<frame, quant, do_dct, divisors, data, coefs>>

Smaller(a, b) == IF a < b THEN a ELSE b

Routine == do_dct[ci]

(* A pass over the samples or intermediate values x.                       *)
Pass(n, c, x, shift) ==
  LET out == Kernel(n, c, x)
  IN [k \in 0..(Smaller(n, 8) - 1) |-> DESCALE(out[k + 1], shift)]

FastPass(x) ==
  LET out == FastKernel(x)
  IN [k \in 0..7 |-> out[k + 1]]

(* Pass 1: the samples are made signed and each row is transformed. (The   *)
(* code takes the offset off the first coefficient, the only one it is in.) *)
Rows ==
  /\ pc = "rows" /\ pc' = "columns"
  /\ data' = [y \in 0..(Routine.h - 1) |->
       LET x == [i \in 0..(Routine.w - 1) |->
                   samples[<<i, y>>] - CENTERJSAMPLE]
       IN IF Routine.fast THEN FastPass(x)
          ELSE Pass(Routine.w, PlainMultipliers(Routine.w), x,
                    Routine.shift1)]
  /\ UNCHANGED <<frame, quant, do_dct, divisors, ci, samples, coefs>>

(* Sizes that are powers of two scale by shifting: they have no folded     *)
(* multipliers.                                                            *)
Column(x) ==
  IF Routine.fast THEN FastPass(x)
  ELSE Pass(Routine.h, FoldedMultipliers(Routine.h), x, Routine.shift2)

(* Pass 2: each column is transformed. What the smaller sizes do not       *)
(* compute is zero.                                                        *)
Columns ==
  /\ pc = "columns" /\ pc' = "quantize"
  /\ LET columns == [v \in 0..(Smaller(Routine.w, 8) - 1) |->
           Column([y \in 0..(Routine.h - 1) |-> data[y][v]])]
     IN data' = [u \in 0..7 |-> [v \in 0..7 |->
          IF u < Routine.h /\ v < Routine.w THEN columns[v][u] ELSE 0]]
  /\ UNCHANGED <<frame, quant, do_dct, divisors, ci, samples, coefs>>

(* To the nearest, and a half away from zero.                              *)
Divide(temp, qval) ==
  IF temp < 0 THEN -((-temp + qval \div 2) \div qval)
  ELSE (temp + qval \div 2) \div qval

Quantize ==
  /\ pc = "quantize" /\ pc' = "coefs"
  /\ coefs' = [u \in 0..7 |-> [v \in 0..7 |->
       Divide(data[u][v], divisors[frame[ci].quant_tbl_no][u][v])]]
  /\ UNCHANGED <<frame, quant, do_dct, divisors, ci, samples, data>>

(* The next block of this image, or the next image.                        *)
NextBlock ==
  /\ pc = "coefs" /\ pc' = "ready"
  /\ ci' = 0 /\ samples' = <<>> /\ data' = <<>> /\ coefs' = <<>>
  /\ UNCHANGED <<frame, quant, do_dct, divisors>>

NextImage ==
  /\ pc \in {"ready", "error"} /\ pc' = "start_pass"
  /\ frame' = <<>> /\ do_dct' = <<>> /\ divisors' = [t \in 0..3 |-> NoTable]
  /\ UNCHANGED <<quant, ci, samples, data, coefs>>

Next ==
  \/ \E f \in Frames, m \in Methods : start_pass_fdctmgr(f, m)
  \/ \E c \in 1..Len(frame), b \in SampleBlocks : forward_DCT(c, b)
  \/ Rows
  \/ Columns
  \/ Quantize
  \/ NextBlock
  \/ NextImage

Spec == Init /\ [][Next]_vars

-----------------------------------------------------------------------------
(* The coefficients are those JPEG can code, none is left over outside the *)
(* frequencies a smaller block has, and only a frame with a size there is  *)
(* no routine for or without a quantization table is an error.             *)
TypeOK ==
  /\ pc \in {"start_pass", "ready", "rows", "columns", "quantize", "coefs",
             "error"}
  /\ pc = "error" =>
       \E c \in 1..Len(frame) :
         \/ quant[frame[c].quant_tbl_no] = 0
         \/ ~ \E r \in ScaledRoutines : <<r.w, r.h>> = frame[c].size
  /\ pc = "coefs" =>
       \A u, v \in 0..7 :
         /\ coefs[u][v] \in -1024..1024
         /\ (v >= frame[ci].size[1] \/ u >= frame[ci].size[2]) =>
              coefs[u][v] = 0

(* The divisors a component is quantized with are those its DCT routine    *)
(* and its quantization table call for. (jcdctmgr.c: computing a table     *)
(* more than once is not a big deal.)                                      *)
DivisorsFit ==
  pc # "start_pass" /\ pc # "error" =>
    \A c \in 1..Len(frame) :
      LET t == frame[c].quant_tbl_no
      IN divisors[t] = DivisorTable(do_dct[c].fast, quant[t])

(* The exact coefficients, 8 times: the samples on the cosine bases of the *)
(* component's sizes, brought to the scale of 8 x 8. Sums are kept in 4    *)
(* bits of fraction between the passes.                                    *)
RECURSIVE SumTo(_, _)
SumTo(f, n) == IF n = 0 THEN f[0] ELSE f[n] + SumTo(f, n - 1)

IdealRow(y, v) ==
  SumTo([x \in 0..(Routine.w - 1) |->
           (samples[<<x, y>>] - CENTERJSAMPLE) * Basis[Routine.w][v][x]],
        Routine.w - 1) \div 1024

IdealRows ==
  [v \in 0..(Smaller(Routine.w, 8) - 1) |->
     [y \in 0..(Routine.h - 1) |-> IdealRow(y, v)]]

Ideal(rows, u, v) ==
  IF u >= Routine.h \/ v >= Routine.w THEN 0
  ELSE SumTo([y \in 0..(Routine.h - 1) |->
                rows[v][y] * (Basis[Routine.h][u][y] \div 16)],
             Routine.h - 1)
         \div (16 * 16 * Routine.w * Routine.h)

(* Every block stored is the DCT of its samples, to the nearest multiple   *)
(* of the quantization steps: no coefficient is further off than half its  *)
(* step and a few eighths. (jfdctint.c: slow but accurate; a partial DCT   *)
(* that computes just the lower 8 frequencies, scaled to 8-point level.)   *)
(* The fast routine is held to a whole step, and to coarse tables.         *)
Accurate ==
  pc = "coefs" /\ (Routine.fast => quant[frame[ci].quant_tbl_no] >= 16) =>
    LET rows == IdealRows
    IN \A u, v \in 0..7 :
         LET step == quantval(quant[frame[ci].quant_tbl_no])[u][v]
             slack == IF Routine.fast THEN 4 * step ELSE 3
         IN Distance(coefs[u][v] * step * 8, Ideal(rows, u, v))
              <= 4 * step + slack

(* A flat block is its DC term alone, and the step nearest to it.          *)
FlatStaysFlat ==
  pc = "coefs" /\ (\A p, o \in DOMAIN samples : samples[p] = samples[o]) =>
    LET dc == 64 * (samples[<<0, 0>>] - CENTERJSAMPLE)
        step == 8 * quant[frame[ci].quant_tbl_no]
    IN /\ 2 * Distance(coefs[0][0] * step, dc) <= step
       /\ \A u, v \in 0..7 : u + v > 0 => coefs[u][v] = 0
=============================================================================
