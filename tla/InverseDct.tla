----------------------------- MODULE InverseDct -----------------------------
(***************************************************************************)
(* From coefficients to samples: the inverse DCT routines of jidctint.c    *)
(* and jidctfst.c, and their selection in jddctmgr.c.                      *)
(*                                                                         *)
(* A component scaled to w x h samples per block is decoded by the routine *)
(* for w and h. Every routine works in two passes over a workspace: the    *)
(* columns of coefficients by the h-point kernel, then the rows of the     *)
(* workspace by the w-point kernel. The routines differ in how many        *)
(* columns they read and in how far each pass shifts its results back.     *)
(***************************************************************************)
EXTENDS IdctKernels, Cosines, FiniteSetsExt

CONSTANTS
  Scalings,     (* the <<DCT_h_scaled_size, DCT_v_scaled_size>> tried      *)
  Methods,      (* the dct_method tried, of "islow" and "ifast"            *)
  QuantSteps,   (* the first entries of the quantization tables tried      *)
  Blocks        (* the blocks tried, before they are quantized             *)

InverseAssumption ==
  /\ Scalings \subseteq (1..16) \X (1..16)
  /\ Methods \subseteq {"islow", "ifast"}
  /\ QuantSteps \subseteq 1..255

NoRoutine == [columns |-> 0]

VARIABLES
  pc,         (* "start_pass", "columns", "rows", "done" or "error"        *)
  size,       (* the component's scaled sizes, width first                 *)
  routine,    (* idct->pub.inverse_DCT: what start_pass selected           *)
  quantval,   (* the component's quant_table                               *)
  dct_table,  (* the multiplier table start_pass built from it             *)
  block,      (* the coefficients given                                    *)
  workspace,  (* the results of pass 1: one tuple for each column          *)
  samples     (* the results of pass 2: one tuple for each row             *)

vars == <<pc, size, routine, quantval, dct_table, block, workspace, samples>>

(* The routine that reads `columns' columns, makes w x h samples of them   *)
(* and shifts the results of its passes back by shift1 and shift2.         *)
Passes(columns, h, shift1, w, shift2) ==
  [fast |-> FALSE, columns |-> columns, h |-> h, shift1 |-> shift1,
   w |-> w, shift2 |-> shift2]

(* Three to sixteen points: pass 1 leaves PASS1_BITS of fraction, which    *)
(* pass 2 takes off with the 3 bits of the DCT's factor of 8.              *)
Plain(columns, h, w) ==
  Passes(columns, h, CONST_BITS - PASS1_BITS, w, CONST_BITS + PASS1_BITS + 3)

jpeg_idct_islow == Plain(8, 8, 8)
jpeg_idct_7x7 == Plain(7, 7, 7)
jpeg_idct_6x6 == Plain(6, 6, 6)
jpeg_idct_5x5 == Plain(5, 5, 5)
jpeg_idct_4x4 == Plain(4, 4, 4)
jpeg_idct_3x3 == Plain(3, 3, 3)
jpeg_idct_9x9 == Plain(8, 9, 9)
jpeg_idct_10x10 == Plain(8, 10, 10)
jpeg_idct_11x11 == Plain(8, 11, 11)
jpeg_idct_12x12 == Plain(8, 12, 12)
jpeg_idct_13x13 == Plain(8, 13, 13)
jpeg_idct_14x14 == Plain(8, 14, 14)
jpeg_idct_15x15 == Plain(8, 15, 15)
jpeg_idct_16x16 == Plain(8, 16, 16)
jpeg_idct_16x8 == Plain(8, 8, 16)
jpeg_idct_14x7 == Plain(8, 7, 14)
jpeg_idct_12x6 == Plain(8, 6, 12)
jpeg_idct_10x5 == Plain(8, 5, 10)
jpeg_idct_8x4 == Plain(8, 4, 8)
jpeg_idct_6x3 == Plain(6, 3, 6)
jpeg_idct_8x16 == Plain(8, 16, 8)
jpeg_idct_7x14 == Plain(7, 14, 7)
jpeg_idct_6x12 == Plain(6, 12, 6)
jpeg_idct_5x10 == Plain(5, 10, 5)
jpeg_idct_4x8 == Plain(4, 8, 4)
jpeg_idct_3x6 == Plain(3, 6, 3)

(* One and two points multiply by nothing: what they pass on is not        *)
(* scaled, and the 4-point pass of 2x4 keeps all its bits.                 *)
jpeg_idct_4x2 == Passes(4, 2, 0, 4, CONST_BITS + 3)
jpeg_idct_2x4 == Passes(2, 4, 0, 2, CONST_BITS + 3)
jpeg_idct_2x2 == Passes(2, 2, 0, 2, 3)
jpeg_idct_2x1 == Passes(2, 1, 0, 2, 3)
jpeg_idct_1x2 == Passes(1, 2, 0, 1, 3)
jpeg_idct_1x1 == Passes(1, 1, 0, 1, 3)

(* The fast routine, and what it shifts back in all.                       *)
jpeg_idct_ifast ==
  [fast |-> TRUE, columns |-> 8, h |-> 8, shift1 |-> 0,
   w |-> 8, shift2 |-> PASS1_BITS + 3]

ScaledRoutines ==
  {jpeg_idct_islow, jpeg_idct_7x7, jpeg_idct_6x6, jpeg_idct_5x5,
   jpeg_idct_4x4, jpeg_idct_3x3, jpeg_idct_2x2, jpeg_idct_1x1,
   jpeg_idct_9x9, jpeg_idct_10x10, jpeg_idct_11x11, jpeg_idct_12x12,
   jpeg_idct_13x13, jpeg_idct_14x14, jpeg_idct_15x15, jpeg_idct_16x16,
   jpeg_idct_16x8, jpeg_idct_14x7, jpeg_idct_12x6, jpeg_idct_10x5,
   jpeg_idct_8x4, jpeg_idct_6x3, jpeg_idct_4x2, jpeg_idct_2x1,
   jpeg_idct_8x16, jpeg_idct_7x14, jpeg_idct_6x12, jpeg_idct_5x10,
   jpeg_idct_4x8, jpeg_idct_3x6, jpeg_idct_2x4, jpeg_idct_1x2}

(* A table lookup, not a test: a result ten bits hold is clamped around    *)
(* CENTERJSAMPLE, anything larger wraps.                                   *)
range_limit(x) ==
  LET i == x % 1024
  IN IF i < 128 THEN i + 128
     ELSE IF i < 512 THEN 255
     ELSE IF i < 896 THEN 0
     ELSE i - 896

(* The scale factors of the fast DCT, cos(k*pi/16) * root 2 in 14 bits.    *)
aanscales ==
  << <<16384, 22725, 21407, 19266, 16384, 12873,  8867,  4520>>,
     <<22725, 31521, 29692, 26722, 22725, 17855, 12299,  6270>>,
     <<21407, 29692, 27969, 25172, 21407, 16819, 11585,  5906>>,
     <<19266, 26722, 25172, 22654, 19266, 15137, 10426,  5315>>,
     <<16384, 22725, 21407, 19266, 16384, 12873,  8867,  4520>>,
     <<12873, 17855, 16819, 15137, 12873, 10114,  6967,  3552>>,
     << 8867, 12299, 11585, 10426,  8867,  6967,  4799,  2446>>,
     << 4520,  6270,  5906,  5315,  4520,  3552,  2446,  1247>> >>

DESCALE(x, n) == RIGHT_SHIFT(x + 2^(n - 1), n)

(* The multipliers of a routine: the steps themselves, or for the fast one *)
(* the steps times its scale factors, with PASS1_BITS of fraction.         *)
MultiplierTable(fast, quant) ==
  [u \in 0..7 |-> [v \in 0..7 |->
     IF fast THEN DESCALE(quant[u][v] * aanscales[u + 1][v + 1], 12)
     ELSE quant[u][v]]]

(* A pass over x, whose first entry enters the kernel with the rounding of *)
(* the shift; a pass of one or two points scales nothing.                  *)
Pass(n, x, shift) ==
  LET unit == IF n <= 2 THEN 1 ELSE 2^CONST_BITS
      fudge == IF shift = 0 THEN 0 ELSE 2^(shift - 1)
      out == Kernel(n, unit * x[0] + fudge, x)
  IN [k \in 1..n |-> RIGHT_SHIFT(out[k], shift)]

(* The 4-point pass 1 rounds its odd part alone.                           *)
FourPointColumn(x) ==
  LET tmp10 == x[0] + x[2]
      tmp12 == x[0] - x[2]
      odd == Odd4(x)
      tmp0 == RIGHT_SHIFT(odd[1] + 2^(CONST_BITS - PASS1_BITS - 1),
                          CONST_BITS - PASS1_BITS)
      tmp2 == RIGHT_SHIFT(odd[2] + 2^(CONST_BITS - PASS1_BITS - 1),
                          CONST_BITS - PASS1_BITS)
      whole == 2^PASS1_BITS
  IN <<whole * tmp10 + tmp0, whole * tmp12 + tmp2,
       whole * tmp12 - tmp2, whole * tmp10 - tmp0>>

Column(r, x) ==
  CASE r.fast                      -> FastKernel(x)
    [] r.h = 4 /\ r.shift1 # 0     -> FourPointColumn(x)
    [] OTHER                       -> Pass(r.h, x, r.shift1)

Row(r, x) ==
  IF r.fast
  THEN LET out == FastKernel(x)
       IN [k \in 1..8 |-> RIGHT_SHIFT(out[k], r.shift2)]
  ELSE Pass(r.w, x, r.shift2)

(* islow and ifast leave out the kernel when all but the first are zero.   *)
HasShortcut(r) == r.columns = 8 /\ r.w = 8 /\ r.h = 8

AllZeroButFirst(x) == \A k \in 1..7 : x[k] = 0

(* With the results of a column rounded as those of a row are.             *)
ShortColumnShifted(r, x) == [k \in 1..8 |-> 2 * x[0]]

ShortColumn(r, x) ==
  [k \in 1..8 |-> IF r.fast THEN x[0] ELSE 2^PASS1_BITS * x[0]]

ShortRow(r, x) ==
  [k \in 1..8 |-> IF r.fast THEN RIGHT_SHIFT(x[0], PASS1_BITS + 3)
                  ELSE DESCALE(x[0], PASS1_BITS + 3)]

Init ==
  /\ pc = "start_pass" /\ size = <<>> /\ routine = NoRoutine
  /\ quantval = <<>> /\ dct_table = <<>>
  /\ block = <<>> /\ workspace = <<>> /\ samples = <<>>

(* jddctmgr.c: the routine by the two scaled sizes; both 8 leaves the      *)
(* choice to dct_method, a pair there is no routine for is an error.       *)
SelectRoutine(wh, method) ==
  IF wh = <<8, 8>> /\ method = "ifast" THEN {jpeg_idct_ifast}
  ELSE {r \in ScaledRoutines : r.w = wh[1] /\ r.h = wh[2]}

(* A table with steps that differ: a transposed one would show.            *)
QuantTable(q) == [u \in 0..7 |-> [v \in 0..7 |-> q + ((u + 2 * v) % q)]]

(* What an encoder stores for the coefficients b.                          *)
Quantized(b) == [u \in 0..7 |-> [v \in 0..7 |-> b[u][v] \div quantval[u][v]]]

start_pass(wh, method, q) ==
  /\ pc = "start_pass" /\ size' = wh
  /\ quantval' = QuantTable(q)
  /\ LET found == SelectRoutine(wh, method)
     IN IF found = {}
        THEN /\ pc' = "error"
             /\ UNCHANGED <<routine, dct_table>>
        ELSE \E r \in found :
               /\ pc' = "columns" /\ routine' = r
               /\ dct_table' = MultiplierTable(r.fast, QuantTable(q))
  /\ UNCHANGED <<block, workspace, samples>>

(* Pass 1 of a routine given the block b: each column is dequantized and   *)
(* transformed.                                                            *)
Columns(b) ==
  /\ pc = "columns" /\ pc' = "rows"
  /\ block' = b
  /\ workspace' = [c \in 0..(routine.columns - 1) |->
       LET x == [u \in 0..7 |-> b[u][c] * dct_table[u][c]]
       IN IF HasShortcut(routine) /\ AllZeroButFirst(x)
          THEN ShortColumn(routine, x) ELSE Column(routine, x)]
  /\ UNCHANGED <<size, routine, quantval, dct_table, samples>>

WorkspaceRow(y) ==
  [c \in 0..7 |-> IF c < routine.columns THEN workspace[c][y] ELSE 0]

(* Pass 2: each row of the workspace is transformed and clamped.           *)
Rows ==
  /\ pc = "rows" /\ pc' = "done"
  /\ samples' = [y \in 1..routine.h |->
       LET x == WorkspaceRow(y)
           out == IF HasShortcut(routine) /\ AllZeroButFirst(x)
                  THEN ShortRow(routine, x) ELSE Row(routine, x)
       IN [k \in 1..routine.w |-> range_limit(out[k])]]
  /\ UNCHANGED <<size, routine, quantval, dct_table, block, workspace>>

(* The next component or image.                                            *)
Again ==
  /\ pc \in {"done", "error"} /\ pc' = "start_pass"
  /\ size' = <<>> /\ routine' = NoRoutine /\ quantval' = <<>> /\ dct_table' = <<>>
  /\ block' = <<>> /\ workspace' = <<>> /\ samples' = <<>>

Next ==
  \/ \E wh \in Scalings, m \in Methods, q \in QuantSteps :
       start_pass(wh, m, q)
  \/ \E b \in Blocks : Columns(Quantized(b))
  \/ Rows
  \/ Again

Spec == Init /\ [][Next]_vars

-----------------------------------------------------------------------------
(* The samples fill a block of the size the component was scaled to, and   *)
(* only a size there is no routine for is an error.                        *)
TypeOK ==
  /\ pc \in {"start_pass", "columns", "rows", "done", "error"}
  /\ pc = "error" => ~ \E r \in ScaledRoutines : <<r.w, r.h>> = size
  /\ pc \in {"columns", "rows", "done"} =>
       routine \in ScaledRoutines \cup {jpeg_idct_ifast}
  /\ pc \in {"rows", "done"} =>
       \A c \in 0..(routine.columns - 1) : DOMAIN workspace[c] = 1..routine.h
  /\ pc = "done" => samples \in [1..size[2] -> [1..size[1] -> 0..255]]

(* What the block stands for at sample x of row y, times 8: the sum of its *)
(* dequantized coefficients on the cosine basis of the scaled size. Only   *)
(* the frequencies the smaller sizes have take part.                       *)
Present(b) == {t \in (0..7) \X (0..7) :
                 t[1] < routine.h /\ t[2] < routine.w /\ b[t[1]][t[2]] # 0}

Ideal(x, y) ==
  MapThenSumSet(
    LAMBDA t : (block[t[1]][t[2]] * quantval[t[1]][t[2]]
                * ((Basis[routine.h][t[1]][y] * Basis[routine.w][t[2]][x])
                     \div One)) \div 256,
    Present(block))

Clamped(v) == IF v < 0 THEN 0 ELSE IF v > 255 THEN 255 ELSE v

(* Every routine computes the inverse DCT: each sample is within one of    *)
(* the exact value. The multipliers of the fast routine have two bits of   *)
(* fraction: it is held to two, and to coarse quantization. (jidctint.c:   *)
(* slow but accurate; a size under 8 is that of the lower frequencies.)    *)
Accurate ==
  pc = "done" /\ (routine.fast => quantval[0][0] >= 16) =>
    \A y \in 1..routine.h, x \in 1..routine.w :
      LET ideal == Ideal(x - 1, y - 1)
          slack == IF routine.fast THEN 2 ELSE 1
          low == Clamped(128 + ideal \div 512 - slack)
          high == Clamped(128 + (ideal + 511) \div 512 + slack)
      IN samples[y][x] \in low..high

(* A block that has only a DC term is a flat square of the same brightness *)
(* whatever size it is decoded to.                                         *)
SameBrightness ==
  pc = "done" /\ (\A u, v \in 0..7 : u + v > 0 => block[u][v] = 0) =>
    \A y \in 1..routine.h, x \in 1..routine.w :
      LET dc == block[0][0] * quantval[0][0]
      IN samples[y][x] \in {Clamped(DESCALE(dc, 3) + 128)}
           \cup (IF routine.fast THEN {Clamped(dc \div 8 + 128)} ELSE {})

(* Leaving out the kernel for a column or a row that is zero but for its   *)
(* first entry changes nothing: the result is what the kernel would give.  *)
ShortcutsChangeNothing ==
  pc \in {"rows", "done"} /\ HasShortcut(routine) =>
    /\ \A c \in 0..7 :
         workspace[c] =
           Column(routine, [u \in 0..7 |-> block[u][c] * dct_table[u][c]])
    /\ \A y \in 1..8 :
         AllZeroButFirst(WorkspaceRow(y)) =>
           ShortRow(routine, WorkspaceRow(y)) = Row(routine, WorkspaceRow(y))
=============================================================================
