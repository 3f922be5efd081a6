---------------------------- MODULE FdctKernels ----------------------------
(***************************************************************************)
(* The one-dimensional forward DCTs of jfdctint.c, one for each number of  *)
(* points from 1 to 16, and the one of jfdctfst.c.                         *)
(*                                                                         *)
(* An N-point transform takes N samples x[0], ..., x[N - 1] to the first   *)
(* eight (or N) coefficients, scaled by 2^CONST_BITS. All begin with the   *)
(* sums s[i] and the differences d[i] of the samples that mirror each      *)
(* other; with an odd number of points s ends with the middle one. The     *)
(* names are those of the code, with a letter where the code assigns a     *)
(* variable again; what is used once stands where it is used.              *)
(*                                                                         *)
(* The arithmetic is the same wherever a number of points occurs, but not  *)
(* the multipliers c: in the second pass most routines multiply them by    *)
(* the factor (8/N)^2, or half or twice that, which scales the result to   *)
(* 8 x 8. PlainN are those of the first pass, FoldedN those of the second. *)
(***************************************************************************)
EXTENDS Integers, Sequences

CONST_BITS == 13

(* An arithmetic shift rounds towards minus infinity, as \div does.        *)
RIGHT_SHIFT(x, n) == x \div 2^n

DESCALE(x, n) == RIGHT_SHIFT(x + 2^(n - 1), n)

Fdct1(s, d) == <<8192 * s[0]>>

Fdct2(s, d) == <<8192 * s[0], 8192 * d[0]>>

(* With the factor of the second pass left out of the last multiplier.     *)
Folded3Unscaled == <<14564, 17837, 5793>>

Plain3 == <<8192, 10033, 5793>>
Folded3 == <<14564, 17837, 10298>>
Fdct3(c, s, d) ==
  <<c[1] * (s[0] + s[1]),
    c[2] * d[0],
    c[3] * (s[0] - s[1] - s[1])>>

Fdct4(s, d) ==
  LET tmp0 == 4433 * (d[0] + d[1])
  IN <<8192 * (s[0] + s[1]),
       tmp0 + 6270 * d[0],
       8192 * (s[0] - s[1]),
       tmp0 - 15137 * d[1]>>

Plain5 == <<8192, 6476, 2896, 6810, 4209, 17828>>
Folded5 == <<10486, 8290, 3707, 8716, 5387, 22820>>
Fdct5(c, s, d) ==
  LET tmp10 == s[0] + s[1]
      tmp11 == c[2] * (s[0] - s[1])
      tmp10b == c[3] * (tmp10 - 4 * s[2])
      tmp10c == c[4] * (d[0] + d[1])
  IN <<c[1] * (tmp10 + s[2]),
       tmp10c + c[5] * d[0],
       tmp11 + tmp10b,
       tmp10c - c[6] * d[1],
       tmp11 - tmp10b>>

Plain6 == <<8192, 2998, 10033, 5793>>
Folded6 == <<14564, 5331, 17837, 10298>>
Fdct6(c, s, d) ==
  LET tmp10 == s[0] + s[2]
      tmp10b == c[2] * (d[0] + d[2])
  IN <<c[1] * (tmp10 + s[1]),
       tmp10b + c[1] * (d[0] + d[1]),
       c[3] * (s[0] - s[2]),
       c[1] * (d[0] - d[1] - d[2]),
       c[4] * (tmp10 - s[1] - s[1]),
       tmp10b + c[1] * (d[2] - d[1])>>

Plain7 == <<8192, 2896, 7542, 2578, 7223, 7663, 1395, 11295, 5027, 5793,
            15326>>
Folded7 == <<10700, 3783, 9850, 3367, 9434, 10009, 1822, 14752, 6565, 7566,
             20017>>
Fdct7(c, s, d) ==
  LET z1 == s[0] + s[2]
      tmp3 == s[3] + s[3]
      z1b == c[2] * (z1 - tmp3 - tmp3)
      z2 == c[3] * (s[0] - s[2])
      z3 == c[4] * (s[1] - s[2])
      z2b == c[5] * (s[0] - s[1])
      tmp1 == c[6] * (d[0] + d[1])
      tmp2 == c[7] * (d[0] - d[1])
      tmp2b == -c[8] * (d[1] + d[2])
      tmp3b == c[9] * (d[0] + d[2])
  IN <<c[1] * (z1 + s[1] + s[3]),
       tmp1 - tmp2 + tmp3b,
       z1b + z2 + z3,
       tmp1 + tmp2 + tmp2b,
       z2b + z3 - c[10] * (s[1] - tmp3),
       tmp2b + tmp3b + c[11] * d[2],
       z1b - z2 + z2b>>

Fdct8(s, d) ==
  LET tmp10 == s[0] + s[3]
      tmp12 == s[0] - s[3]
      tmp11 == s[1] + s[2]
      tmp13 == s[1] - s[2]
      z1 == 4433 * (tmp12 + tmp13)
      tmp12b == d[0] + d[2]
      tmp13b == d[1] + d[3]
      z1b == 9633 * (tmp12b + tmp13b)
      tmp10b == -7373 * (d[0] + d[3])
      tmp11b == -20995 * (d[1] + d[2])
      tmp12c == -3196 * tmp12b + z1b
      tmp13c == -16069 * tmp13b + z1b
  IN <<8192 * (tmp10 + tmp11),
       12299 * d[0] + tmp10b + tmp12c,
       z1 + 6270 * tmp12,
       25172 * d[1] + tmp11b + tmp13c,
       8192 * (tmp10 - tmp11),
       16819 * d[2] + tmp11b + tmp12c,
       z1 - 15137 * tmp13,
       2446 * d[3] + tmp10b + tmp13c>>

Plain9 == <<8192, 10887, 5793, 10033, 7447, 3962, 11409, 8875, 2012>>
Folded9 == <<12945, 17203, 9154, 15855, 11768, 6262, 18029, 14024, 3179>>
Fdct9(c, s, d) ==
  LET z1 == s[0] + s[2] + s[3]
      z2 == s[1] + s[4]
      z1b == c[2] * (s[0] - s[2])
      z2b == c[3] * (s[1] - s[4] - s[4])
      tmp11 == c[4] * d[1]
      tmp0 == c[5] * (d[0] + d[2])
      tmp1 == c[6] * (d[0] + d[3])
      tmp2 == c[7] * (d[2] - d[3])
  IN <<c[1] * (z1 + z2),
       tmp11 + tmp0 + tmp1,
       c[8] * (s[2] - s[3]) + z1b + z2b,
       c[4] * (d[0] - d[2] - d[3]),
       c[9] * (s[3] - s[0]) + z1b - z2b,
       tmp0 - tmp11 - tmp2,
       c[3] * (z1 - z2 - z2),
       tmp1 - tmp11 + tmp2>>

Plain10 == <<8192, 6810, 7791, 4815, 2531, 4096, 11443, 10323, 5260, 1812,
             4209, 9373, 3580, 17828>>
Folded10 == <<10486, 8716, 9973, 6163, 3240, 5243, 14647, 13213, 6732, 2320,
              5387, 11997, 4582, 22820>>
Fdct10(c, s, d) ==
  LET tmp10 == s[0] + s[4]
      tmp13 == s[0] - s[4]
      tmp11 == s[1] + s[3]
      tmp14 == s[1] - s[3]
      tmp12 == s[2] + s[2]
      tmp10b == c[2] * (tmp13 + tmp14)
      tmp10c == d[0] + d[4]
      tmp11b == d[1] - d[3]
      tmp2 == c[1] * d[2]
      tmp12b == c[3] * (d[0] - d[4]) - c[4] * (d[1] + d[3])
      tmp13b == c[5] * (tmp10c + tmp11b) + c[6] * tmp11b - tmp2
  IN <<c[1] * (tmp10 + tmp11 + s[2]),
       c[7] * d[0] + c[8] * d[1] + tmp2 + c[9] * d[3] + c[10] * d[4],
       tmp10b + c[11] * tmp13,
       tmp12b + tmp13b,
       c[12] * (tmp10 - tmp12) - c[13] * (tmp11 - tmp12),
       c[1] * (tmp10c - tmp11b - d[2]),
       tmp10b - c[14] * tmp14,
       tmp12b - tmp13b>>

Plain11 == <<8192, 11116, 1649, 7587, 9746, 10538, 8756, 6263, 11467, 3264,
             14090, 8342, 11395, 10456, 511, 4813, 16294, 13275, 6461,
             10695>>
Folded11 == <<8666, 11759, 1744, 8026, 10310, 11148, 9262, 6626, 12131,
              3453, 14905, 8825, 12054, 11061, 540, 5091, 17237, 14043,
              6835, 11314>>
Fdct11(c, s, d) ==
  LET tmp5 == s[5] + s[5]
      tmp0 == s[0] - tmp5
      tmp1 == s[1] - tmp5
      tmp2 == s[2] - tmp5
      tmp3 == s[3] - tmp5
      tmp4 == s[4] - tmp5
      z1 == c[2] * (tmp0 + tmp3) + c[3] * (tmp2 + tmp4)
      z2 == c[4] * (tmp1 - tmp3)
      z3 == c[5] * (tmp0 - tmp1)
      tmp1b == c[6] * (d[0] + d[1])
      tmp2b == c[7] * (d[0] + d[2])
      tmp3b == c[8] * (d[0] + d[3])
      tmp4b == -c[8] * (d[1] + d[2])
      tmp5b == -c[9] * (d[1] + d[3])
      tmp10 == c[10] * (d[2] + d[3])
  IN <<c[1] * (s[0] + s[1] + s[2] + s[3] + s[4] + s[5]),
       tmp1b + tmp2b + tmp3b - c[11] * d[0] + c[10] * d[4],
       z1 + z2 - c[12] * tmp3 - c[13] * tmp4,
       tmp1b + tmp4b + tmp5b + c[14] * d[1] - c[7] * d[4],
       z2 + z3 + c[15] * tmp1 - c[2] * tmp2 + c[16] * tmp4,
       tmp2b + tmp4b + tmp10 - c[17] * d[2] + c[9] * d[4],
       z1 + z3 - c[18] * tmp0 - c[19] * tmp2,
       tmp3b + tmp5b + tmp10 + c[20] * d[3] - c[6] * d[4]>>

(* The ninth multiplier is that of tmp14 - tmp15 in the third coefficient: *)
(* pass 1 adds the difference without scaling it by CONST_BITS.            *)
Plain12 == <<8192, 4433, 6270, 15137, 9191, 7053, 1512, 4758, 1, 11190,
             10703, 10033, 19165, 5946>>
Folded12 == <<7282, 3941, 5573, 13455, 8170, 6269, 1344, 4229, 7282, 9947,
              9514, 8918, 17036, 5285>>
Fdct12(c, s, d) ==
  LET tmp10 == s[0] + s[5]
      tmp13 == s[0] - s[5]
      tmp14 == s[1] - s[4]
      tmp12 == s[2] + s[3]
      tmp15 == s[2] - s[3]
      tmp10b == c[2] * (d[1] + d[4])
      tmp14b == tmp10b + c[3] * d[1]
      tmp15b == tmp10b - c[4] * d[4]
      tmp12b == c[5] * (d[0] + d[2])
      tmp13b == c[6] * (d[0] + d[3])
      tmp11 == -c[7] * (d[2] + d[3])
  IN <<c[1] * (tmp10 + s[1] + s[4] + tmp12),
       tmp12b + tmp13b + tmp14b - c[8] * d[0] + c[7] * d[5],
       c[9] * (tmp14 - tmp15) + c[10] * (tmp13 + tmp15),
       tmp15b + c[11] * (d[0] - d[3]) - c[2] * (d[2] + d[5]),
       c[12] * (tmp10 - tmp12),
       tmp12b + tmp11 - tmp15b - c[13] * d[2] + c[6] * d[5],
       c[1] * (tmp13 - tmp14 - tmp15),
       tmp13b + tmp11 - tmp14b + c[14] * d[3] - c[5] * d[5]>>

Plain13 == <<8192, 9465, 3570, 2592, 793, 7678, 3989, 10832, 9534, 7682,
             2773, 5384, 16549, 2611, 11249, 8672, 4108, 1396, 6581, 10258,
             6859, 19183, 12879, 18515, 18068, 14273>>
Folded13 == <<6205, 7169, 2704, 1963, 601, 5816, 3021, 8204, 7221, 5819,
              2100, 4078, 12534, 1978, 8520, 6568, 3112, 1058, 4985, 7770,
              5195, 14529, 9754, 14023, 13685, 10811>>
Fdct13(c, s, d) ==
  LET tmp6 == s[6] + s[6]
      tmp0 == s[0] - tmp6
      tmp1 == s[1] - tmp6
      tmp2 == s[2] - tmp6
      tmp3 == s[3] - tmp6
      tmp4 == s[4] - tmp6
      tmp5 == s[5] - tmp6
      z1 == c[2] * (tmp0 - tmp2) - c[3] * (tmp3 - tmp4)
            - c[4] * (tmp1 - tmp5)
      z2 == c[5] * (tmp0 + tmp2) - c[6] * (tmp3 + tmp4)
            + c[7] * (tmp1 + tmp5)
      tmp1b == c[8] * (d[0] + d[1])
      tmp2b == c[9] * (d[0] + d[2])
      tmp3b == c[10] * (d[0] + d[3]) + c[11] * (d[4] + d[5])
      tmp4b == c[10] * (d[4] - d[5]) - c[11] * (d[1] + d[2])
      tmp5b == -c[9] * (d[1] + d[3])
      tmp6b == -c[12] * (d[2] + d[3])
  IN <<c[1] * (s[0] + s[1] + s[2] + s[3] + s[4] + s[5] + s[6]),
       tmp1b + tmp2b + tmp3b - c[13] * d[0] + c[14] * d[4],
       c[15] * tmp0 + c[16] * tmp1 + c[17] * tmp2 - c[18] * tmp3
         - c[19] * tmp4 - c[20] * tmp5,
       tmp1b + tmp4b + tmp5b + c[21] * d[1] - c[22] * d[4],
       z1 + z2,
       tmp2b + tmp4b + tmp6b - c[23] * d[2] + c[24] * d[5],
       z1 - z2,
       tmp3b + tmp5b + tmp6b + c[25] * d[3] - c[26] * d[5]>>

(* The tenth multiplier is that of d[6] in the second coefficient: pass 1  *)
(* subtracts d[6] from the product without scaling it by CONST_BITS.       *)
Plain14 == <<8192, 9058, 1297, 11512, 9810, 6164, 10935, 3826, 9232, 9231,
             2237, 5027, 3474, 25148, 10438, 2578, 7223, 19447, 9175, 14084,
             11295>>
Folded14 == <<5350, 5915, 847, 7518, 6406, 4025, 7141, 2499, 6029, 679,
              1461, 3283, 2269, 16423, 6817, 1684, 4717, 12700, 5992, 9198,
              7376>>
Fdct14(c, s, d) ==
  LET tmp10 == s[0] + s[6]
      tmp14 == s[0] - s[6]
      tmp11 == s[1] + s[5]
      tmp15 == s[1] - s[5]
      tmp12 == s[2] + s[4]
      tmp16 == s[2] - s[4]
      tmp13 == s[3] + s[3]
      tmp10b == c[2] * (tmp14 + tmp15)
      tmp10c == d[1] + d[2]
      tmp11b == d[5] - d[4]
      tmp3 == c[1] * d[3]
      tmp10d == -c[3] * tmp10c + c[4] * tmp11b - tmp3
      tmp11c == c[5] * (d[0] + d[2]) + c[6] * (d[4] + d[6])
      tmp12b == c[7] * (d[0] + d[1]) + c[8] * (d[5] - d[6])
  IN <<c[1] * (tmp10 + tmp11 + tmp12 + s[3]),
       tmp11c + tmp12b + tmp3 - c[9] * d[0] - c[10] * d[6],
       tmp10b + c[11] * tmp14 + c[12] * tmp16,
       tmp10d + tmp12b - c[13] * d[1] - c[14] * d[5],
       c[15] * (tmp10 - tmp13) + c[16] * (tmp11 - tmp13)
         - c[17] * (tmp12 - tmp13),
       tmp10d + tmp11c - c[18] * d[2] + c[19] * d[4],
       tmp10b - c[20] * tmp15 - c[21] * tmp16,
       c[1] * (d[0] - tmp10c + d[3] - tmp11b - d[6])>>

Plain15 == <<8192, 11332, 7752, 6476, 10033, 11522, 11018, 4712, 3897, 4209,
             13930, 12543, 18336, 6810, 6541, 748, 9373, 3580, 2912, 17828,
             7121>>
Folded15 == <<9321, 12893, 8820, 7369, 11415, 13109, 12536, 5361, 4434,
              4788, 15850, 14271, 20862, 7748, 7442, 852, 10664, 4073, 3314,
              20284, 8102>>
Fdct15(c, s, d) ==
  LET z1 == s[0] + s[4] + s[5]
      z2 == s[1] + s[3] + s[6]
      z3 == s[2] + s[7]
      z3b == z3 + z3
      tmp2 == s[2] + (s[1] + s[4]) \div 2 - s[7] - s[7]
      z3c == c[2] * (s[0] - s[3]) + c[3] * (s[6] - s[5])
             + c[4] * (s[1] - s[4])
      tmp12 == c[5] * d[2]
      tmp4 == c[6] * (d[0] - d[6]) + c[7] * (d[1] + d[4])
              + c[8] * (d[3] + d[5])
  IN <<c[1] * (z1 + z2 + z3),
       c[9] * d[3] - c[10] * d[4] + c[11] * d[6] + tmp4 + tmp12,
       c[12] * (s[3] - tmp2) - c[13] * (s[6] - tmp2) + z3c,
       c[7] * (d[0] - d[4] - d[5]) + c[14] * (d[1] - d[3] - d[6]),
       c[15] * (s[5] - tmp2) - c[16] * (s[0] - tmp2) + z3c,
       c[5] * (d[0] - d[2] - d[3] + d[5] + d[6]),
       c[17] * (z1 - z3b) - c[18] * (z2 - z3b),
       -c[19] * d[0] - c[20] * d[1] - c[21] * d[5] + tmp4 - tmp12>>

Fdct16(s, d) ==
  LET tmp10 == s[0] + s[7]
      tmp14 == s[0] - s[7]
      tmp11 == s[1] + s[6]
      tmp15 == s[1] - s[6]
      tmp12 == s[2] + s[5]
      tmp16 == s[2] - s[5]
      tmp13 == s[3] + s[4]
      tmp17 == s[3] - s[4]
      tmp10b == 2260 * (tmp17 - tmp15) + 11363 * (tmp14 - tmp16)
      tmp11b == 11086 * (d[0] + d[1]) + 3363 * (d[6] - d[7])
      tmp12b == 10217 * (d[0] + d[2]) + 5461 * (d[5] + d[7])
      tmp13b == 8956 * (d[0] + d[3]) + 7350 * (d[4] - d[7])
      tmp14b == 1136 * (d[1] + d[2]) + 11529 * (d[6] - d[5])
      tmp15b == -5461 * (d[1] + d[3]) - 10217 * (d[4] + d[6])
      tmp16b == -11086 * (d[2] + d[3]) + 3363 * (d[5] - d[4])
  IN <<8192 * (tmp10 + tmp11 + tmp12 + tmp13),
       tmp11b + tmp12b + tmp13b - 18730 * d[0] + 6387 * d[7],
       tmp10b + 11893 * tmp15 + 17799 * tmp16,
       tmp11b + tmp14b + tmp15b + 589 * d[1] - 13631 * d[6],
       10703 * (tmp10 - tmp13) + 4433 * (tmp11 - tmp12),
       tmp12b + tmp14b + tmp16b - 9222 * d[2] + 10055 * d[5],
       tmp10b - 1730 * tmp14 - 8697 * tmp17,
       tmp13b + tmp15b + tmp16b + 8728 * d[3] + 17760 * d[4]>>

(* The multipliers of a pass over n points.                                *)
PlainMultipliers(n) ==
  CASE n = 3 -> Plain3   [] n = 5 -> Plain5   [] n = 6 -> Plain6
    [] n = 7 -> Plain7   [] n = 9 -> Plain9   [] n = 10 -> Plain10
    [] n = 11 -> Plain11 [] n = 12 -> Plain12 [] n = 13 -> Plain13
    [] n = 14 -> Plain14 [] n = 15 -> Plain15 [] OTHER -> <<>>

FoldedMultipliers(n) ==
  CASE n = 3 -> Folded3   [] n = 5 -> Folded5   [] n = 6 -> Folded6
    [] n = 7 -> Folded7   [] n = 9 -> Folded9   [] n = 10 -> Folded10
    [] n = 11 -> Folded11 [] n = 12 -> Folded12 [] n = 13 -> Folded13
    [] n = 14 -> Folded14 [] n = 15 -> Folded15 [] OTHER -> <<>>

Sums(n, x) ==
  [i \in 0..((n - 1) \div 2) |->
     IF 2 * i = n - 1 THEN x[i] ELSE x[i] + x[n - 1 - i]]

Differences(n, x) == [i \in 0..(n \div 2 - 1) |-> x[i] - x[n - 1 - i]]

(* The n-point kernel with multipliers c on the samples x.                 *)
Kernel(n, c, x) ==
  LET s == Sums(n, x)
      d == Differences(n, x)
  IN CASE n = 1 -> Fdct1(s, d)        [] n = 2 -> Fdct2(s, d)
       [] n = 3 -> Fdct3(c, s, d)       [] n = 4 -> Fdct4(s, d)
       [] n = 5 -> Fdct5(c, s, d)       [] n = 6 -> Fdct6(c, s, d)
       [] n = 7 -> Fdct7(c, s, d)       [] n = 8 -> Fdct8(s, d)
       [] n = 9 -> Fdct9(c, s, d)       [] n = 10 -> Fdct10(c, s, d)
       [] n = 11 -> Fdct11(c, s, d)     [] n = 12 -> Fdct12(c, s, d)
       [] n = 13 -> Fdct13(c, s, d)     [] n = 14 -> Fdct14(c, s, d)
       [] n = 15 -> Fdct15(c, s, d)     [] n = 16 -> Fdct16(s, d)

-----------------------------------------------------------------------------
(* jfdctfst.c works in 8 bits and drops what a product has below them.     *)
FastMultiply(x, c) == RIGHT_SHIFT(x * c, 8)

FastKernel(x) ==
  LET s == Sums(8, x)
      d == Differences(8, x)
      tmp10 == s[0] + s[3]
      tmp13 == s[0] - s[3]
      tmp11 == s[1] + s[2]
      tmp12 == s[1] - s[2]
      z1 == FastMultiply(tmp12 + tmp13, 181)
      tmp10b == d[3] + d[2]
      tmp12b == d[1] + d[0]
      z5 == FastMultiply(tmp10b - tmp12b, 98)
      z2 == FastMultiply(tmp10b, 139) + z5
      z4 == FastMultiply(tmp12b, 334) + z5
      z3 == FastMultiply(d[2] + d[1], 181)
      z11 == d[0] + z3
      z13 == d[0] - z3
  IN <<tmp10 + tmp11, z11 + z4, tmp13 + z1, z13 - z2,
       tmp10 - tmp11, z13 + z2, tmp13 - z1, z11 - z4>>
=============================================================================
