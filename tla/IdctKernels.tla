---------------------------- MODULE IdctKernels ----------------------------
(***************************************************************************)
(* The one-dimensional inverse DCTs of jidctint.c, one for each number of  *)
(* points from 1 to 16, and the one of jidctfst.c.                         *)
(*                                                                         *)
(* An N-point transform takes up to eight coefficients x[0], ..., x[7] to  *)
(* N samples. The code computes it in an even and an odd part that a       *)
(* butterfly combines. The even part starts from d, which is x[0] scaled   *)
(* by 2^CONST_BITS with the rounding term of the final descale added, as   *)
(* tmp10 or z3 in the code. A literal is FIX(c) of the code, c * 2^13      *)
(* rounded; the names are those of the code, with a letter where the code  *)
(* assigns a variable again, and what is used once stands where it is      *)
(* used. Both passes of a routine, and the routines for blocks that are    *)
(* not square, repeat the same arithmetic line by line: it is stated once. *)
(***************************************************************************)
EXTENDS Integers, Sequences

CONST_BITS == 13
PASS1_BITS == 2

(* An arithmetic shift rounds towards minus infinity, as \div does.        *)
RIGHT_SHIFT(x, n) == x \div 2^n

(* The first half of the samples is even + odd, the second half mirrors it *)
(* as even - odd; an odd number of points has a middle one of its own.     *)
Butterfly(n, even, odd) ==
  [k \in 1..n |->
     IF 2 * k <= n THEN even[k] + odd[k]
     ELSE IF 2 * k = n + 1 THEN even[k]
     ELSE even[n + 1 - k] - odd[n + 1 - k]]

Even3(d, x) ==
  LET tmp12 == 5793 * x[2]
  IN <<d + tmp12, d - tmp12 - tmp12>>

Odd3(x) == <<10033 * x[1]>>

Even4(d, x) == <<d + 8192 * x[2], d - 8192 * x[2]>>

Odd4(x) ==
  LET z1 == 4433 * (x[1] + x[3])
  IN <<z1 + 6270 * x[1], z1 - 15137 * x[3]>>

Even5(d, x) ==
  LET z1 == 6476 * (x[2] + x[4])
      z2 == 2896 * (x[2] - x[4])
      z3 == d + z2
  IN <<z3 + z1, z3 - z1, d - 4 * z2>>

Odd5(x) ==
  LET z1 == 6810 * (x[1] + x[3])
  IN <<z1 + 4209 * x[1], z1 - 17828 * x[3]>>

Even6(d, x) ==
  LET tmp10 == 5793 * x[4]
      tmp1 == d + tmp10
      tmp0 == 10033 * x[2]
  IN <<tmp1 + tmp0, d - tmp10 - tmp10, tmp1 - tmp0>>

Odd6(x) ==
  LET tmp1 == 2998 * (x[1] + x[5])
  IN <<tmp1 + 8192 * (x[1] + x[3]), 8192 * (x[1] - x[3] - x[5]),
       tmp1 + 8192 * (x[5] - x[3])>>

Even7(d, x) ==
  LET tmp10 == 7223 * (x[4] - x[6])
      tmp12 == 2578 * (x[2] - x[4])
      tmp0 == x[2] + x[6]
      tmp0b == 10438 * tmp0 + d
  IN <<tmp10 + tmp0b - 637 * x[6], tmp10 + tmp12 + d - 15083 * x[4],
       tmp12 + tmp0b - 20239 * x[2], d + 11585 * (x[4] - tmp0)>>

Odd7(x) ==
  LET tmp1 == 7663 * (x[1] + x[3])
      tmp2 == 1395 * (x[1] - x[3])
      tmp2b == -11295 * (x[3] + x[5])
      z2 == 5027 * (x[1] + x[5])
  IN <<tmp1 - tmp2 + z2, tmp1 + tmp2 + tmp2b, tmp2b + z2 + 15326 * x[5]>>

Even8(d, x) ==
  LET z1 == 4433 * (x[2] + x[6])
      tmp2 == z1 + 6270 * x[2]
      tmp3 == z1 - 15137 * x[6]
      tmp0 == d + 8192 * x[4]
      tmp1 == d - 8192 * x[4]
  IN <<tmp0 + tmp2, tmp1 + tmp3, tmp1 - tmp3, tmp0 - tmp2>>

Odd8(x) ==
  LET z2 == x[7] + x[3]
      z3 == x[5] + x[1]
      z1 == 9633 * (z2 + z3)
      z2c == -16069 * z2 + z1
      z3b == -3196 * z3 + z1
      z1c == -7373 * (x[7] + x[1])
      z1d == -20995 * (x[5] + x[3])
  IN <<12299 * x[1] + z1c + z3b, 25172 * x[3] + z1d + z2c,
       16819 * x[5] + z1d + z3b, 2446 * x[7] + z1c + z2c>>

Even9(d, x) ==
  LET tmp3 == 5793 * x[6]
      tmp1 == d + tmp3
      tmp2 == d - tmp3 - tmp3
      tmp0 == 5793 * (x[2] - x[4])
      tmp0b == 10887 * (x[2] + x[4])
      tmp2b == 8875 * x[2]
      tmp3b == 2012 * x[4]
  IN <<tmp1 + tmp0b - tmp3b, tmp2 + tmp0, tmp1 - tmp0b + tmp2b,
       tmp1 - tmp2b + tmp3b, tmp2 - tmp0 - tmp0>>

Odd9(x) ==
  LET z2 == -10033 * x[3]
      tmp2 == 7447 * (x[1] + x[5])
      tmp3 == 3962 * (x[1] + x[7])
      tmp1 == 11409 * (x[5] - x[7])
  IN <<tmp2 + tmp3 - z2, 10033 * (x[1] - x[5] - x[7]), tmp2 + z2 - tmp1,
       tmp3 + z2 + tmp1>>

Even10(d, x) ==
  LET z1 == 9373 * x[4]
      z2 == 3580 * x[4]
      tmp10 == d + z1
      tmp11 == d - z2
      z1b == 6810 * (x[2] + x[6])
      tmp12 == z1b + 4209 * x[2]
      tmp13 == z1b - 17828 * x[6]
  IN <<tmp10 + tmp12, tmp11 + tmp13, d - 2 * (z1 - z2), tmp11 - tmp13,
       tmp10 - tmp12>>

Odd10(x) ==
  LET z3 == 8192 * x[5]
      tmp11 == x[3] + x[7]
      tmp13 == x[3] - x[7]
      tmp12 == 2531 * tmp13
      z2 == 7791 * tmp11
      z4 == z3 + tmp12
      z2c == 4815 * tmp11
      z4b == z3 - tmp12 - 4096 * tmp13
  IN <<11443 * x[1] + z2 + z4, 10323 * x[1] - z2c - z4b,
       8192 * (x[1] - tmp13) - z3, 5260 * x[1] - z2c + z4b,
       1812 * x[1] - z2 + z4>>

Even11(d, x) ==
  LET tmp20 == 20862 * (x[4] - x[6])
      tmp23 == 3529 * (x[4] - x[2])
      z4 == x[2] + x[6]
      z4b == z4 - x[4]
      tmp25 == d + 11116 * z4b
      tmp24 == -9467 * z4 + tmp25
  IN <<tmp20 + tmp25 + 17333 * x[6], tmp20 + tmp23 + tmp25 - 14924 * x[4],
       tmp24 - 6461 * x[6], tmp23 + tmp25 - 12399 * x[2],
       tmp24 + 15929 * x[4] - 11395 * x[2], d - 11585 * z4b>>

Odd11(x) ==
  LET tmp11 == x[1] + x[3]
      tmp14 == 3264 * (tmp11 + x[5] + x[7])
      tmp11b == 7274 * tmp11
      tmp12 == 5492 * (x[1] + x[5])
      tmp13 == tmp14 + 3000 * (x[1] + x[7])
      z1 == tmp14 - 9527 * (x[3] + x[5])
      z1b == -14731 * (x[3] + x[7])
  IN <<tmp11b + tmp12 + tmp13 - 7562 * x[1], tmp11b + z1 + 16984 * x[3] + z1b,
       tmp12 + z1 - 9766 * x[5], tmp13 + z1b + 17223 * x[7],
       tmp14 + -12019 * x[3] + 8203 * x[5] - 13802 * x[7]>>

Even12(d, x) ==
  LET z4 == 10033 * x[4]
      tmp10 == d + z4
      tmp11 == d - z4
      z4b == 11190 * x[2]
      z1 == 8192 * x[2]
      z2 == 8192 * x[6]
      tmp12 == z1 - z2
      tmp12b == z4b + z2
      tmp12c == z4b - z1 - z2
  IN <<tmp10 + tmp12b, d + tmp12, tmp11 + tmp12c, tmp11 - tmp12c, d - tmp12,
       tmp10 - tmp12b>>

Odd12(x) ==
  LET tmp11 == 10703 * x[3]
      tmp14 == -4433 * x[3]
      tmp10 == x[1] + x[5]
      tmp15 == 7053 * (tmp10 + x[7])
      tmp12 == tmp15 + 2139 * tmp10
      tmp13 == -8565 * (x[5] + x[7])
      z1 == x[1] - x[7]
      z2 == x[3] - x[5]
      z3 == 4433 * (z1 + z2)
  IN <<tmp12 + tmp11 + 2295 * x[1], z3 + 6270 * z1,
       tmp12 + tmp13 + tmp14 - 12112 * x[5],
       tmp13 + tmp15 - tmp11 + 12998 * x[7], z3 - 15137 * z2,
       tmp15 + tmp14 - 5540 * x[1] - 16244 * x[7]>>

Even13(d, x) ==
  LET tmp10 == x[4] + x[6]
      tmp11 == x[4] - x[6]
      tmp12 == 9465 * tmp10
      tmp13 == 793 * tmp11 + d
      tmp12b == 2592 * tmp10
      tmp13b == 3989 * tmp11 + d
      tmp12c == 3570 * tmp10
      tmp13c == 7678 * tmp11 - d
  IN <<11249 * x[2] + tmp12 + tmp13, 8672 * x[2] - tmp12b + tmp13b,
       4108 * x[2] - tmp12 + tmp13, -1396 * x[2] - tmp12c - tmp13c,
       -6581 * x[2] + tmp12c - tmp13c, -10258 * x[2] + tmp12b + tmp13b,
       11585 * (tmp11 - x[2]) + d>>

Odd13(x) ==
  LET tmp11 == 10832 * (x[1] + x[3])
      tmp12 == 9534 * (x[1] + x[5])
      tmp15 == x[1] + x[7]
      tmp13 == 7682 * tmp15
      tmp14 == -2773 * (x[3] + x[5])
      tmp14b == -9534 * (x[3] + x[7])
      tmp14c == -5384 * (x[5] + x[7])
      tmp15b == 2773 * tmp15
      z1 == 7682 * (x[5] - x[3])
  IN <<tmp11 + tmp12 + tmp13 - 16549 * x[1],
       tmp11 + tmp14 + 6859 * x[3] + tmp14b,
       tmp12 + tmp14 - 12879 * x[5] + tmp14c,
       tmp13 + tmp14b + 18068 * x[7] + tmp14c,
       tmp15b + 2611 * x[1] - 3818 * x[3] + z1,
       tmp15b + z1 + 3150 * x[5] - 14273 * x[7]>>

Even14(d, x) ==
  LET z2 == 10438 * x[4]
      z3 == 2578 * x[4]
      z4 == 7223 * x[4]
      tmp10 == d + z2
      tmp11 == d + z3
      tmp12 == d - z4
      z3b == 9058 * (x[2] + x[6])
      tmp13 == z3b + 2237 * x[2]
      tmp14 == z3b - 14084 * x[6]
      tmp15 == 5027 * x[2] - 11295 * x[6]
  IN <<tmp10 + tmp13, tmp11 + tmp14, tmp12 + tmp15, d - 2 * (z2 + z3 - z4),
       tmp12 - tmp15, tmp11 - tmp14, tmp10 - tmp13>>

Odd14(x) ==
  LET z4 == 8192 * x[7]
      tmp14 == x[1] + x[5]
      tmp11 == 10935 * (x[1] + x[3])
      tmp12 == 9810 * tmp14
      tmp14c == 6164 * tmp14
      z1 == x[1] - x[3]
      tmp15 == 3826 * z1 - z4
      tmp13 == -1297 * (x[3] + x[5]) - z4
      tmp13c == 11512 * (x[5] - x[3])
  IN <<tmp11 + tmp12 + z4 - 9232 * x[1], tmp11 + tmp13 - 3474 * x[3],
       tmp12 + tmp13 - 19447 * x[5], 8192 * (z1 - x[5]) + z4,
       tmp14c + tmp13c + z4 - 13850 * x[5], tmp15 + tmp13c + 5529 * x[3],
       tmp14c - 8693 * x[1] + tmp15>>

Even15(d, x) ==
  LET tmp10 == 3580 * x[6]
      tmp11 == 9373 * x[6]
      tmp12 == d - tmp10
      tmp13 == d + tmp11
      z1 == d - 2 * (tmp11 - tmp10)
      z4 == x[2] - x[4]
      z3 == x[4] + x[2]
      tmp10b == 10958 * z3
      tmp11b == 374 * z4
      z2 == 11795 * x[2]
      tmp10c == 4482 * z3
      tmp11c == 3271 * z4
      tmp10d == 6476 * z3
      tmp11d == 2896 * z4
      tmp11e == tmp11d + tmp11d
  IN <<tmp13 + tmp10b + tmp11b, tmp12 + tmp10d + tmp11d, z1 + tmp11e,
       tmp12 - tmp10b + tmp11b + z2, tmp13 - tmp10d + tmp11d,
       tmp13 - tmp10c - tmp11c, tmp12 + tmp10c - tmp11c - z2,
       z1 - tmp11e - tmp11e>>

Odd15(x) ==
  LET z3 == 10033 * x[5]
      tmp13 == x[3] - x[7]
      tmp15 == 6810 * (x[1] + tmp13)
      tmp13c == -6810 * x[3]
      tmp15b == -11018 * x[3]
      z2 == x[1] - x[7]
      tmp12 == z3 + 11522 * z2
      z2c == 4712 * (x[1] + x[7])
  IN <<tmp12 + 20131 * x[7] - tmp15b, tmp15 + 4209 * x[1], 10033 * z2 - z3,
       tmp13c + z2c + 3897 * x[1] - z3, tmp15 - 17828 * tmp13,
       tmp15b + z2c - 7121 * x[7] + z3, tmp12 - 9113 * x[1] + tmp13c>>

Even16(d, x) ==
  LET tmp1 == 10703 * x[4]
      tmp2 == 4433 * x[4]
      tmp10 == d + tmp1
      tmp11 == d - tmp1
      tmp12 == d + tmp2
      tmp13 == d - tmp2
      z3 == x[2] - x[6]
      z4 == 2260 * z3
      z3b == 11363 * z3
      tmp0 == z3b + 20995 * x[6]
      tmp1b == z4 + 7373 * x[2]
      tmp2b == z3b - 4926 * x[2]
      tmp3 == z4 - 4176 * x[6]
  IN <<tmp10 + tmp0, tmp12 + tmp1b, tmp13 + tmp2b, tmp11 + tmp3, tmp11 - tmp3,
       tmp13 - tmp2b, tmp12 - tmp1b, tmp10 - tmp0>>

Odd16(x) ==
  LET tmp11 == x[1] + x[5]
      tmp1 == 11086 * (x[1] + x[3])
      tmp2 == 10217 * tmp11
      tmp3 == 8956 * (x[1] + x[7])
      tmp10 == 7350 * (x[1] - x[7])
      tmp11c == 5461 * tmp11
      tmp12 == 3363 * (x[1] - x[3])
      z1 == 1136 * (x[3] + x[5])
      z1b == 11529 * (x[5] - x[3])
      z2 == x[3] + x[7]
      z1c == -5461 * z2
      z2b == -10217 * z2
      z2c == -11086 * (x[5] + x[7])
      z2d == 3363 * (x[7] - x[5])
  IN <<tmp1 + tmp2 + tmp3 - 18730 * x[1], tmp1 + z1 + 589 * x[3] + z1c,
       tmp2 + z1 - 9222 * x[5] + z2c, tmp3 + z1c + 8728 * x[7] + z2c,
       tmp10 + z2b + 25733 * x[7] + z2d, tmp11c + z1b - 6278 * x[5] + z2d,
       tmp12 + z1b + 16154 * x[3] + z2b,
       tmp10 + tmp11c + tmp12 - 15038 * x[1]>>

(* The N-point kernel on coefficients x, from d.                           *)
Kernel(n, d, x) ==
  CASE n = 1  -> <<d>>
    [] n = 2  -> <<d + x[1], d - x[1]>>
    [] n = 3  -> Butterfly(3, Even3(d, x), Odd3(x))
    [] n = 4  -> Butterfly(4, Even4(d, x), Odd4(x))
    [] n = 5  -> Butterfly(5, Even5(d, x), Odd5(x))
    [] n = 6  -> Butterfly(6, Even6(d, x), Odd6(x))
    [] n = 7  -> Butterfly(7, Even7(d, x), Odd7(x))
    [] n = 8  -> Butterfly(8, Even8(d, x), Odd8(x))
    [] n = 9  -> Butterfly(9, Even9(d, x), Odd9(x))
    [] n = 10 -> Butterfly(10, Even10(d, x), Odd10(x))
    [] n = 11 -> Butterfly(11, Even11(d, x), Odd11(x))
    [] n = 12 -> Butterfly(12, Even12(d, x), Odd12(x))
    [] n = 13 -> Butterfly(13, Even13(d, x), Odd13(x))
    [] n = 14 -> Butterfly(14, Even14(d, x), Odd14(x))
    [] n = 15 -> Butterfly(15, Even15(d, x), Odd15(x))
    [] n = 16 -> Butterfly(16, Even16(d, x), Odd16(x))

-----------------------------------------------------------------------------
(* jidctfst.c works in 8 bits and drops what a product has below them.     *)
FastMultiply(x, c) == RIGHT_SHIFT(x * c, 8)

FastEven(x) ==
  LET tmp10 == x[0] + x[4]
      tmp11 == x[0] - x[4]
      tmp13 == x[2] + x[6]
      tmp12 == FastMultiply(x[2] - x[6], 362) - tmp13
  IN <<tmp10 + tmp13, tmp11 + tmp12, tmp11 - tmp12, tmp10 - tmp13>>

(* The last one is negated: the code adds it where a butterfly subtracts.  *)
FastOdd(x) ==
  LET z13 == x[5] + x[3]
      z10 == x[5] - x[3]
      z11 == x[1] + x[7]
      z12 == x[1] - x[7]
      tmp7 == z11 + z13
      z5 == FastMultiply(z10 + z12, 473)
      tmp6 == FastMultiply(z10, -669) + z5 - tmp7
      tmp5 == FastMultiply(z11 - z13, 362) - tmp6
      tmp4 == FastMultiply(z12, 277) - z5 + tmp5
  IN <<tmp7, tmp6, tmp5, -tmp4>>

FastKernel(x) == Butterfly(8, FastEven(x), FastOdd(x))
=============================================================================
