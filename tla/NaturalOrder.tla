---------------------------- MODULE NaturalOrder ----------------------------
(***************************************************************************)
(* The orders of the coefficients of a block in a file: the zigzag of the  *)
(* jpeg_natural_order tables of jutils.c, for blocks of n by n in rows of  *)
(* eight.                                                                  *)
(***************************************************************************)
EXTENDS Integers, Sequences, SequencesExt

(* The diagonals are passed in turn, the odd ones downwards.               *)
Diagonal(n, d) ==
  LET top == IF d < n THEN 0 ELSE (d - n) + 1
      down == [k \in 1 .. ((d - (2 * top)) + 1) |-> (8 * (top + (k - 1))) + (d - (top + (k - 1)))]
  IN IF d % 2 = 1 THEN down ELSE Reverse(down)

Zigzag(n) == FlattenSeq([d \in 1 .. (2 * n) - 1 |-> Diagonal(n, d - 1)])

Zigzags ==
  << Zigzag(1), Zigzag(2), Zigzag(3), Zigzag(4), Zigzag(5), Zigzag(6), Zigzag(7), Zigzag(8) >>

(* The order of a table of count entries, as get_dqt chooses it.           *)
OrderFor(count) ==
  IF \E n \in 2..7 : count = n * n
  THEN Zigzags[CHOOSE n \in 2..7 : count = n * n]
  ELSE Zigzags[8]
=============================================================================
