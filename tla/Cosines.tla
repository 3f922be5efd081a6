------------------------------ MODULE Cosines -------------------------------
(***************************************************************************)
(* The reference the transforms are compared with: the cosine basis of the *)
(* N-point DCT in 14-bit fixed point, from the Taylor series. Nothing here *)
(* comes from the code.                                                    *)
(***************************************************************************)
EXTENDS Integers

One == 16384            (* 1 in 14 bits                                    *)
Pi  == 51472            (* pi in 14 bits                                   *)
Root2 == 23170          (* the square root of 2                            *)

(* cos(pi * n / d) in the first quarter, where 2 * n <= d.                 *)
QuarterCos(n, d) ==
  LET x == (Pi * n) \div d
      xx == (x * x) \div One
      Term(t, k) == One - ((xx * t) \div One) \div k
  IN Term(Term(Term(Term(Term(One, 90), 56), 30), 12), 2)

Cos(n, d) ==
  LET turn == n % (2 * d)
      half == IF turn > d THEN 2 * d - turn ELSE turn
  IN IF 2 * half <= d THEN QuarterCos(half, d) ELSE -QuarterCos(d - half, d)

(* The j-th basis function of n points at sample k, j and k from 0, with   *)
(* the scale of a DCT in which every row but the first has root 2.         *)
Basis ==
  [n \in 1..16 |-> [j \in 0..7 |-> [k \in 0..(n - 1) |->
     IF j = 0 THEN One
     ELSE (Root2 * Cos((2 * k + 1) * j, 2 * n)) \div One]]]

Distance(a, b) == IF a < b THEN b - a ELSE a - b
=============================================================================
