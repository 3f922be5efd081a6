----------------------------- MODULE CodedScans -----------------------------
(***************************************************************************)
(* What the two entropy coders share: scans and their point transform, the *)
(* markers in a scan, what may happen to its bytes, and what a decoder     *)
(* should know of a coefficient after some scans.                          *)
(*                                                                         *)
(* A scan is a record: its components, the band Ss..Se of coefficients and *)
(* the bits Ah, Al of successive approximation. A block is a function from *)
(* 0 to its last coefficient, in zigzag order.                             *)
(***************************************************************************)
EXTENDS Integers, Sequences, SequencesExt, FiniteSets

Absolute(v) == IF v < 0 THEN -v ELSE v
(* Towards zero for AC coefficients, towards minus infinity for DC.        *)
Shifted(v, Al) == Absolute(v) \div 2^Al

TableNo(ci) == IF ci = 1 THEN 0 ELSE 1   (* dc_tbl_no and ac_tbl_no        *)

RST0 == 208
EOI == 217

(* What may happen to a scan: nothing; one data byte changed, which leaves *)
(* the markers alone; or one restart interval with its marker lost.        *)
IsRestart(bytes, i) ==
  i < Len(bytes) /\ bytes[i] = 255 /\ bytes[i + 1] \in RST0..(RST0 + 7)

IntervalAt(bytes, i) == Cardinality({j \in 1..i : IsRestart(bytes, j)})

Changeable(bytes) ==
  {i \in 1..Len(bytes) : bytes[i] # 255 /\ (i = 1 \/ bytes[i - 1] # 255)}

Changed(bytes, i) == [bytes EXCEPT ![i] = (@ + 85) % 255]

Lost(bytes, n) ==
  LET Before(m) == Cardinality({i \in 1..Len(bytes) : IntervalAt(bytes, i) < m})
  IN SubSeq(bytes, 1, Before(n)) \o SubSeq(bytes, Before(n + 1) + 1, Len(bytes))

(* What the decoder should have of a coefficient after the scans 1..n.     *)
Known(script, ci, k, n) ==
  {i \in 1..n : /\ k \in script[i].Ss..script[i].Se
                /\ \E j \in 1..Len(script[i].comps) : script[i].comps[j] = ci}

Approximation(script, ci, k, n, v) ==
  LET known == Known(script, ci, k, n)
      last == script[CHOOSE i \in known : \A j \in known : j <= i]
      unit == 2^last.Al
  IN IF known = {} THEN 0
     ELSE IF k = 0 THEN (v \div unit) * unit
     ELSE IF v < 0 THEN -(Shifted(v, last.Al) * unit)
     ELSE Shifted(v, last.Al) * unit
=============================================================================
