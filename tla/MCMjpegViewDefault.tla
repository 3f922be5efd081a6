------------------------- MODULE MCMjpegViewDefault -------------------------
(***************************************************************************)
(* MjpegViewDefault for TLC: a few threads and streams that are all alike. *)
(***************************************************************************)
EXTENDS MjpegViewDefault, TLC

(* Sound for invariants and action properties only: the liveness runs do   *)
(* not use it.                                                             *)
Symmetry == Permutations(Threads) \cup Permutations(Streams)
=============================================================================
