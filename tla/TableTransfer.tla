---------------------------- MODULE TableTransfer ----------------------------
(***************************************************************************)
(* The life of a Huffman table: symbols are counted while a scan is tried, *)
(* the best table for the counts is made, written in a DHT segment, maybe  *)
(* damaged, read and turned into the tables of a decoder, which until then *)
(* has the tables that ImageProc.c loads for frames without any.           *)
(***************************************************************************)
EXTENDS HuffmanTables

CONSTANTS
  FirstCounts,   (* the counts tried: functions from symbols to Nat        *)
  MaxCount,      (* bound: no symbol is counted beyond it                  *)
  Damages,       (* what may happen to a segment: pairs <<position, byte>> *)
  Garbage        (* bit strings given to a decoder                         *)

TransferAssumption ==
  /\ \A f \in FirstCounts : DOMAIN f \subseteq 0..255 /\ \E i \in DOMAIN f : f[i] > 0
  /\ \A d \in Damages : \A i \in DOMAIN d :
       d[i][1] \in 1..19 /\ d[i][2] \in 0..255
  /\ \A g \in Garbage : g \in Seq({0, 1})

VARIABLES
  pc,        (* "count", "built", "sent", "received"                       *)
  counts,    (* ac_count_ptrs of the table                                 *)
  htbl,      (* the table made from them, or Failed                        *)
  segment,   (* what is on the line                                        *)
  damaged,   (* whether the line changed it                                *)
  tables,    (* the tables the decoder has, by class and number            *)
  dtbl       (* the decoder's derived tables, or Failed                    *)

vars == <<pc, counts, htbl, segment, damaged, tables, dtbl>>

Init ==
  /\ pc = "count" /\ counts \in FirstCounts /\ htbl = Failed
  /\ segment = <<>> /\ damaged = FALSE /\ dtbl = Failed
  /\ tables = my_jpeg_load_dht(my_jpeg_odml_dht, NoTables)

Count(sym) ==
  /\ pc = "count" /\ counts[sym] < MaxCount
  /\ counts' = [counts EXCEPT ![sym] = @ + 1]
  /\ UNCHANGED <<pc, htbl, segment, damaged, tables, dtbl>>

finish_pass_gather ==
  /\ pc = "count" /\ pc' = "built"
  /\ htbl' = jpeg_gen_optimal_table(counts)
  /\ UNCHANGED <<counts, segment, damaged, tables, dtbl>>

write_scan_header ==
  /\ pc = "built" /\ htbl # Failed /\ pc' = "sent"
  /\ segment' = emit_dht(0, TRUE, htbl)
  /\ UNCHANGED <<counts, htbl, damaged, tables, dtbl>>

Change ==
  /\ pc = "sent" /\ ~damaged
  /\ \E d \in Damages :
       segment' = [segment EXCEPT ![d[1][1]] = d[1][2], ![d[2][1]] = d[2][2]]
  /\ segment' # segment
  /\ damaged' = TRUE
  /\ UNCHANGED <<pc, counts, htbl, tables, dtbl>>

(* start_pass derives the table when a scan begins, if there is one.       *)
Receive ==
  /\ pc = "sent" /\ pc' = "received"
  /\ tables' = get_dht(segment, tables)
  /\ dtbl' = IF tables' = Failed THEN Failed
             ELSE jpeg_make_d_derived_tbl(FALSE, tables'[TRUE][0])
  /\ UNCHANGED <<counts, htbl, segment, damaged>>

Next == (\E sym \in DOMAIN counts : Count(sym)) \/ finish_pass_gather
          \/ write_scan_header \/ Change \/ Receive

Spec == Init /\ [][Next]_vars
-----------------------------------------------------------------------------
Counted == {sym \in DOMAIN counts : counts[sym] > 0}
Cost(f, size) == MapThenSumSet(LAMBDA i : f[i] * size[i], DOMAIN f)

(* The least cost of a code with the pseudo-symbol in it, by trying all.   *)
BestCost ==
  LET leaves == Counted \cup {PseudoSymbol}
      n == Cardinality(Counted)
      f == [i \in leaves |-> IF i = PseudoSymbol THEN 1 ELSE counts[i]]
      possible == {size \in [leaves -> 1..n] :
                     MapThenSumSet(LAMBDA i : 2^(n - size[i]), leaves) <= 2^n}
  IN Min({Cost(f, size) : size \in possible})

(* A made table is one the encoder accepts, no code of it all ones, with a *)
(* code for every symbol that was counted and for no other; a symbol that  *)
(* is more frequent never has the longer code, even where lengths had to   *)
(* be limited to 16; and for a few symbols no code does better.            *)
BestTable ==
  pc = "built" /\ htbl # Failed =>
    LET ehuf == jpeg_make_c_derived_tbl(FALSE, htbl)
        Size(i) == ehuf[i][2]
        f == [i \in Counted |-> counts[i]]
    IN /\ ehuf # Failed /\ DOMAIN ehuf = Counted
       /\ \A i, j \in Counted : counts[i] > counts[j] => Size(i) <= Size(j)
       /\ Cardinality(Counted) <= 4 =>
            BestCost = Cost(f, [i \in Counted |-> Size(i)])
                         + Max({Size(i) : i \in Counted})

(* A decoder that got the table undamaged finds every symbol from its code *)
(* whatever bits follow, by the lookahead table and bit by bit alike.      *)
EveryCodeIsDecoded ==
  pc = "received" /\ ~damaged =>
    LET ehuf == jpeg_make_c_derived_tbl(FALSE, htbl)
    IN \A sym \in DOMAIN ehuf, after \in Garbage \cup {<<>>} :
         LET bits == CodeBits(ehuf[sym]) \o after
             answer == <<sym, ehuf[sym][2]>>
         IN /\ HUFF_DECODE(dtbl, bits, 1) = answer
            /\ jpeg_huff_decode(dtbl, bits, 1, 1) = answer

(* Of the damaged tables those that are accepted are still codes, none of  *)
(* them all ones, and no bits lead the decoder outside the table's values: *)
(* beyond them huffval holds what the stack held.                          *)
AcceptedTablesAreSafe ==
  pc = "received" /\ dtbl # Failed =>
    /\ \A n \in 1..16 : dtbl.maxcode[n] < 2^n - 1
    /\ \A bits \in Garbage :
         /\ CodeIndex(dtbl, bits, 1, 1)[1] \in 0..Len(dtbl.huffval)
         /\ dtbl.look[GetBits(bits, 1, HUFF_LOOKAHEAD)][1] = 0 =>
              CodeIndex(dtbl, bits, 1, HUFF_LOOKAHEAD + 1)[1]
                \in 0..Len(dtbl.huffval)

(* The tables ImageProc.c loads for frames without any, a segment taken    *)
(* from AVI files, are the standard ones libjpeg's encoder writes.         *)
OdmlTablesAreStandard == pc # "received" => tables = std_huff_tables

(* The loaded tables are legal and have a code for every symbol that 8-bit *)
(* samples can lead to in a sequential scan.                               *)
LoadedTablesSuffice ==
  pc = "built" => \A index \in {0, 1} :
    /\ DOMAIN jpeg_make_c_derived_tbl(TRUE, tables[FALSE][index]) = 0..11
    /\ DOMAIN jpeg_make_c_derived_tbl(FALSE, tables[TRUE][index])
         = {0, 240} \cup {16 * run + size : run \in 0..15, size \in 1..10}
=============================================================================
