--------------------------- MODULE HuffmanTables ---------------------------
(***************************************************************************)
(* Huffman tables: the best table for given counts, the codes of a table,  *)
(* the tables a decoder derives from it, the segment that carries it, and  *)
(* the standard tables, in libjpeg 8d and in ImageProc.c.                  *)
(*                                                                         *)
(* A table says how many codes there are of each length from 1 to 16 and   *)
(* lists the symbols in the order of their codes. Failed is the outcome of *)
(* an error exit.                                                          *)
(***************************************************************************)
EXTENDS Integers, Sequences, SequencesExt, FiniteSets, FiniteSetsExt, Functions

CONSTANT Failed

MAX_CLEN == 32
HUFF_LOOKAHEAD == 8
NUM_HUFF_TBLS == 4
-----------------------------------------------------------------------------
(* jpeg_gen_optimal_table. A count above the limit is not looked at.       *)
FreqLimit == 1000000000
PseudoSymbol == 256

LeastFrequent(freq, other) ==
  LET left == {i \in DOMAIN freq : freq[i] \in 1..FreqLimit /\ i # other}
  IN IF left = {} THEN -1
     ELSE CHOOSE i \in left : \A j \in left :
            freq[i] < freq[j] \/ (freq[i] = freq[j] /\ j <= i)

(* The branches of the two least counts are merged, which makes every code *)
(* in them one bit longer, until one branch is left.                       *)
RECURSIVE CodeSizes(_, _, _)
CodeSizes(freq, codesize, branch) ==
  LET c1 == LeastFrequent(freq, -1)
      c2 == LeastFrequent(freq, c1)
      merged == branch[c1] \cup branch[c2]
  IN IF c2 < 0 THEN codesize
     ELSE CodeSizes([freq EXCEPT ![c1] = @ + freq[c2], ![c2] = 0],
                    [i \in DOMAIN codesize |->
                       codesize[i] + IF i \in merged THEN 1 ELSE 0],
                    [branch EXCEPT ![c1] = merged])

(* The second code goes next to the shortened one, not to a longer one.    *)
RECURSIVE LimitedWrongly(_, _)
LimitedWrongly(bits, i) ==
  IF i = 16 THEN bits
  ELSE IF bits[i] = 0 THEN LimitedWrongly(bits, i - 1)
  ELSE LET j == Max({n \in 1..(i - 2) : bits[n] > 0})
       IN LimitedWrongly([bits EXCEPT ![i] = @ - 2, ![i - 1] = @ + 1,
                                      ![j + 1] = @ + 1], i)

(* From each length above 16 two codes at a time: their common prefix      *)
(* serves one of them, and the other shares the prefix that a shorter code *)
(* becomes.                                                                *)
RECURSIVE Limited(_, _)
Limited(bits, i) ==
  IF i = 16 THEN bits
  ELSE IF bits[i] = 0 THEN Limited(bits, i - 1)
  ELSE LET j == Max({n \in 1..(i - 2) : bits[n] > 0})
       IN Limited([bits EXCEPT ![i] = @ - 2, ![i - 1] = @ + 1,
                               ![j + 1] = @ + 2, ![j] = @ - 1], i)

(* The code of the pseudo-symbol is the last of the longest.               *)
WithoutPseudoSymbol(bits) ==
  LET longest == Max({n \in 1..16 : bits[n] > 0})
  IN [n \in 1..16 |-> bits[n] - IF n = longest THEN 1 ELSE 0]

jpeg_gen_optimal_table(counts) ==
  LET freq == [i \in DOMAIN counts \cup {PseudoSymbol} |->
                 IF i = PseudoSymbol THEN 1 ELSE counts[i]]
      codesize == CodeSizes(freq, [i \in DOMAIN freq |-> 0],
                            [i \in DOMAIN freq |-> {i}])
      bits == [n \in 1..MAX_CLEN |->
                 Cardinality({i \in DOMAIN freq : codesize[i] = n})]
      coded == {i \in DOMAIN counts : codesize[i] > 0}
      Before(i, j) == codesize[i] < codesize[j]
                        \/ (codesize[i] = codesize[j] /\ i < j)
  IN IF \E i \in DOMAIN freq : codesize[i] > MAX_CLEN THEN Failed
     ELSE [bits |-> WithoutPseudoSymbol(Limited(bits, MAX_CLEN)),
           huffval |-> [p \in 1..Cardinality(coded) |->
                          CHOOSE i \in coded :
                            Cardinality({j \in coded : Before(j, i)}) = p - 1]]
-----------------------------------------------------------------------------
(* Figure C.1: the lengths of the codes, in order.                         *)
RECURSIVE SizesBelow16(_, _)
SizesBelow16(bits, n) ==
  IF n > 15 THEN <<>> ELSE [i \in 1..bits[n] |-> n] \o SizesBelow16(bits, n + 1)

RECURSIVE SizesFrom(_, _)
SizesFrom(bits, n) ==
  IF n > 16 THEN <<>> ELSE [i \in 1..bits[n] |-> n] \o SizesFrom(bits, n + 1)
huffsize(bits) == SizesFrom(bits, 1)

(* Figure C.2: each code is the successor of the one before, at its length *)
RECURSIVE CodesFrom(_, _, _)
CodesFrom(sizes, p, code) ==
  IF p > Len(sizes) THEN <<>>
  ELSE <<code>> \o
         (IF p = Len(sizes) THEN <<>>
          ELSE CodesFrom(sizes, p + 1, (code + 1) * 2^(sizes[p + 1] - sizes[p])))
huffcode(sizes) == CodesFrom(sizes, 1, 0)

(* A length whose codes run into all ones is refused.                      *)
Legal(sizes, codes) ==
  \A p \in DOMAIN sizes :
    p = Len(sizes) \/ sizes[p + 1] # sizes[p] => codes[p] + 1 < 2^sizes[p]

(* ehufco and ehufsi of every symbol with a code, as <<code, size>>.       *)
jpeg_make_c_derived_tbl(isDC, tbl) ==
  LET sizes == huffsize(tbl.bits)
      codes == huffcode(sizes)
      symbols == {tbl.huffval[p] : p \in DOMAIN sizes}
  IN IF \/ Len(sizes) > 256 \/ ~Legal(sizes, codes)
        \/ symbols \ (0..(IF isDC THEN 15 ELSE 255)) # {}
        \/ Cardinality(symbols) # Len(sizes)
     THEN Failed
     ELSE [sym \in symbols |->
             LET p == CHOOSE p \in DOMAIN sizes : tbl.huffval[p] = sym
             IN <<codes[p], sizes[p]>>]

CodeBits(code) ==
  [i \in 1..code[2] |-> (code[1] \div 2^(code[2] - i)) % 2]

(* Figure F.15, and what the next eight bits say when the code is short.   *)
jpeg_make_d_derived_tbl(isDC, tbl) ==
  LET sizes == huffsize(tbl.bits)
      codes == huffcode(sizes)
      Of(n) == {p \in DOMAIN sizes : sizes[p] = n}
      short == {p \in DOMAIN sizes : sizes[p] <= HUFF_LOOKAHEAD}
      Hits(look) == {p \in short :
                       look \div 2^(HUFF_LOOKAHEAD - sizes[p]) = codes[p]}
  IN IF \/ Len(sizes) > 256 \/ ~Legal(sizes, codes)
        \/ isDC /\ \E p \in DOMAIN sizes : tbl.huffval[p] > 15
     THEN Failed
     ELSE [maxcode |-> [n \in 1..17 |->
                          IF n = 17 THEN 1048575
                          ELSE IF Of(n) = {} THEN -1 ELSE codes[Max(Of(n))]],
           valoffset |-> [n \in 1..16 |->
                            IF Of(n) = {} THEN 0
                            ELSE Min(Of(n)) - codes[Min(Of(n))]],
           look |-> [look \in 0..(2^HUFF_LOOKAHEAD - 1) |->
                       IF Hits(look) = {} THEN <<0, 0>>
                       ELSE LET p == Max(Hits(look))
                            IN <<sizes[p], tbl.huffval[p]>>],
           huffval |-> tbl.huffval]
-----------------------------------------------------------------------------
(* Bits from a sequence; those past the end are zero.                      *)
Bit(bits, i) == IF i <= Len(bits) THEN bits[i] ELSE 0

RECURSIVE GetBits(_, _, _)
GetBits(bits, from, n) ==
  IF n = 0 THEN 0 ELSE 2 * GetBits(bits, from, n - 1) + Bit(bits, from + n - 1)

(* A code equal to the greatest of its length is taken for a longer one.   *)
RECURSIVE LongerThanGreatest(_, _, _, _, _)
LongerThanGreatest(dtbl, bits, from, code, n) ==
  IF code >= dtbl.maxcode[n]
  THEN LongerThanGreatest(dtbl, bits, from, 2 * code + Bit(bits, from + n), n + 1)
  ELSE <<IF n > 16 THEN 0 ELSE code + dtbl.valoffset[n], n>>

(* Figure F.16: where in the table the code is, 0 when no code has come in *)
(* 16 bits, and its length.                                                *)
RECURSIVE LongerCode(_, _, _, _, _)
LongerCode(dtbl, bits, from, code, n) ==
  IF code > dtbl.maxcode[n]
  THEN LongerCode(dtbl, bits, from, 2 * code + Bit(bits, from + n), n + 1)
  ELSE <<IF n > 16 THEN 0 ELSE code + dtbl.valoffset[n], n>>

CodeIndex(dtbl, bits, from, min_bits) ==
  LongerCode(dtbl, bits, from, GetBits(bits, from, min_bits), min_bits)

(* The symbol, a zero for garbage, and the bits used.                      *)
jpeg_huff_decode(dtbl, bits, from, min_bits) ==
  LET found == CodeIndex(dtbl, bits, from, min_bits)
  IN <<IF found[1] = 0 THEN 0 ELSE dtbl.huffval[found[1]], found[2]>>

(* HUFF_DECODE: by the lookahead table when that many bits are there.      *)
HUFF_DECODE(dtbl, bits, from) ==
  LET look == dtbl.look[GetBits(bits, from, HUFF_LOOKAHEAD)]
  IN IF from + HUFF_LOOKAHEAD - 1 > Len(bits)
       THEN jpeg_huff_decode(dtbl, bits, from, 1)
     ELSE IF look[1] = 0
       THEN jpeg_huff_decode(dtbl, bits, from, HUFF_LOOKAHEAD + 1)
     ELSE <<look[2], look[1]>>
-----------------------------------------------------------------------------
(* A DHT segment: its length in two bytes, then tables, each after a byte  *)
(* that says which. emit_dht writes one table.                             *)
emit_dht(index, is_ac, tbl) ==
  LET length == Len(tbl.huffval) + 19
  IN <<length \div 256, length % 256, index + IF is_ac THEN 16 ELSE 0>>
     \o [n \in 1..16 |-> tbl.bits[n]] \o tbl.huffval

NoTables == [is_ac \in BOOLEAN |-> [index \in 0..(NUM_HUFF_TBLS - 1) |-> Failed]]

(* get_dht, and my_jpeg_load_dht with a -1 for the error exit.             *)
RECURSIVE LoadTables(_, _, _, _)
LoadTables(seg, pos, length, tables) ==
  IF length <= 16 THEN IF length = 0 THEN tables ELSE Failed
  ELSE LET index == seg[pos]
           bits == SubSeq(seg, pos + 1, pos + 16)
           count == FoldSeq(+, 0, bits)
           is_ac == (index \div 16) % 2 = 1
           number == index - IF is_ac THEN 16 ELSE 0
       IN IF count > 256 \/ count > length - 17 \/ number >= NUM_HUFF_TBLS
          THEN Failed
          ELSE LoadTables(seg, pos + 17 + count, (length - 17) - count,
                 [tables EXCEPT ![is_ac][number] =
                    [bits |-> bits,
                     huffval |-> SubSeq(seg, pos + 17, pos + 16 + count)]])

get_dht(seg, tables) == LoadTables(seg, 3, (256 * seg[1] + seg[2]) - 2, tables)

my_jpeg_load_dht(seg, tables) == get_dht(seg, tables)

-----------------------------------------------------------------------------
(* The standard tables of std_huff_tables.                                 *)
dc_luminance ==
  [bits |->
    <<0, 1, 5, 1, 1, 1, 1, 1, 1, 0, 0, 0, 0, 0, 0, 0>>,
   huffval |->
    <<0, 1, 2, 3, 4, 5, 6, 7, 8, 9, 10, 11>>]

dc_chrominance ==
  [bits |->
    <<0, 3, 1, 1, 1, 1, 1, 1, 1, 1, 1, 0, 0, 0, 0, 0>>,
   huffval |->
    <<0, 1, 2, 3, 4, 5, 6, 7, 8, 9, 10, 11>>]

ac_luminance ==
  [bits |->
    <<0, 2, 1, 3, 3, 2, 4, 3, 5, 5, 4, 4, 0, 0, 1, 125>>,
   huffval |->
    <<1, 2, 3, 0, 4, 17, 5, 18, 33, 49, 65, 6, 19, 81, 97, 7, 34, 113, 20,
      50, 129, 145, 161, 8, 35, 66, 177, 193, 21, 82, 209, 240, 36, 51,
      98, 114, 130, 9, 10, 22, 23, 24, 25, 26, 37, 38, 39, 40, 41, 42, 52,
      53, 54, 55, 56, 57, 58, 67, 68, 69, 70, 71, 72, 73, 74, 83, 84, 85,
      86, 87, 88, 89, 90, 99, 100, 101, 102, 103, 104, 105, 106, 115, 116,
      117, 118, 119, 120, 121, 122, 131, 132, 133, 134, 135, 136, 137,
      138, 146, 147, 148, 149, 150, 151, 152, 153, 154, 162, 163, 164,
      165, 166, 167, 168, 169, 170, 178, 179, 180, 181, 182, 183, 184,
      185, 186, 194, 195, 196, 197, 198, 199, 200, 201, 202, 210, 211,
      212, 213, 214, 215, 216, 217, 218, 225, 226, 227, 228, 229, 230,
      231, 232, 233, 234, 241, 242, 243, 244, 245, 246, 247, 248, 249, 250>>]

ac_chrominance ==
  [bits |->
    <<0, 2, 1, 2, 4, 4, 3, 4, 7, 5, 4, 4, 0, 1, 2, 119>>,
   huffval |->
    <<0, 1, 2, 3, 17, 4, 5, 33, 49, 6, 18, 65, 81, 7, 97, 113, 19, 34, 50,
      129, 8, 20, 66, 145, 161, 177, 193, 9, 35, 51, 82, 240, 21, 98, 114,
      209, 10, 22, 36, 52, 225, 37, 241, 23, 24, 25, 26, 38, 39, 40, 41,
      42, 53, 54, 55, 56, 57, 58, 67, 68, 69, 70, 71, 72, 73, 74, 83, 84,
      85, 86, 87, 88, 89, 90, 99, 100, 101, 102, 103, 104, 105, 106, 115,
      116, 117, 118, 119, 120, 121, 122, 130, 131, 132, 133, 134, 135,
      136, 137, 138, 146, 147, 148, 149, 150, 151, 152, 153, 154, 162,
      163, 164, 165, 166, 167, 168, 169, 170, 178, 179, 180, 181, 182,
      183, 184, 185, 186, 194, 195, 196, 197, 198, 199, 200, 201, 202,
      210, 211, 212, 213, 214, 215, 216, 217, 218, 226, 227, 228, 229,
      230, 231, 232, 233, 234, 242, 243, 244, 245, 246, 247, 248, 249, 250>>]

my_jpeg_odml_dht ==
  <<1, 162, 0, 0, 1, 5, 1, 1, 1, 1, 1, 1, 0, 0, 0, 0, 0, 0, 0, 0, 1, 2, 3,
    4, 5, 6, 7, 8, 9, 10, 11, 1, 0, 3, 1, 1, 1, 1, 1, 1, 1, 1, 1, 0, 0, 0,
    0, 0, 0, 1, 2, 3, 4, 5, 6, 7, 8, 9, 10, 11, 16, 0, 2, 1, 3, 3, 2, 4,
    3, 5, 5, 4, 4, 0, 0, 1, 125, 1, 2, 3, 0, 4, 17, 5, 18, 33, 49, 65, 6,
    19, 81, 97, 7, 34, 113, 20, 50, 129, 145, 161, 8, 35, 66, 177, 193,
    21, 82, 209, 240, 36, 51, 98, 114, 130, 9, 10, 22, 23, 24, 25, 26, 37,
    38, 39, 40, 41, 42, 52, 53, 54, 55, 56, 57, 58, 67, 68, 69, 70, 71,
    72, 73, 74, 83, 84, 85, 86, 87, 88, 89, 90, 99, 100, 101, 102, 103,
    104, 105, 106, 115, 116, 117, 118, 119, 120, 121, 122, 131, 132, 133,
    134, 135, 136, 137, 138, 146, 147, 148, 149, 150, 151, 152, 153, 154,
    162, 163, 164, 165, 166, 167, 168, 169, 170, 178, 179, 180, 181, 182,
    183, 184, 185, 186, 194, 195, 196, 197, 198, 199, 200, 201, 202, 210,
    211, 212, 213, 214, 215, 216, 217, 218, 225, 226, 227, 228, 229, 230,
    231, 232, 233, 234, 241, 242, 243, 244, 245, 246, 247, 248, 249, 250,
    17, 0, 2, 1, 2, 4, 4, 3, 4, 7, 5, 4, 4, 0, 1, 2, 119, 0, 1, 2, 3, 17,
    4, 5, 33, 49, 6, 18, 65, 81, 7, 97, 113, 19, 34, 50, 129, 8, 20, 66,
    145, 161, 177, 193, 9, 35, 51, 82, 240, 21, 98, 114, 209, 10, 22, 36,
    52, 225, 37, 241, 23, 24, 25, 26, 38, 39, 40, 41, 42, 53, 54, 55, 56,
    57, 58, 67, 68, 69, 70, 71, 72, 73, 74, 83, 84, 85, 86, 87, 88, 89,
    90, 99, 100, 101, 102, 103, 104, 105, 106, 115, 116, 117, 118, 119,
    120, 121, 122, 130, 131, 132, 133, 134, 135, 136, 137, 138, 146, 147,
    148, 149, 150, 151, 152, 153, 154, 162, 163, 164, 165, 166, 167, 168,
    169, 170, 178, 179, 180, 181, 182, 183, 184, 185, 186, 194, 195, 196,
    197, 198, 199, 200, 201, 202, 210, 211, 212, 213, 214, 215, 216, 217,
    218, 226, 227, 228, 229, 230, 231, 232, 233, 234, 242, 243, 244, 245,
    246, 247, 248, 249, 250>>

std_huff_tables ==
  [is_ac \in BOOLEAN |-> [index \in 0..(NUM_HUFF_TBLS - 1) |->
     CASE index = 0 -> (IF is_ac THEN ac_luminance ELSE dc_luminance)
       [] index = 1 -> (IF is_ac THEN ac_chrominance ELSE dc_chrominance)
       [] OTHER -> Failed]]
=============================================================================
