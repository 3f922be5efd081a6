------------------------------ MODULE MCCoding ------------------------------
(***************************************************************************)
(* The coding of images, for TLC: the Huffman and the arithmetic entropy   *)
(* coders, each against its decoder; the Huffman tables and the markers on *)
(* their way from a compressor to a decompressor; and the forward DCT.     *)
(* They are checked one at a time: `part' says which of them a behaviour   *)
(* is of, and the variables of the others rest.                            *)
(***************************************************************************)
EXTENDS Integers, Sequences, TLC

CONSTANTS
  Parts,    (* the parts to check                                          *)
  Failed    (* the outcome of an error exit in HuffmanTables               *)

Sample == INSTANCE SampleFiles

(* Numbers below 2^15 without a pattern.                                   *)
Noise(n) ==
  LET a == (7919 * n + 4711) % 10007
      b == (a * a) % 32749
  IN (b * b + a) % 32719

BlockOf(first, last, Value(_, _)) ==
  [k \in 0..last |-> Value(k, Noise(first + 2 * k) + Noise(first + 2 * k + 1))]

AnyValue(k, r) == LET size == 2^(r % 12) IN ((r \div 16) % (2 * size)) - size
FewValues(k, r) ==
  IF k = 0 THEN (r % 7) - 3 ELSE IF r % 5 = 0 THEN ((r \div 8) % 7) - 3 ELSE 0
Spike(k, r) == IF k \in {0, 8} /\ r % 9 = 0 THEN 1000 ELSE 0

(* Two components of so many MCUs, with coefficients 0..last.             *)
Filled(mcus, last, Value(_, _)) ==
  [ci \in 1..2 |-> [n \in 1..mcus |-> BlockOf(200 * ci + 20 * n, last, Value)]]

ScanOf(progressive, comps, Ss, Se, Ah, Al) ==
  [progressive |-> progressive, comps |-> comps, Ss |-> Ss, Se |-> Se,
   Ah |-> Ah, Al |-> Al]

(* For the Huffman coder blocks of 21 coefficients, so that runs of more   *)
(* than 15 zeros occur: images with values of every size, with few values, *)
(* with long runs of zeros, and with nothing but large values.             *)
LastCoef == 20
SmallValue(k, r) == LET size == 2^(r % 10) IN ((r \div 16) % (2 * size)) - size
LongRuns(k, r) == IF k \in {18, 19} \/ r % 40 = 0 THEN ((r \div 40) % 15) - 7 ELSE 0
LargeValue(k, r) == IF r % 2 = 0 THEN 4 + (r % 7) ELSE -4 - (r % 7)

HuffmanImages ==
  {Filled(4, LastCoef, SmallValue), Filled(4, LastCoef, FewValues),
   Filled(4, LastCoef, LongRuns), Filled(3, LastCoef, LargeValue)}

(* For the arithmetic one blocks of 3 x 3.                                 *)
ArithmeticImages == {Filled(5, 8, AnyValue), Filled(5, 8, FewValues), Filled(5, 8, Spike)}

(* A sequential script, and a progressive one with all four kinds of scans *)
(* and two bands from 1 to mid and from there to the last coefficient.     *)
ScriptsTo(mid, last) ==
  {<<ScanOf(FALSE, <<1, 2>>, 0, last, 0, 0)>>,
   <<ScanOf(TRUE, <<1, 2>>, 0, 0, 0, 1), ScanOf(TRUE, <<1>>, 1, mid, 0, 2),
     ScanOf(TRUE, <<1>>, mid + 1, last, 0, 2), ScanOf(TRUE, <<2>>, 1, last, 0, 1),
     ScanOf(TRUE, <<1>>, 1, last, 2, 1), ScanOf(TRUE, <<1, 2>>, 0, 0, 1, 0),
     ScanOf(TRUE, <<2>>, 1, last, 1, 0), ScanOf(TRUE, <<1>>, 1, last, 1, 0)>>}

(* Four symbols counted a few times each, and counts like Fibonacci's,     *)
(* which make codes as long as there are symbols: below, at and above the  *)
(* limits of 16 and 32 bits.                                               *)
Fibonacci ==
  <<1, 1, 2, 3, 5, 8, 13, 21, 34, 55, 89, 144, 233, 377, 610, 987,
    1597, 2584, 4181, 6765, 10946, 17711, 28657, 46368, 75025, 121393,
    196418, 317811, 514229, 832040, 1346269, 2178309, 3524578,
    5702887, 9227465, 14930352, 24157817, 39088169>>
Skewed(n) == [sym \in 0..(n - 1) |-> 4 * Fibonacci[sym + 1]]
FewCounts == {[sym \in {0, 1, 17, 240} |-> IF sym = first THEN 1 ELSE 0] :
                first \in {0, 1, 17, 240}}
FirstCounts == FewCounts \cup {Skewed(n) : n \in {9, 15, 16, 17, 20, 32, 33, 38}}

(* Two of the counts of a table changed, or its number and a count.        *)
TableDamages ==
  {<< <<p, v>>, <<q, w>> >> : p \in 3..6, q \in 5..8, v \in {0, 1, 3, 20}, w \in 1..2}
BitStrings ==
  {[i \in 1..20 |-> IF i <= 6 THEN (head \div 2^(i - 1)) % 2 ELSE tail] :
     head \in 0..63, tail \in {0, 1}}

(* Images of one component of every size there is a routine for, 12 and 14 *)
(* points wide apart; of several components, subsampled, with a            *)
(* quantization table of their own or shared; and images that are refused, *)
(* for a size without a routine or a table that was never defined.         *)
Component(w, h, t) == [size |-> <<w, h>>, quant_tbl_no |-> t]
Sizes ==
  {<<n, n>> : n \in 1..16}
    \cup {<<2 * n, n>> : n \in 1..8} \cup {<<n, 2 * n>> : n \in 1..8}
Narrow == {s \in Sizes : s[1] \in {12, 14}}
Single(sizes) == {<<Component(s[1], s[2], 0)>> : s \in sizes}
OtherFrames ==
  { <<Component(8, 8, 0), Component(8, 8, 1), Component(8, 8, 1)>>,
    <<Component(8, 8, 0), Component(16, 8, 1), Component(16, 16, 1)>>,
    <<Component(8, 8, 2), Component(8, 8, 0)>>,
    <<Component(16, 4, 0)>>, <<Component(8, 8, 0), Component(9, 8, 1)>>,
    <<Component(8, 8, 0), Component(8, 8, 3)>> }

FineAndCoarse == {[t \in 0..3 |-> IF t = 3 THEN 0 ELSE 1 + 16 * t]}

(* Blocks of samples: flat ones, slopes, stripes, and an irregular one.    *)
Square == (0..15) \X (0..15)
Flat(v) == [p \in Square |-> v]
Slope(a, b) == [p \in Square |-> (10 + a * p[1] + b * p[2]) % 256]
Stripes(w) ==
  [p \in Square |-> IF ((p[1] \div w) + (p[2] \div w)) % 2 = 0 THEN 250 ELSE 3]
Irregular ==
  [p \in Square |-> ((p[1] * p[1] * 37 + p[2] * 61 + 5) * (p[1] + 7 * p[2] + 3)) % 256]
Pictures ==
  {Flat(v) : v \in {0, 1, 130, 255}}
    \cup {Slope(15, 0), Slope(3, 9), Stripes(1), Stripes(3), Irregular}
-----------------------------------------------------------------------------
VARIABLES
  part,
  pc, script, optimize, restart_interval, image, chunk, scan, mcu, enc, line, dec,
  damaged,
  stage, counts, htbl, segment, spoilt, tables, dtbl,
  phase, images, number, scans, sent, last_restart_interval, between, stream, d,
  step, frame, quant, do_dct, divisors, ci, samples, data, coefs

Huffman == INSTANCE HuffmanCoding WITH
  Images <- HuffmanImages, Scripts <- ScriptsTo(4, LastCoef), Optimize <- BOOLEAN,
  RestartIntervals <- {1, 3}, Damages <- {1, 4}, Chunks <- {1, 1000},
  LimSe <- LastCoef, CoefLimit <- <<LastCoef + 1, 4>>,
  MaxEobRun <- 3, MAX_CORR_BITS <- 30

Arithmetic == INSTANCE ArithmeticCoding WITH
  Images <- ArithmeticImages, Scripts <- ScriptsTo(3, 8), RestartIntervals <- {0, 1, 3},
  Damages <- {1, 4}, LimSe <- 8

Table == INSTANCE TableTransfer WITH
  pc <- stage, damaged <- spoilt, MaxCount <- 3, Damages <- TableDamages,
  Garbage <- BitStrings

Markers == INSTANCE MarkerTransfer WITH
  image <- number, scan <- scans, Files <- Sample!WrittenFiles,
  Broken <- Sample!BrokenFiles, Limits <- Sample!SaveLimits,
  Between <- {<<>>, <<7, 255, 0, 9, 255, 255>>}, Chunks <- {1, 64}

Dct == INSTANCE ForwardDct WITH
  pc <- step, Frames <- Single(Sizes \ Narrow) \cup OtherFrames,
  Methods <- {"islow", "ifast"}, QuantTables <- FineAndCoarse,
  SampleBlocks <- Pictures

NarrowDct == INSTANCE ForwardDct WITH
  pc <- step, Frames <- Single(Narrow), Methods <- {"islow"},
  QuantTables <- FineAndCoarse, SampleBlocks <- Pictures

ASSUME CodingAssumption ==
  /\ Huffman!HuffmanAssumption /\ Arithmetic!ArithmeticAssumption
  /\ Table!TransferAssumption /\ Dct!ForwardAssumption

coder == <<pc, script, restart_interval, image, scan, mcu, enc, dec, damaged>>
pieces == <<optimize, chunk, line>>
table == <<stage, counts, htbl, segment, spoilt, tables, dtbl>>
markers == <<phase, images, number, scans, sent, last_restart_interval, between, stream, d>>
transform == <<step, frame, quant, do_dct, divisors, ci, samples, data, coefs>>
parts == <<part, coder, pieces, table, markers, transform>>

CoderRests ==
  /\ pc = "rests" /\ script = <<>> /\ restart_interval = 0 /\ image = <<>>
  /\ scan = 0 /\ mcu = 0 /\ enc = <<>> /\ dec = <<>> /\ damaged = -1
PiecesRest == optimize = FALSE /\ chunk = 0 /\ line = <<>>
TableRests ==
  /\ stage = "rests" /\ counts = <<>> /\ htbl = Failed /\ segment = <<>>
  /\ spoilt = FALSE /\ tables = <<>> /\ dtbl = Failed
MarkersRest ==
  /\ phase = "rests" /\ images = <<>> /\ number = 0 /\ scans = 0 /\ sent = <<>>
  /\ last_restart_interval = 0 /\ between = <<>> /\ stream = <<>> /\ d = <<>>

CodingInit ==
  /\ part \in Parts
  /\ CASE part = "huffman" -> Huffman!Init
       [] part = "arithmetic" -> Arithmetic!Init /\ PiecesRest
       [] OTHER -> CoderRests /\ PiecesRest
  /\ IF part = "table" THEN Table!Init ELSE TableRests
  /\ IF part = "markers" THEN Markers!Init ELSE MarkersRest
  /\ Dct!Init

CodingNext ==
  /\ UNCHANGED part
  /\ \/ /\ \/ part = "huffman" /\ Huffman!Next
           \/ part = "arithmetic" /\ Arithmetic!Next /\ UNCHANGED pieces
        /\ UNCHANGED <<table, markers, transform>>
     \/ part = "table" /\ Table!Next /\ UNCHANGED <<coder, pieces, markers, transform>>
     \/ part = "markers" /\ Markers!Next /\ UNCHANGED <<coder, pieces, table, transform>>
     \/ /\ \/ part = "dct" /\ Dct!Next
           \/ part = "narrow dct" /\ NarrowDct!Next
        /\ UNCHANGED <<coder, pieces, table, markers>>

CodingSpec == CodingInit /\ [][CodingNext]_parts
-----------------------------------------------------------------------------
(* What is not damaged is decoded as it was encoded, to the precision of   *)
(* the scans so far, no matter where in an MCU the input runs out and how  *)
(* often (jchuff.c, jdhuff.c, jcarith.c, jdarith.c).                       *)
RoundTrip ==
  /\ part = "huffman" => Huffman!TypeOK /\ Huffman!RoundTrip
  /\ part = "arithmetic" => Arithmetic!TypeOK /\ Arithmetic!RoundTrip

(* Damage costs the MCUs of its own restart interval and no other          *)
(* (process_restart of jdhuff.c and jdarith.c, jdmarker.c:1291).           *)
DamageIsContained ==
  /\ part = "huffman" => Huffman!DamageIsContained
  /\ part = "arithmetic" => Arithmetic!DamageIsContained

(* The encoders put out nothing that looks like a marker, have a code for  *)
(* each symbol they write, and room for all correction bits (jchuff.c,     *)
(* jcarith.c).                                                             *)
CleanOutput ==
  /\ part = "huffman" =>
       Huffman!CleanOutput /\ Huffman!NoMissingCode /\ Huffman!CorrectionBitsFit
  /\ part = "arithmetic" => Arithmetic!CleanOutput

(* Tables that are made are the best and can be decoded, tables that are   *)
(* accepted lead no bits outside them, and those that ImageProc.c loads    *)
(* suffice (jchuff.c:1326, jdhuff.c:373, ImageProc.c).                     *)
TablesServe ==
  part = "table" =>
    /\ Table!BestTable /\ Table!EveryCodeIsDecoded /\ Table!AcceptedTablesAreSafe
    /\ Table!OdmlTablesAreStandard /\ Table!LoadedTablesSuffice

(* What the marker writer is asked for is what the reader finds, with the  *)
(* markers it was to save; garbage is reported once, and a source keeps no *)
(* more than it must (jcmarker.c, jdmarker.c).                             *)
MarkersArrive ==
  part = "markers" =>
    /\ Markers!FrameArrives /\ Markers!ScanArrives /\ Markers!ColourSpaceKept
    /\ Markers!MarkersSaved /\ Markers!DroppedOnce
    /\ Markers!NoWaitAtTheEnd /\ Markers!KeepsLittle

(* A file of any origin that comes in pieces is read as if it came at      *)
(* once, down to the error it ends with (jdmarker.c).                      *)
CutsDoNotMatter == part = "markers" => Markers!CutsDoNotMatter

(* Every block stored is the DCT of its samples at its size, to the        *)
(* nearest multiple of the quantization steps, and quantized with the      *)
(* divisors its routine calls for (jfdctint.c, jfdctfst.c, jcdctmgr.c).    *)
BlocksAreDcts ==
  part = "dct" => Dct!TypeOK /\ Dct!DivisorsFit /\ Dct!Accurate /\ Dct!FlatStaysFlat

(* The same of blocks 12 and 14 samples wide. (jfdctint.c: a slow but      *)
(* accurate integer implementation; ... scaled to 8-point level.)          *)
NarrowBlocksAreDcts == part = "narrow dct" => NarrowDct!Accurate
=============================================================================
