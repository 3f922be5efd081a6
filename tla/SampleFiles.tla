----------------------------- MODULE SampleFiles -----------------------------
(***************************************************************************)
(* What the marker writer is asked for in the checks: images of every      *)
(* colour space and coding process, with blocks of several sizes so that   *)
(* short tables occur; and files no compressor of ours would write.        *)
(***************************************************************************)
EXTENDS MarkerReader

Quant(first) == [p \in 0 .. 63 |-> first + p]
Huff(a, b) == [bits |-> [i \in 1 .. 16 |-> IF i = 2 THEN 2 ELSE 0], huffval |-> <<a, b>>]

Scan(comps, Ss, Se, Ah, Al, interval) ==
  [comps |-> comps, Ss |-> Ss, Se |-> Se, Ah |-> Ah, Al |-> Al,
   restart_interval |-> interval]

Image(space, n, progressive, arith, block, first, extras, scans) ==
  jpeg_set_colorspace(space, n) @@
  [tables_first |-> FALSE, density_unit |-> 1, X_density |-> 300, Y_density |-> 72,
   precision |-> 8, height |-> 258, width |-> 3,
   progressive_mode |-> progressive, arith_code |-> arith, block_size |-> block,
   quant |-> (0 :> Quant(first) @@ 1 :> Quant(2)),
   dc_huff |-> (0 :> Huff(1, 2) @@ 1 :> Huff(3, 4)),
   ac_huff |-> (0 :> Huff(5, 6) @@ 1 :> Huff(7, 8)),
   arith_dc_L |-> [i \in 0 .. 15 |-> i % 3], arith_dc_U |-> [i \in 0 .. 15 |-> 2],
   arith_ac_K |-> [i \in 0 .. 15 |-> 5 + i],
   extras |-> extras, scans |-> scans]

App1 == [code |-> 225, data |-> <<9, 255, 0>>]
Comment(n) == [code |-> COM, data |-> [i \in 1 .. n |-> i]]

Colour == Image("YCbCr", 3, FALSE, FALSE, 8, 1, << Comment(20), App1 >>,
                << Scan(<<1, 2, 3>>, 0, 63, 0, 0, 0) >>)
Progressive == Image("YCCK", 4, TRUE, TRUE, 2, 1, << Comment(1) >>,
                     << Scan(<<1, 2, 3, 4>>, 0, 0, 0, 1, 2), Scan(<<2>>, 1, 3, 0, 0, 2),
                        Scan(<<1, 2, 3, 4>>, 0, 0, 1, 0, 0) >>)
Rgb == Image("RGB", 3, FALSE, FALSE, 3, 250, << App1, Comment(0), App1 >>,
             << Scan(<<1>>, 0, 8, 0, 0, 0), Scan(<<3>>, 0, 8, 0, 0, 300),
                Scan(<<2>>, 0, 8, 0, 0, 300) >>)
Cmyk == Image("CMYK", 4, FALSE, TRUE, 5, 1, <<>>, << Scan(<<1, 2, 3, 4>>, 0, 24, 0, 0, 0) >>)
Gray == [Image("GRAYSCALE", 1, FALSE, FALSE, 4, 250, << Comment(3) >>,
               << Scan(<<1>>, 0, 15, 0, 0, 7) >>) EXCEPT !.tables_first = TRUE]
Strange == Image("UNKNOWN", 2, TRUE, FALSE, 8, 1, <<>>,
                 << Scan(<<1, 2>>, 0, 0, 0, 0, 0), Scan(<<2>>, 1, 63, 0, 0, 0) >>)

WrittenFiles == { <<Colour>>, <<Progressive>>, <<Rgb, Cmyk>>, <<Gray, Gray>>, <<Strange>> }

AppCodes == 224 .. 239 \cup {COM}
LimitsOf(f) == [code \in AppCodes |-> IF code \in DOMAIN f THEN SavedLength(code, f[code]) ELSE 0]
SaveLimits == { LimitsOf(<<>>),
              LimitsOf(COM :> 5 @@ 225 :> 100 @@ APP0 :> 3 @@ APP14 :> 1) }

Soi == emit_marker(SOI)
Eoi == emit_marker(EOI)
Frame(code) == emit_marker(code) \o << 0, 11, 8, 0, 1, 0, 1, 1, 9, 17, 0 >>
ScanOf(id) == emit_marker(SOS) \o << 0, 8, 1, id, 0, 0, 63, 0 >>
TwoQuants == emit_marker(DQT) \o << 0, 73 >> \o << 0 >> \o [i \in 1 .. 64 |-> i]
               \o << 17, 1, 2, 3, 4, 0 >>
Table(number) == << number >> \o Huff(1, 2).bits \o << 1, 2 >>

BrokenFiles == {
  Soi \o Frame(192) \o ScanOf(9) \o Frame(192) \o Eoi,
  Soi \o ScanOf(9),
  Soi \o Frame(193) \o ScanOf(8),
  Soi \o TwoQuants \o emit_marker(DNL) \o << 0, 4, 0, 1 >> \o emit_marker(208) \o Eoi,
  Soi \o emit_marker(DQT) \o << 0, 5, 20, 1, 2 >>,
  Soi \o emit_marker(DHT) \o << 0, 40 >> \o Table(0) \o Table(17) \o Eoi \o Soi \o Eoi,
  Soi \o emit_marker(DHT) \o << 0, 40 >> \o Table(1) \o Table(32),
  Soi \o emit_marker(DHT) \o << 0, 30 >> \o Table(1) \o Table(0),
  Soi \o emit_marker(DAC) \o << 0, 6, 1, 32, 16, 9 >> \o emit_marker(DAC) \o << 0, 4, 0, 2 >>,
  Soi \o emit_marker(DAC) \o << 0, 5, 1, 32, 16, 9 >> \o Eoi,
  Soi \o emit_marker(COM) \o << 0, 1 >> \o emit_marker(APP0) \o << 0, 1 >>
      \o emit_marker(DRI) \o << 0, 5 >>,
  Soi \o emit_marker(APP0) \o << 0, 9, 74, 70, 73, 70, 0, 1, 1 >> \o Soi,
  Soi \o Frame(194) \o emit_marker(SOS) \o << 0, 6, 0, 0, 63, 0 >> \o emit_marker(240),
  Soi \o Frame(201) \o emit_marker(SOS) \o << 0, 6, 0, 0, 63, 0 >>,
  << 0, 255 >> \o Soi }
=============================================================================
