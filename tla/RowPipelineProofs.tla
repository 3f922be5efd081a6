-------------------------- MODULE RowPipelineProofs --------------------------
(***************************************************************************)
(* Every row an application reads comes from its place in the image, for   *)
(* every height, sampling, number of row groups in an iMCU row, way to     *)
(* upsample and to postprocess, and however the application cuts the image *)
(* into calls and the source suspends.                                     *)
(*                                                                         *)
(* The invariant says where the controllers stand: which iMCU row is in    *)
(* the workspace and behind which pointers, which rows of the one before   *)
(* are kept, which row group is next and how much of it the upsampler has  *)
(* given.  From it follows what the window on a row group shows, then what *)
(* one call of the upsampler, of the postprocessor and of the main         *)
(* controller brings, and then each step of the pipeline.                  *)
(***************************************************************************)
EXTENDS RowPipeline, SequenceTheorems, TLAPS

Height == config.height

(* What the coefficient controller writes for row r of component c.         *)
Content(c, r) == IF r < DownsampledHeight(c) THEN r ELSE Dummy

(* The row group of the list in use is that row group of the image, as far  *)
(* as the image goes; with context rows, so are the rows around it.         *)
Needed(c, r) == IF Context THEN r <= DownsampledHeight(c) ELSE r < DownsampledHeight(c)
Around(c) == IF Context THEN -1 .. R(c) ELSE 0 .. R(c) - 1
Provides(m, group, G) ==
  \A c \in Component : \A j \in Around(c) :
    Needed(c, G * R(c) + j) =>
      Behind(m, m.whichptr, c, group * R(c) + j) = Clamped(c, G * R(c) + j)

(* A sequence of rows.                                                      *)
IsRows(rows) == Len(rows) \in Nat /\ rows = [k \in 1 .. Len(rows) |-> rows[k]]

(* A row the application may be given as row y.                             *)
InPlace(row, y) ==
  \A c \in Component :
    /\ row[c].at \in Nat /\ row[c].of[row[c].at] = SourceRow(c, y)
    /\ Context /\ R(c) < MaxV =>
         \A d \in {-1, 1} : row[c].of[row[c].at + d] = Clamped(c, SourceRow(c, y) + d)

(* The upsampler has made y rows, and stands at the beginning of the row    *)
(* group G of the image or in the middle of it.                             *)
Merged == config.upsampler = "merged"
Remaining(u, y) == (Merged /\ MaxV = 1) \/ u.rows_to_go = Height - y
Begins(u, y, G) ==
  /\ Remaining(u, y) /\ y = G * MaxV
  /\ IF Merged THEN MaxV = 2 => ~u.spare_full ELSE u.next_row_out = MaxV
Within(m, u, group, y, G) ==
  /\ Remaining(u, y)
  /\ IF Merged
     THEN MaxV = 2 /\ u.spare_full = TRUE /\ y = G * MaxV + 1 /\ InPlace(u.spare, y)
     ELSE /\ u.next_row_out \in 1 .. MaxV - 1 /\ y = G * MaxV + u.next_row_out
          /\ u.color_buf = Upsampled(m, group)
Stands(m, u, group, y, G) == Begins(u, y, G) \/ Within(m, u, group, y, G)

(* The list of pointers as it was made, without wraparound or bottom.       *)
Base(w, c, k) == IF w = 0 THEN k ELSE Swapped(c, k)

(* iMCU row I has been read into the list w; the last two row groups of I   *)
(* are kept below the iMCU row in the list w.                               *)
Holds(m, w, I) ==
  \A c \in Component : \A k \in 0 .. R(c) * M - 1 :
    m.workspace[c][Base(w, c, k)] = Content(c, I * (R(c) * M) + k)
Keeps(m, w, I) ==
  \A c \in Component : \A k \in R(c) * (M - 2) .. R(c) * M - 1 :
    m.workspace[c][Base(w, c, k + 2 * R(c))] = Content(c, I * (R(c) * M) + k)

Fresh == make_funny_pointers
Wrapped == set_wraparound_pointers(make_funny_pointers)
Last(I) == I + 1 = TotalIMcuRows

(* An iMCU row is in the buffer, row group by row group, or not yet.        *)
(* Without context rows.                                                    *)
PlainMain(m, u, y) ==
  /\ m.whichptr = 0 /\ m.xbuffer = Fresh
  /\ IF m.buffer_full
     THEN LET I == m.iMCU_row_ctr - 1
              g == m.rowgroup_ctr
          IN /\ I \in Nat /\ g \in 0 .. M - 1 /\ Holds(m, 0, I)
             /\ Stands(m, u, g, y, I * M + g)
     ELSE m.iMCU_row_ctr \in Nat /\ m.rowgroup_ctr = 0 /\ Begins(u, y, m.iMCU_row_ctr * M)

(* With them: before an iMCU row that is in the buffer, in the middle of    *)
(* one, and at the row group that waited for the next one.                  *)
AtFirst(m, u, y) ==
  /\ m.context_state = "prepare" /\ ~m.buffer_full /\ m.iMCU_row_ctr = 0
  /\ m.xbuffer = Fresh /\ m.whichptr = 0 /\ Begins(u, y, 0)
Preparing(m, u, y) ==
  LET I == m.iMCU_row_ctr - 1
      w == m.whichptr
  IN /\ m.context_state = "prepare" /\ m.buffer_full = TRUE
     /\ I \in Nat /\ w \in {0, 1} /\ Holds(m, w, I)
     /\ IF I = 0 THEN m.xbuffer = Fresh /\ w = 0
        ELSE m.xbuffer = Wrapped /\ Keeps(m, w, I - 1)
     /\ Begins(u, y, I * M)
Processing(m, u, y) ==
  LET I == m.iMCU_row_ctr - 1
      g == m.rowgroup_ctr
      w == m.whichptr
  IN /\ m.context_state = "process" /\ m.buffer_full = TRUE
     /\ I \in Nat /\ w \in {0, 1}
     /\ m.rowgroups_avail = IF Last(I) THEN NondummyRowGroups ELSE M - 1
     /\ g \in 0 .. m.rowgroups_avail - 1
     /\ \A later \in g .. m.rowgroups_avail - 1 : Provides(m, later, I * M + later)
     /\ Stands(m, u, g, y, I * M + g)
     /\ ~Last(I) => Holds(m, w, I) /\ m.xbuffer = IF I = 0 THEN Fresh ELSE Wrapped
Postponed(m, u, y) ==
  LET I == m.iMCU_row_ctr - (IF m.buffer_full THEN 2 ELSE 1)
      w == m.whichptr
      G == I * M + (M - 1)
  IN /\ m.context_state = "postponed" /\ m.buffer_full \in BOOLEAN
     /\ I \in Nat /\ w \in {0, 1} /\ I + 1 < TotalIMcuRows
     /\ m.rowgroup_ctr = M + 1 /\ m.rowgroups_avail = M + 2
     /\ m.xbuffer = Wrapped /\ Keeps(m, w, I)
     /\ IF m.buffer_full THEN Holds(m, w, I + 1) /\ Stands(m, u, M + 1, y, G)
        ELSE Begins(u, y, G)
ContextMain(m, u, y) ==
  AtFirst(m, u, y) \/ Preparing(m, u, y) \/ Processing(m, u, y) \/ Postponed(m, u, y)

(* The fields of the controllers.                                           *)
MainShape(m) ==
  /\ m = [buffer_full |-> m.buffer_full, rowgroup_ctr |-> m.rowgroup_ctr,
          rowgroups_avail |-> m.rowgroups_avail, whichptr |-> m.whichptr,
          context_state |-> m.context_state, iMCU_row_ctr |-> m.iMCU_row_ctr,
          xbuffer |-> m.xbuffer, workspace |-> m.workspace]
  /\ m.buffer_full \in BOOLEAN /\ m.iMCU_row_ctr \in Nat
  /\ \A c \in Component : DOMAIN m.workspace[c] =
                             0 .. (R(c) * (IF Context THEN M + 2 ELSE M)) - 1
UpsShape(u) ==
  u = [next_row_out |-> u.next_row_out, rows_to_go |-> u.rows_to_go,
       color_buf |-> u.color_buf, spare_full |-> u.spare_full, spare |-> u.spare]

MainInv(m, u, y) ==
  /\ MainShape(m) /\ UpsShape(u)
  /\ IF Context THEN ContextMain(m, u, y) ELSE PlainMain(m, u, y)

(* The strip that was reached, and the rows that were made before.          *)
PostInv(p, y, made) ==
  /\ p = [starting_row |-> p.starting_row, next_row |-> p.next_row,
          whole_image |-> p.whole_image]
  /\ DOMAIN p.whole_image = 0 .. (CeilDiv(Height, MaxV) * MaxV) - 1
  /\ p.starting_row \in Nat /\ p.next_row \in 0 .. MaxV - 1
  /\ y = p.starting_row + p.next_row
  /\ \A z \in 0 .. made - 1 : InPlace(p.whole_image[z], z)

TwoPass == config.post = "twopass"

(* The rows the application has are those of their places; as long as rows  *)
(* are still to come, the controllers are ready for the next one.           *)
RowsInv ==
  /\ config \in Configs /\ pass \in {"prepass", "emit"}
  /\ output_scanline \in 0 .. Height
  /\ IF pass = "prepass" THEN TwoPass /\ image = <<>>
     ELSE IsRows(image) /\ Len(image) = output_scanline
  /\ \A y \in 0 .. Len(image) - 1 : InPlace(image[y + 1], y)
  /\ NeverEmptyHanded
  /\ (pass = "prepass" \/ ~TwoPass) /\ output_scanline < Height =>
       MainInv(main, ups, output_scanline)
  /\ TwoPass => PostInv(post, output_scanline,
                        IF pass = "emit" THEN Height ELSE output_scanline)

(* Arithmetic                                                               *)

LEMMA Division ==
  ASSUME NEW a \in Int, NEW b \in Nat \ {0}
  PROVE  /\ a \div b \in Int /\ (a % b) \in 0 .. b - 1
         /\ a = ((a \div b) * b) + (a % b)
OBVIOUS

LEMMA TimesMonotonic ==
  ASSUME NEW a \in Int, NEW b \in Int, NEW k \in Nat, a <= b
  PROVE  a * k <= b * k
OBVIOUS

LEMMA TimesStrict ==
  ASSUME NEW a \in Int, NEW b \in Int, NEW k \in Nat \ {0}, a * k < b * k
  PROVE  a < b
OBVIOUS

LEMMA Distributes ==
  ASSUME NEW a \in Int, NEW b \in Int, NEW k \in Int
  PROVE  /\ (a + b) * k = a * k + b * k /\ k * (a + b) = k * a + k * b
         /\ (a - b) * k = a * k - b * k /\ k * (a - b) = k * a - k * b
         /\ (a + 1) * k = a * k + k /\ (a - 1) * k = a * k - k
         /\ a * k \in Int /\ b * k \in Int
OBVIOUS

LEMMA Associates ==
  ASSUME NEW a \in Int, NEW b \in Int, NEW k \in Int
  PROVE  /\ (a * b) * k = a * (b * k) /\ a * b = b * a /\ a * b \in Int
         /\ (a * b) * k = (a * k) * b
OBVIOUS

LEMMA Euclid ==
  ASSUME NEW q \in Int, NEW b \in Nat \ {0}, NEW r \in 0 .. b - 1
  PROVE  ((q * b) + r) \div b = q /\ ((q * b) + r) % b = r
<1> DEFINE a == q * b + r
           d == a \div b
           m == a % b
<1>1. a \in Int /\ q * b \in Int
  OBVIOUS
<1>2. d \in Int /\ m \in 0 .. b - 1 /\ a = d * b + m
  BY <1>1, Division
<1>3. a = q * b + r
  OBVIOUS
<1> HIDE DEF a, d, m
<1>4. d * b \in Int
  BY <1>2
<1>5. ~(d < q)
  <2> SUFFICES ASSUME d < q PROVE FALSE
    OBVIOUS
  <2>1. (d + 1) * b <= q * b
    BY <1>2, TimesMonotonic
  <2>2. (d + 1) * b = d * b + b
    BY <1>2
  <2> QED BY <2>1, <2>2, <1>1, <1>2, <1>3, <1>4
<1>6. ~(q < d)
  <2> SUFFICES ASSUME q < d PROVE FALSE
    OBVIOUS
  <2>1. (q + 1) * b <= d * b
    BY <1>2, TimesMonotonic
  <2>2. (q + 1) * b = q * b + b
    OBVIOUS
  <2> QED BY <2>1, <2>2, <1>1, <1>2, <1>3, <1>4
<1>7. d = q
  BY <1>2, <1>5, <1>6
<1>8. m = r
  BY <1>1, <1>2, <1>3, <1>4, <1>7
<1> QED BY <1>7, <1>8 DEF a, d, m

LEMMA Ceiling ==
  ASSUME NEW a \in Nat, NEW b \in Nat \ {0}
  PROVE  /\ CeilDiv(a, b) \in Nat /\ a <= CeilDiv(a, b) * b
         /\ CeilDiv(a, b) * b < a + b
         /\ a > 0 => CeilDiv(a, b) > 0
<1> DEFINE x == (a + b) - 1
           d == x \div b
           m == x % b
<1>1. x \in Nat /\ x = (a + b) - 1
  OBVIOUS
<1> HIDE DEF x
<1>2. d \in Int /\ m \in 0 .. b - 1 /\ x = d * b + m
  BY <1>1, Division
<1>3. CeilDiv(a, b) = d
  BY DEF CeilDiv, x
<1> HIDE DEF d, m
<1>4. d * b \in Int
  BY <1>2
<1>5. ~(d < 0)
  <2> SUFFICES ASSUME d < 0 PROVE FALSE
    OBVIOUS
  <2>1. (d + 1) * b <= 0 * b
    BY <1>2, TimesMonotonic
  <2>2. (d + 1) * b = d * b + b /\ 0 * b = 0
    BY <1>2
  <2> QED BY <2>1, <2>2, <1>1, <1>2, <1>4
<1>6. a > 0 => d # 0
  <2> SUFFICES ASSUME a > 0, d = 0 PROVE FALSE
    OBVIOUS
  <2>1. d * b = 0
    OBVIOUS
  <2> QED BY <2>1, <1>1, <1>2
<1> QED BY <1>1, <1>2, <1>3, <1>4, <1>5, <1>6

-----------------------------------------------------------------------------
(* The sizes of an image: what is assumed of Configs, and what follows.     *)

Sizes ==
  /\ M \in Nat \ {0} /\ MaxV \in Nat \ {0} /\ Height \in Nat \ {0}
  /\ 1 \in Component /\ \A c \in Component : R(c) \in 1 .. MaxV
  /\ config.upsampler \in {"separate", "context", "merged"}
  /\ config.post \in {"direct", "onepass", "twopass"}
  /\ Context => M >= 2
  /\ Merged => MaxV <= 2
  /\ config.post = "twopass" => MaxV <= 2

LEMMA SizesOf ==
  ASSUME ConfigsAssumption, config \in Configs
  PROVE  Sizes
BY DEF ConfigsAssumption, Sizes, M, MaxV, Height, Component, R, Context, Merged

LEMMA Downsampled ==
  ASSUME Sizes, NEW c \in Component
  PROVE  /\ DownsampledHeight(c) \in Nat \ {0}
         /\ Height * R(c) <= DownsampledHeight(c) * MaxV
         /\ DownsampledHeight(c) * MaxV < (Height * R(c)) + MaxV
<1> DEFINE a == Height * R(c)
<1>1. R(c) \in Nat \ {0} /\ MaxV \in Nat \ {0} /\ Height \in Nat \ {0}
  BY DEF Sizes
<1>2. a \in Nat /\ a > 0
  BY <1>1
<1>3. DownsampledHeight(c) = CeilDiv(a, MaxV)
  BY DEF DownsampledHeight, Height
<1> HIDE DEF a
<1>4. /\ CeilDiv(a, MaxV) \in Nat /\ a <= CeilDiv(a, MaxV) * MaxV
      /\ CeilDiv(a, MaxV) * MaxV < a + MaxV
      /\ a > 0 => CeilDiv(a, MaxV) > 0
  BY <1>1, <1>2, Ceiling
<1> QED BY <1>1, <1>2, <1>3, <1>4 DEF a

(* An output row shows a row of each component.                             *)
LEMMA SourceRowExists ==
  ASSUME Sizes, NEW c \in Component, NEW y \in Nat, y < Height
  PROVE  SourceRow(c, y) \in 0 .. DownsampledHeight(c) - 1
<1> DEFINE a == y * R(c)
           s == a \div MaxV
           m == a % MaxV
           D == DownsampledHeight(c)
<1>1. R(c) \in Nat \ {0} /\ MaxV \in Nat \ {0} /\ Height \in Nat \ {0}
  BY DEF Sizes
<1>2. a \in Nat /\ (y + 1) * R(c) <= Height * R(c) /\ (y + 1) * R(c) = a + R(c)
  BY <1>1, TimesMonotonic
<1>3. D \in Nat \ {0} /\ Height * R(c) <= D * MaxV
  BY Downsampled
<1>4. SourceRow(c, y) = s
  BY DEF SourceRow
<1> HIDE DEF a
<1>5. s \in Int /\ m \in 0 .. MaxV - 1 /\ a = (s * MaxV) + m
  <2>1. a \in Int /\ MaxV \in Nat \ {0}
    BY <1>1, <1>2
  <2> QED BY <2>1, Division
<1> HIDE DEF s, m, D
<1>6. s * MaxV \in Int /\ D * MaxV \in Int /\ Height * R(c) \in Int
  BY <1>1, <1>3, <1>5
<1>7. s * MaxV < D * MaxV
  BY <1>1, <1>2, <1>3, <1>5, <1>6
<1>8. s < D
  BY <1>7, <1>1, <1>3, <1>5, TimesStrict
<1>9. (-1) * MaxV < s * MaxV /\ -1 \in Int
  BY <1>1, <1>2, <1>5, <1>6
<1>10. -1 < s
  BY <1>9, <1>1, <1>5, TimesStrict
<1> QED BY <1>3, <1>4, <1>5, <1>8, <1>10 DEF D

(* Row n of the output rows of a row group is made from a row of that row   *)
(* group.                                                                   *)
LEMMA SourceRowInGroup ==
  ASSUME Sizes, NEW c \in Component, NEW G \in Nat, NEW n \in 0 .. MaxV - 1
  PROVE  /\ (n * R(c)) \div MaxV \in 0 .. R(c) - 1
         /\ SourceRow(c, (G * MaxV) + n) = (G * R(c)) + ((n * R(c)) \div MaxV)
         /\ R(c) = MaxV => (n * R(c)) \div MaxV = n
<1> DEFINE a == n * R(c)
           s == a \div MaxV
           m == a % MaxV
           q == (G * R(c)) + s
<1>1. R(c) \in Nat \ {0} /\ MaxV \in Nat \ {0} /\ n \in Nat /\ n < MaxV
  BY DEF Sizes
<1>2. a \in Nat /\ a < MaxV * R(c) /\ MaxV * R(c) = R(c) * MaxV
  <2>1. (n + 1) * R(c) <= MaxV * R(c) /\ (n + 1) * R(c) = (n * R(c)) + R(c)
    BY <1>1, TimesMonotonic
  <2> QED BY <2>1, <1>1
<1>3. ((G * MaxV) + n) * R(c) = ((G * R(c)) * MaxV) + a
  <2>1. ((G * MaxV) + n) * R(c) = ((G * MaxV) * R(c)) + (n * R(c))
    <3> DEFINE g == G * MaxV
    <3>1. g \in Int
      BY <1>1
    <3> HIDE DEF g
    <3> QED BY <3>1, <1>1, Distributes DEF g
  <2>2. (G * MaxV) * R(c) = (G * R(c)) * MaxV
    BY <1>1, Associates
  <2> QED BY <2>1, <2>2
<1>4. SourceRow(c, (G * MaxV) + n) = (((G * R(c)) * MaxV) + a) \div MaxV
  BY <1>3 DEF SourceRow
<1>5. R(c) = MaxV => s = n
  <2>1. (n * MaxV) + 0 = n * MaxV
    BY <1>1
  <2> QED BY <1>1, <2>1, Euclid
<1> HIDE DEF a
<1>6. s \in Int /\ m \in 0 .. MaxV - 1 /\ a = (s * MaxV) + m
  <2>1. a \in Int /\ MaxV \in Nat \ {0}
    BY <1>1, <1>2
  <2> QED BY <2>1, Division
<1> HIDE DEF s, m
<1>7. s * MaxV \in Int /\ R(c) * MaxV \in Int
  BY <1>1, <1>6
<1>8. s < R(c)
  <2>1. s * MaxV < R(c) * MaxV
    BY <1>1, <1>2, <1>6, <1>7
  <2> QED BY <2>1, <1>1, <1>6, TimesStrict
<1>9. -1 < s
  <2>1. (-1) * MaxV < s * MaxV /\ -1 \in Int
    BY <1>1, <1>2, <1>6, <1>7
  <2> QED BY <2>1, <1>1, <1>6, TimesStrict
<1>10. (((G * R(c)) * MaxV) + a) \div MaxV = q
  <2> DEFINE g == G * R(c)
  <2>1. g \in Int
    BY <1>1
  <2> HIDE DEF g
  <2>2. (g + s) * MaxV = (g * MaxV) + (s * MaxV) /\ g * MaxV \in Int /\ g + s \in Int
    BY <2>1, <1>1, <1>6
  <2>3. (g * MaxV) + a = ((g + s) * MaxV) + m
    BY <2>1, <2>2, <1>6, <1>7
  <2>4. (((g + s) * MaxV) + m) \div MaxV = g + s
    BY <2>2, <1>1, <1>6, Euclid
  <2> QED BY <2>3, <2>4 DEF g
<1> QED BY <1>1, <1>4, <1>5, <1>6, <1>8, <1>9, <1>10 DEF a, s

(* iMCU rows.  The last one is the first to reach the bottom of the image,  *)
(* and of each component.                                                   *)
LEMMA IMcuRows ==
  ASSUME Sizes, NEW I \in Nat
  PROVE  /\ TotalIMcuRows \in Nat
         /\ (I * M) * MaxV < Height => I + 1 <= TotalIMcuRows
         /\ I + 1 < TotalIMcuRows => ((I + 1) * M) * MaxV < Height
         /\ I + 1 = TotalIMcuRows => (I * M) * MaxV < Height
         /\ I + 1 = TotalIMcuRows => Height <= ((I + 1) * M) * MaxV
<1> DEFINE b == MaxV * M
           N == CeilDiv(Height, b)
<1>1. M \in Nat \ {0} /\ MaxV \in Nat \ {0} /\ Height \in Nat \ {0}
  BY DEF Sizes
<1>2. b \in Nat \ {0} /\ TotalIMcuRows = N
  BY <1>1 DEF TotalIMcuRows, Height
<1>3. (I * M) * MaxV = I * b /\ ((I + 1) * M) * MaxV = (I + 1) * b
  BY <1>1, Associates
<1> HIDE DEF b
<1>4. N \in Nat /\ Height <= N * b /\ N * b < Height + b
  BY <1>1, <1>2, Ceiling
<1> HIDE DEF N
<1>5. N * b \in Int /\ I * b \in Int /\ (I + 1) * b \in Int /\ (I + 1) * b = (I * b) + b
  BY <1>2, <1>4
<1>6. I * b < Height => I + 1 <= N
  <2> SUFFICES ASSUME I * b < Height PROVE I < N
    BY <1>4
  <2>1. I * b < N * b
    BY <1>1, <1>4, <1>5
  <2> QED BY <2>1, <1>2, <1>4, TimesStrict
<1>7. I + 1 < N => (I + 1) * b < Height
  <2> SUFFICES ASSUME I + 1 < N PROVE (I + 1) * b < Height
    OBVIOUS
  <2>1. ((I + 1) + 1) * b <= N * b
    BY <1>2, <1>4, TimesMonotonic
  <2>2. ((I + 1) + 1) * b = ((I + 1) * b) + b
    BY <1>2
  <2> QED BY <2>1, <2>2, <1>1, <1>2, <1>4, <1>5
<1>8. I + 1 = N => I * b < Height /\ Height <= (I + 1) * b
  BY <1>1, <1>2, <1>4, <1>5
<1> QED BY <1>2, <1>3, <1>4, <1>6, <1>7, <1>8

(* Groups of output rows and of a component's rows reach the bottom         *)
(* together.                                                                *)
LEMMA GroupsBelow ==
  ASSUME Sizes, NEW c \in Component, NEW G \in Nat
  PROVE  /\ G * MaxV < Height => G * R(c) < DownsampledHeight(c)
         /\ Height <= G * MaxV => DownsampledHeight(c) <= G * R(c)
         /\ DownsampledHeight(c) <= G * R(c) => Height <= G * MaxV
<1> DEFINE D == DownsampledHeight(c)
           r == R(c)
           x == (G * r) * MaxV
<1>1. r \in Nat \ {0} /\ MaxV \in Nat \ {0} /\ Height \in Nat \ {0}
  BY DEF Sizes
<1>2. D \in Nat \ {0} /\ Height * r <= D * MaxV /\ D * MaxV < (Height * r) + MaxV
  BY Downsampled
<1> HIDE DEF D, r
<1>3. x = (G * MaxV) * r /\ G * r \in Nat /\ G * MaxV \in Nat /\ x \in Int
  BY <1>1, Associates
<1>4. D * MaxV \in Int /\ Height * r \in Int
  BY <1>1, <1>2
<1>5. G * MaxV < Height => G * r < D
  <2> SUFFICES ASSUME G * MaxV < Height PROVE G * r < D
    OBVIOUS
  <2> DEFINE g == G * MaxV
  <2>1. g \in Nat /\ g < Height /\ x = g * r
    BY <1>3
  <2> HIDE DEF g, x
  <2>2. (g + 1) * r <= Height * r /\ (g + 1) * r = (g * r) + r
    BY <2>1, <1>1, TimesMonotonic
  <2>3. x < D * MaxV
    BY <2>1, <2>2, <1>1, <1>2, <1>3, <1>4
  <2> QED BY <2>3, <1>1, <1>2, <1>3, TimesStrict DEF x
<1>6. Height <= G * MaxV => D <= G * r
  <2> SUFFICES ASSUME Height <= G * MaxV PROVE D < (G * r) + 1
    BY <1>1, <1>2, <1>3
  <2> DEFINE g == G * MaxV
             e == G * r
  <2>1. g \in Nat /\ Height <= g /\ x = g * r /\ e \in Nat /\ x = e * MaxV
    BY <1>3
  <2> HIDE DEF g, x, e
  <2>2. Height * r <= g * r
    BY <2>1, <1>1, TimesMonotonic
  <2>3. (e + 1) * MaxV = (e * MaxV) + MaxV
    BY <2>1, <1>1
  <2>4. D * MaxV < (e + 1) * MaxV
    BY <2>1, <2>2, <2>3, <1>1, <1>2, <1>3, <1>4
  <2>5. e + 1 \in Int
    BY <2>1
  <2> QED BY <2>4, <2>5, <1>1, <1>2, TimesStrict DEF e
<1>7. D <= G * r => Height <= G * MaxV
  <2> SUFFICES ASSUME D <= G * r, G * MaxV < Height PROVE FALSE
    BY <1>1, <1>3
  <2> QED BY <1>5, <1>1, <1>2, <1>3
<1> QED BY <1>5, <1>6, <1>7 DEF D, r

(* What is left of component c for the last iMCU row, and how many row      *)
(* groups that is.                                                          *)
LEMMA LastIMcuRow ==
  ASSUME Sizes, NEW I \in Nat, Last(I), NEW c \in Component
  PROVE  /\ RowsLeft(c) \in 1 .. R(c) * M
         /\ DownsampledHeight(c) = (I * (R(c) * M)) + RowsLeft(c)
<1> DEFINE D == DownsampledHeight(c)
           b == R(c) * M
           i == I * b
           d == D - i
<1>1. R(c) \in Nat \ {0} /\ M \in Nat \ {0}
  BY DEF Sizes
<1>2. D \in Nat \ {0} /\ b \in Nat \ {0} /\ i \in Nat
  BY <1>1, Downsampled
<1>3. i < D /\ D <= i + b
  <2>1. (I * M) * MaxV < Height /\ Height <= ((I + 1) * M) * MaxV
    BY IMcuRows DEF Last
  <2>2. I * M \in Nat /\ (I + 1) * M \in Nat
    BY <1>1
  <2>3. (I * M) * R(c) < D /\ D <= ((I + 1) * M) * R(c)
    BY <2>1, <2>2, GroupsBelow
  <2>4. (I * M) * R(c) = i /\ ((I + 1) * M) * R(c) = (I + 1) * b
    BY <1>1, Associates
  <2> HIDE DEF b
  <2>5. (I + 1) * b = i + b
    BY <1>2
  <2> QED BY <2>3, <2>4, <2>5
<1>4. RowsLeft(c) = IF D % b = 0 THEN b ELSE D % b
  BY DEF RowsLeft
<1> HIDE DEF b, D
<1>5. d \in 1 .. b /\ D = i + d
  BY <1>2, <1>3
<1>6. RowsLeft(c) = d
  <2>1. CASE d = b
    <3>1. D = (I + 1) * b + 0 /\ I + 1 \in Int /\ 0 \in 0 .. b - 1
      BY <2>1, <1>2, <1>5
    <3>2. D % b = 0
      BY <3>1, <1>2, Euclid
    <3> QED BY <3>2, <2>1, <1>4
  <2>2. CASE d # b
    <3> HIDE DEF d
    <3>1. D = (I * b) + d /\ I \in Int /\ d \in 0 .. b - 1
      BY <2>2, <1>2, <1>5
    <3>2. D % b = d
      BY <3>1, <1>2, Euclid
    <3> QED BY <3>2, <1>4, <1>5, <1>2
  <2> QED BY <2>1, <2>2
<1> QED BY <1>5, <1>6 DEF D, b

LEMMA LastRowGroups ==
  ASSUME Sizes, NEW I \in Nat, Last(I)
  PROVE  /\ NondummyRowGroups \in 1 .. M
         /\ Height <= ((I * M) + NondummyRowGroups) * MaxV
<1> DEFINE r == R(1)
           left == RowsLeft(1)
           x == left - 1
           q == x \div r
           m == x % r
           n == q + 1
<1>1. r \in Nat \ {0} /\ M \in Nat \ {0} /\ MaxV \in Nat \ {0} /\ 1 \in Component
  BY DEF Sizes
<1>2. left \in 1 .. r * M /\ DownsampledHeight(1) = (I * (r * M)) + left
  BY <1>1, LastIMcuRow
<1>3. NondummyRowGroups = n
  BY DEF NondummyRowGroups
<1> HIDE DEF left, r
<1>4. x \in Int /\ x = left - 1 /\ r * M \in Nat
  BY <1>1, <1>2
<1> HIDE DEF x
<1>5. q \in Int /\ m \in 0 .. r - 1 /\ x = (q * r) + m
  BY <1>1, <1>4, Division
<1> HIDE DEF q, m
<1>6. q * r \in Int /\ n * r = (q * r) + r /\ n \in Int
  BY <1>1, <1>5
<1>7. -1 < q
  <2>1. (-1) * r < q * r /\ -1 \in Int
    BY <1>1, <1>2, <1>4, <1>5, <1>6
  <2> QED BY <2>1, <1>1, <1>5, TimesStrict
<1>8. q < M
  <2>1. M * r = r * M
    BY <1>1
  <2>2. q * r < M * r
    BY <2>1, <1>1, <1>2, <1>4, <1>5, <1>6
  <2> QED BY <2>2, <1>1, <1>5, TimesStrict
<1>9. left <= n * r
  BY <1>1, <1>2, <1>4, <1>5, <1>6
<1> HIDE DEF n
<1>10. ((I * M) + n) * r = (I * (r * M)) + (n * r)
  <2>1. (I * M) * r = I * (r * M) /\ I * M \in Int
    BY <1>1, Associates
  <2> DEFINE j == I * M
  <2> HIDE DEF j
  <2>2. (j + n) * r = (j * r) + (n * r)
    BY <2>1, <1>1, <1>6, Distributes DEF j
  <2> QED BY <2>1, <2>2 DEF j
<1>11. n \in 1 .. M
  BY <1>1, <1>5, <1>7, <1>8 DEF n
<1>12. DownsampledHeight(1) <= ((I * M) + n) * r
  <2> DEFINE j == I * (r * M)
  <2>1. j \in Int /\ n * r \in Int
    BY <1>1, <1>4, <1>6
  <2> HIDE DEF j
  <2> QED BY <2>1, <1>2, <1>9, <1>10 DEF j
<1>13. (I * M) + n \in Nat
  BY <1>1, <1>11
<1>14. Height <= ((I * M) + n) * MaxV
  BY <1>1, <1>12, <1>13, GroupsBelow DEF r
<1> QED BY <1>3, <1>11, <1>14

-----------------------------------------------------------------------------
(* The lists of pointers                                                    *)

LEMMA ListSizes ==
  ASSUME Sizes, NEW c \in Component
  PROVE  /\ R(c) \in Nat \ {0} /\ M \in Nat \ {0} /\ R(c) * M \in Nat /\ R(c) <= R(c) * M
         /\ R(c) * (M - 2) = (R(c) * M) - (2 * R(c))
         /\ R(c) * (M + 2) = (R(c) * M) + (2 * R(c))
         /\ R(c) * (M + 3) = (R(c) * M) + (3 * R(c))
         /\ Context => 2 * R(c) <= R(c) * M
<1> DEFINE r == R(c)
<1>1. r \in Nat \ {0} /\ M \in Nat \ {0} /\ (Context => M >= 2)
  BY DEF Sizes
<1> HIDE DEF r
<1>2. 1 * r <= M * r /\ (Context => 2 * r <= M * r) /\ M * r = r * M
  BY <1>1, TimesMonotonic
<1>3. /\ r * (M - 2) = (r * M) - (r * 2)
      /\ r * (M + 2) = (r * M) + (r * 2)
      /\ r * (M + 3) = (r * M) + (r * 3)
  BY <1>1, Distributes
<1> QED BY <1>1, <1>2, <1>3 DEF r

(* Row group g of iMCU row I, in the list and in the image.                 *)
LEMMA GroupAt ==
  ASSUME Sizes, NEW c \in Component, NEW I \in Nat, NEW g \in Nat
  PROVE  /\ ((I * M) + g) * R(c) = (I * (R(c) * M)) + (g * R(c))
         /\ I * (R(c) * M) \in Nat /\ g * R(c) \in Nat
         /\ g < M => (g * R(c)) + R(c) <= R(c) * M
         /\ g + 1 < M => (g * R(c)) + (2 * R(c)) <= R(c) * M
         /\ g > 0 => g * R(c) >= R(c)
<1> DEFINE r == R(c)
           i == I * M
<1>1. r \in Nat \ {0} /\ M \in Nat \ {0}
  BY DEF Sizes
<1> HIDE DEF r
<1>2. i \in Nat /\ i * r = I * (r * M)
  BY <1>1, Associates
<1> HIDE DEF i
<1>3. (i + g) * r = (i * r) + (g * r) /\ i * r \in Nat /\ g * r \in Nat
  BY <1>1, <1>2, Distributes
<1>4. M * r = r * M /\ (g + 1) * r = (g * r) + r /\ (g + 2) * r = (g * r) + (2 * r)
  BY <1>1
<1>5. g < M => (g + 1) * r <= M * r
  BY <1>1, TimesMonotonic
<1>6. g + 1 < M => (g + 2) * r <= M * r
  BY <1>1, TimesMonotonic
<1>7. g > 0 => 1 * r <= g * r
  BY <1>1, TimesMonotonic
<1> QED BY <1>1, <1>2, <1>3, <1>4, <1>5, <1>6, <1>7 DEF r, i

LEMMA BaseBijective ==
  ASSUME Sizes, NEW c \in Component, NEW w \in {0, 1}, Context \/ w = 0
  PROVE  /\ \A k \in 0 .. (R(c) * (M + 2)) - 1 :
              Base(w, c, k) \in 0 .. (R(c) * (M + 2)) - 1
         /\ \A k, l \in 0 .. (R(c) * (M + 2)) - 1 : Base(w, c, k) = Base(w, c, l) => k = l
<1> DEFINE r == R(c)
           b == r * M
           s == r * (M - 2)
           e == r * (M + 2)
<1>1. r \in Nat \ {0} /\ b \in Nat /\ e = b + 2 * r
  BY ListSizes
<1>2. CASE w = 0
  BY <1>2 DEF Base
<1>3. CASE w = 1
  <2>1. s = b - 2 * r /\ 2 * r <= b
    BY <1>3, ListSizes
  <2>2. \A k : Base(w, c, k) = IF k \in s .. b - 1 THEN k + 2 * r
                               ELSE IF k \in b .. e - 1 THEN k - 2 * r ELSE k
    BY <1>3 DEF Base, Swapped
  <2> HIDE DEF r, b, s, e
  <2>3. \A k \in 0 .. e - 1 : Base(w, c, k) \in 0 .. e - 1
    BY <1>1, <2>1, <2>2
  <2>4. \A k, l \in 0 .. e - 1 : Base(w, c, k) = Base(w, c, l) => k = l
    BY <1>1, <2>1, <2>2
  <2> QED BY <2>3, <2>4 DEF r, e
<1> QED BY <1>2, <1>3

(* What the lists point to, as they are made and wrapped around.            *)
LEMMA FreshAt ==
  ASSUME Sizes, NEW c \in Component, NEW w \in {0, 1}
  PROVE  /\ \A k \in 0 .. (R(c) * (M + 2)) - 1 : Fresh[w][c][k] = Base(w, c, k)
         /\ w = 0 => \A k \in 0 - R(c) .. -1 : Fresh[w][c][k] = 0
<1> DEFINE r == R(c)
           e == r * (M + 2)
           f == r * (M + 3)
<1>1. r \in Nat \ {0} /\ e \in Nat /\ f = e + r
  BY ListSizes
<1>2. ListIndex(c) = 0 - r .. f - 1
  BY DEF ListIndex
<1>3. Fresh[w][c] = [k \in ListIndex(c) |->
         CASE k < 0 -> IF w = 0 THEN 0 ELSE Unset
           [] k >= e -> Unset
           [] OTHER -> IF w = 0 THEN k ELSE Swapped(c, k)]
  BY DEF Fresh, make_funny_pointers
<1> HIDE DEF r, e, f
<1>4. \A k \in 0 .. e - 1 : Fresh[w][c][k] = Base(w, c, k)
  <2> SUFFICES ASSUME NEW k \in 0 .. e - 1 PROVE Fresh[w][c][k] = Base(w, c, k)
    OBVIOUS
  <2>1. k \in ListIndex(c) /\ ~(k < 0) /\ ~(k >= e)
    BY <1>1, <1>2
  <2> QED BY <2>1, <1>3 DEF Base
<1>5. ASSUME w = 0, NEW k \in 0 - r .. -1 PROVE Fresh[w][c][k] = 0
  <2>1. k \in ListIndex(c) /\ k < 0 /\ ~(k >= e)
    BY <1>1, <1>2
  <2> QED BY <2>1, <1>3, <1>5
<1> QED BY <1>4, <1>5 DEF r, e

LEMMA WrappedAt ==
  ASSUME Sizes, NEW c \in Component, NEW w \in {0, 1}
  PROVE  /\ \A k \in 0 .. (R(c) * (M + 2)) - 1 : Wrapped[w][c][k] = Base(w, c, k)
         /\ \A k \in 0 - R(c) .. -1 :
              Wrapped[w][c][k] = Base(w, c, k + (R(c) * (M + 2)))
         /\ \A k \in R(c) * (M + 2) .. (R(c) * (M + 3)) - 1 :
              Wrapped[w][c][k] = Base(w, c, k - (R(c) * (M + 2)))
<1> DEFINE r == R(c)
           e == r * (M + 2)
           f == r * (M + 3)
           x == Fresh[w][c]
<1>1. r \in Nat \ {0} /\ e \in Nat /\ f = e + r /\ 2 * r <= e
  BY ListSizes
<1>2. ListIndex(c) = 0 - r .. f - 1
  BY DEF ListIndex
<1>3. Wrapped[w][c] = [k \in ListIndex(c) |->
         CASE k < 0 -> x[k + e] [] k >= e -> x[k - e] [] OTHER -> x[k]]
  BY DEF Wrapped, Fresh, set_wraparound_pointers
<1>4. \A k \in 0 .. e - 1 : x[k] = Base(w, c, k)
  BY FreshAt
<1> HIDE DEF r, e, f, x
<1>5. \A k \in 0 .. e - 1 : Wrapped[w][c][k] = Base(w, c, k)
  <2> SUFFICES ASSUME NEW k \in 0 .. e - 1 PROVE Wrapped[w][c][k] = Base(w, c, k)
    OBVIOUS
  <2>1. k \in ListIndex(c) /\ ~(k < 0) /\ ~(k >= e)
    BY <1>1, <1>2
  <2> QED BY <2>1, <1>3, <1>4
<1>6. \A k \in 0 - r .. -1 : Wrapped[w][c][k] = Base(w, c, k + e)
  <2> SUFFICES ASSUME NEW k \in 0 - r .. -1 PROVE Wrapped[w][c][k] = Base(w, c, k + e)
    OBVIOUS
  <2>1. k \in ListIndex(c) /\ k < 0 /\ k + e \in 0 .. e - 1
    BY <1>1, <1>2
  <2>2. Wrapped[w][c][k] = x[k + e]
    BY <2>1, <1>1, <1>3
  <2> QED BY <2>1, <2>2, <1>4
<1>7. \A k \in e .. f - 1 : Wrapped[w][c][k] = Base(w, c, k - e)
  <2> SUFFICES ASSUME NEW k \in e .. f - 1 PROVE Wrapped[w][c][k] = Base(w, c, k - e)
    OBVIOUS
  <2>1. k \in ListIndex(c) /\ ~(k < 0) /\ k >= e /\ k - e \in 0 .. e - 1
    BY <1>1, <1>2
  <2>2. Wrapped[w][c][k] = x[k - e]
    BY <2>1, <1>3
  <2> QED BY <2>1, <2>2, <1>4
<1> QED BY <1>5, <1>6, <1>7 DEF r, e, f

-----------------------------------------------------------------------------
(* An iMCU row is read into the list in use, whose pointers are as they     *)
(* were made.  The rows that are kept from the one before it stay.          *)

Pointers(m) ==
  /\ m.whichptr \in {0, 1} /\ (Context \/ m.whichptr = 0)
  /\ m.xbuffer = Fresh \/ (Context /\ m.xbuffer = Wrapped)

LEMMA PointersAt ==
  ASSUME Sizes, NEW m, Pointers(m), NEW c \in Component,
         NEW k \in 0 .. (R(c) * (M + 2)) - 1
  PROVE  m.xbuffer[m.whichptr][c][k] = Base(m.whichptr, c, k)
BY FreshAt, WrappedAt DEF Pointers

LEMMA Reads ==
  ASSUME Sizes, NEW m, MainShape(m), Pointers(m), m.iMCU_row_ctr \in Nat,
         NEW d, d = decompress_data(m)
  PROVE  /\ MainShape(d) /\ Pointers(d)
         /\ d.buffer_full = TRUE /\ d.iMCU_row_ctr = m.iMCU_row_ctr + 1
         /\ d.whichptr = m.whichptr /\ d.xbuffer = m.xbuffer
         /\ d.context_state = m.context_state
         /\ d.rowgroup_ctr = m.rowgroup_ctr /\ d.rowgroups_avail = m.rowgroups_avail
         /\ Holds(d, m.whichptr, m.iMCU_row_ctr)
         /\ \A I \in Nat : Context /\ Keeps(m, m.whichptr, I) => Keeps(d, m.whichptr, I)
<1> DEFINE At(c, k) == {j \in 0 .. (R(c) * M) - 1 : m.xbuffer[m.whichptr][c][j] = k}
           row(c, k) == (m.iMCU_row_ctr * R(c) * M) + (CHOOSE j \in At(c, k) : TRUE)
           filled(c, k) == IF At(c, k) = {} THEN m.workspace[c][k]
                           ELSE IF row(c, k) < DownsampledHeight(c) THEN row(c, k)
                           ELSE Dummy
           w == m.whichptr
           I0 == m.iMCU_row_ctr
<1>1. d = [m EXCEPT !.buffer_full = TRUE, !.iMCU_row_ctr = m.iMCU_row_ctr + 1,
                    !.workspace = [c \in Component |->
                       [k \in DOMAIN m.workspace[c] |-> filled(c, k)]]]
  BY DEF decompress_data
<1> HIDE DEF filled
<1>2. /\ d.buffer_full = TRUE /\ d.iMCU_row_ctr = m.iMCU_row_ctr + 1
      /\ d.whichptr = m.whichptr /\ d.xbuffer = m.xbuffer
      /\ d.context_state = m.context_state
      /\ d.rowgroup_ctr = m.rowgroup_ctr /\ d.rowgroups_avail = m.rowgroups_avail
      /\ d.workspace = [c \in Component |->
                          [k \in DOMAIN m.workspace[c] |-> filled(c, k)]]
      /\ d = [buffer_full |-> d.buffer_full, rowgroup_ctr |-> d.rowgroup_ctr,
              rowgroups_avail |-> d.rowgroups_avail, whichptr |-> d.whichptr,
              context_state |-> d.context_state, iMCU_row_ctr |-> d.iMCU_row_ctr,
              xbuffer |-> d.xbuffer, workspace |-> d.workspace]
  BY <1>1 DEF MainShape
<1>3. \A c \in Component : DOMAIN d.workspace[c] = DOMAIN m.workspace[c]
  BY <1>2
<1>4. \A c \in Component : \A k \in DOMAIN m.workspace[c] :
        d.workspace[c][k] = filled(c, k)
  BY <1>2
<1>5. MainShape(d) /\ Pointers(d)
  <2>1. d.buffer_full \in BOOLEAN
    BY <1>2
  <2>2. d.iMCU_row_ctr \in Nat
    <3>1. d.iMCU_row_ctr = m.iMCU_row_ctr + 1
      BY <1>2
    <3> QED BY <3>1
  <2>3. MainShape(d)
    BY <2>1, <2>2, <1>2, <1>3 DEF MainShape
  <2>4. Pointers(d)
    BY <1>2 DEF Pointers
  <2> QED BY <2>3, <2>4
<1>6. ASSUME NEW c \in Component
      PROVE  /\ DOMAIN m.workspace[c] =
                  IF Context THEN 0 .. (R(c) * (M + 2)) - 1 ELSE 0 .. (R(c) * M) - 1
             /\ R(c) * M \in Nat /\ R(c) \in Nat \ {0}
             /\ R(c) * (M + 2) = (R(c) * M) + (2 * R(c))
  <2>1. Context => DOMAIN m.workspace[c] = 0 .. (R(c) * (M + 2)) - 1
    BY DEF MainShape
  <2>2. ~Context => DOMAIN m.workspace[c] = 0 .. (R(c) * M) - 1
    BY DEF MainShape
  <2> QED BY <2>1, <2>2, ListSizes
<1>7. ASSUME NEW c \in Component, NEW k \in 0 .. (R(c) * (M + 2)) - 1
      PROVE  At(c, Base(w, c, k)) = IF k < R(c) * M THEN {k} ELSE {}
  <2> DEFINE b == R(c) * M
             e == R(c) * (M + 2)
  <2>1. b \in Nat /\ b <= e /\ e \in Nat
    BY <1>6
  <2>2. \A j \in 0 .. e - 1 : m.xbuffer[m.whichptr][c][j] = Base(w, c, j)
    BY PointersAt
  <2>3. w \in {0, 1} /\ (Context \/ w = 0)
    BY DEF Pointers
  <2>4. \A j, l \in 0 .. e - 1 : Base(w, c, j) = Base(w, c, l) => j = l
    BY <2>3, BaseBijective
  <2>5. At(c, Base(w, c, k)) =
          {j \in 0 .. b - 1 : m.xbuffer[m.whichptr][c][j] = Base(w, c, k)}
    OBVIOUS
  <2> HIDE DEF w, b, e, At
  <2>6. \A j \in 0 .. b - 1 : m.xbuffer[m.whichptr][c][j] = Base(w, c, k) <=> j = k
    <3>1. k \in 0 .. e - 1
      BY DEF e
    <3>2. \A j \in 0 .. b - 1 : j \in 0 .. e - 1
      BY <2>1
    <3> QED BY <3>1, <3>2, <2>2, <2>4
  <2>7. k \in Nat /\ k < b <=> k \in 0 .. b - 1
    BY <2>1
  <2> QED BY <2>5, <2>6, <2>7 DEF b
<1>8. Holds(d, w, I0)
  <2> SUFFICES ASSUME NEW c \in Component, NEW k \in 0 .. (R(c) * M) - 1
               PROVE  d.workspace[c][Base(w, c, k)] = Content(c, I0 * (R(c) * M) + k)
    BY DEF Holds
  <2> DEFINE b == R(c) * M
             e == R(c) * (M + 2)
  <2>1. k \in 0 .. e - 1 /\ k < b
    BY <1>6
  <2>2. Base(w, c, k) \in DOMAIN m.workspace[c]
    <3>1. CASE Context
      <4>1. Base(w, c, k) \in 0 .. e - 1
        BY <2>1, <3>1, BaseBijective DEF Pointers
      <4> QED BY <4>1, <3>1, <1>6
    <3>2. CASE ~Context
      <4>1. Base(w, c, k) = k
        BY <3>2 DEF Base, Pointers
      <4> QED BY <4>1, <3>2, <1>6
    <3> QED BY <3>1, <3>2
  <2>3. At(c, Base(w, c, k)) = {k}
    BY <2>1, <1>7
  <2>4. (CHOOSE j \in At(c, Base(w, c, k)) : TRUE) = k
    <3> HIDE DEF At
    <3> QED BY <2>3
  <2>5. row(c, Base(w, c, k)) = I0 * (R(c) * M) + k
    <3>1. I0 * R(c) * M = I0 * (R(c) * M)
      <4>1. I0 \in Int /\ R(c) \in Int /\ M \in Int
        BY DEF Sizes
      <4> HIDE DEF I0
      <4> QED BY <4>1, Associates
    <3> QED BY <2>4, <3>1
  <2>6. filled(c, Base(w, c, k)) = Content(c, I0 * (R(c) * M) + k)
    <3> HIDE DEF At, row
    <3> QED BY <2>3, <2>5 DEF filled, Content
  <2> QED BY <2>2, <2>6, <1>4
<1>9. ASSUME NEW I \in Nat, Context, Keeps(m, w, I) PROVE Keeps(d, w, I)
  <2> SUFFICES ASSUME NEW c \in Component,
                      NEW k \in R(c) * (M - 2) .. (R(c) * M) - 1
               PROVE  d.workspace[c][Base(w, c, k + 2 * R(c))]
                        = Content(c, I * (R(c) * M) + k)
    BY DEF Keeps
  <2> DEFINE b == R(c) * M
             e == R(c) * (M + 2)
             s == R(c) * (M - 2)
             l == k + 2 * R(c)
  <2>1. l \in 0 .. e - 1 /\ ~(l < b)
    <3>1. s = b - 2 * R(c) /\ e = b + 2 * R(c) /\ 2 * R(c) <= b /\ R(c) \in Nat /\ b \in Nat
      BY <1>9, ListSizes
    <3> HIDE DEF s, b, e
    <3> QED BY <3>1 DEF s, b
  <2>2. Base(w, c, l) \in DOMAIN m.workspace[c]
    <3>1. Base(w, c, l) \in 0 .. e - 1
      BY <2>1, <1>9, BaseBijective DEF Pointers
    <3> QED BY <3>1, <1>9, <1>6
  <2>3. At(c, Base(w, c, l)) = {}
    BY <2>1, <1>7
  <2>4. filled(c, Base(w, c, l)) = m.workspace[c][Base(w, c, l)]
    <3> HIDE DEF At, row
    <3> QED BY <2>3 DEF filled
  <2>5. d.workspace[c][Base(w, c, l)] = m.workspace[c][Base(w, c, l)]
    BY <2>2, <2>4, <1>4
  <2> QED BY <2>5, <1>9 DEF Keeps
<1> QED BY <1>2, <1>5, <1>8, <1>9

-----------------------------------------------------------------------------
(* The row groups that the upsampler is given.                              *)

(* Without context rows, every row group of the iMCU row in the buffer.     *)
LEMMA ProvidesPlain ==
  ASSUME Sizes, ~Context, NEW m, m.whichptr = 0, m.xbuffer = Fresh,
         NEW I \in Nat, Holds(m, 0, I), NEW g \in 0 .. M - 1
  PROVE  Provides(m, g, (I * M) + g)
<1> SUFFICES ASSUME NEW c \in Component, NEW j \in 0 .. R(c) - 1,
                    ((I * M) + g) * R(c) + j < DownsampledHeight(c)
             PROVE  Behind(m, 0, c, g * R(c) + j) = Clamped(c, ((I * M) + g) * R(c) + j)
  BY DEF Provides, Around, Needed
<1> DEFINE r == R(c)
           b == r * M
           e == r * (M + 2)
           i == I * b
           n == g * r
           k == n + j
<1>1. r \in Nat \ {0} /\ b \in Nat /\ b <= e /\ e \in Nat /\ DownsampledHeight(c) \in Nat
  BY ListSizes, Downsampled
<1>2. /\ ((I * M) + g) * r = i + n /\ i \in Nat /\ n \in Nat
      /\ n + r <= b
  <2>1. g \in Nat /\ g < M
    BY DEF Sizes
  <2> QED BY <2>1, GroupAt
<1>3. k \in 0 .. b - 1 /\ k \in 0 .. e - 1 /\ ((I * M) + g) * r + j = i + k /\ i + k \in Nat
  <2> HIDE DEF r, b, e, i, n
  <2> QED BY <1>1, <1>2 DEF r
<1>4. Base(0, c, k) = k
  BY DEF Base
<1>5. Behind(m, 0, c, k) = m.workspace[c][k]
  <2>1. Fresh[0][c][k] = k
    BY <1>3, <1>4, FreshAt
  <2> QED BY <2>1, <1>3 DEF Behind, Unset
<1>6. m.workspace[c][k] = Content(c, i + k)
  BY <1>3, <1>4 DEF Holds
<1>7. i + k < DownsampledHeight(c)
  BY <1>3
<1>8. Behind(m, 0, c, k) = Clamped(c, i + k)
  <2> HIDE DEF r, b, e, i, n, k
  <2> QED BY <1>1, <1>2, <1>3, <1>5, <1>6, <1>7 DEF Content, Clamped
<1> QED BY <1>3, <1>8

(* With them, the list in use shows the iMCU row, and above it the last row *)
(* of the one before.                                                       *)
LEMMA WindowOnIMcuRow ==
  ASSUME Sizes, Context, NEW m, NEW w \in {0, 1}, NEW I \in Nat, Holds(m, w, I),
         IF I = 0 THEN m.xbuffer = Fresh /\ w = 0
         ELSE m.xbuffer = Wrapped /\ Keeps(m, w, I - 1),
         NEW c \in Component, NEW k \in -1 .. (R(c) * M) - 1,
         I * (R(c) * M) + k < DownsampledHeight(c)
  PROVE  Behind(m, w, c, k) = Clamped(c, I * (R(c) * M) + k)
<1> DEFINE r == R(c)
           b == r * M
           e == r * (M + 2)
           i == I * b
           D == DownsampledHeight(c)
<1>1. /\ r \in Nat \ {0} /\ b \in Nat /\ e = b + 2 * r /\ r <= b
      /\ r * (M - 2) = b - 2 * r /\ D \in Nat \ {0}
  BY ListSizes, Downsampled
<1>2. i \in Nat /\ (I = 0 => i = 0)
  <2> HIDE DEF b
  <2> QED BY <1>1
<1>3. CASE k >= 0
  <2>1. k \in 0 .. b - 1 /\ k \in 0 .. e - 1
    <3> HIDE DEF r, e, b
    <3> QED BY <1>1, <1>3 DEF b, r
  <2>2. m.xbuffer[w][c][k] = Base(w, c, k)
    BY <2>1, FreshAt, WrappedAt
  <2>3. Base(w, c, k) # Unset
    <3>1. Base(w, c, k) \in 0 .. e - 1
      BY <2>1, BaseBijective
    <3> HIDE DEF e
    <3> QED BY <3>1 DEF Unset
  <2>4. Behind(m, w, c, k) = Content(c, i + k)
    <3>1. m.workspace[c][Base(w, c, k)] = Content(c, i + k)
      BY <2>1 DEF Holds
    <3> QED BY <2>2, <2>3, <3>1 DEF Behind
  <2>5. i + k < D
    OBVIOUS
  <2>6. Behind(m, w, c, k) = Clamped(c, i + k)
    <3> HIDE DEF r, b, e, i, D
    <3> QED BY <2>1, <2>4, <2>5, <1>1, <1>2 DEF Content, Clamped, D
  <2> QED BY <2>6
<1>4. CASE k = -1 /\ I = 0
  <2>1. Fresh[0][c][-1] = 0
    <3>1. -1 \in 0 - r .. -1
      BY <1>1
    <3> QED BY <3>1, FreshAt
  <2>2. Behind(m, w, c, k) = m.workspace[c][0]
    BY <2>1, <1>4 DEF Behind, Unset
  <2>3. Base(w, c, 0) = 0 /\ 0 \in 0 .. b - 1
    <3> HIDE DEF b
    <3> QED BY <1>1, <1>4 DEF Base, b
  <2>4. m.workspace[c][0] = Content(c, i + 0)
    BY <2>3 DEF Holds
  <2>5. Clamped(c, i + k) = 0 /\ Content(c, i + 0) = 0
    <3> HIDE DEF i, D
    <3> QED BY <1>1, <1>2, <1>4 DEF Clamped, Content, D
  <2> QED BY <2>2, <2>4, <2>5
<1>5. CASE k = -1 /\ I > 0
  <2> DEFINE l == b - 1
             i1 == (I - 1) * b
  <2>1. m.xbuffer[w][c][-1] = Base(w, c, e - 1)
    <3>1. -1 \in 0 - r .. -1 /\ (-1) + e = e - 1
      <4> HIDE DEF e
      <4> QED BY <1>1
    <3> HIDE DEF r
    <3> QED BY <3>1, <1>5, WrappedAt DEF r
  <2>2. Base(w, c, e - 1) # Unset
    <3>1. e - 1 \in 0 .. e - 1 /\ e \in Nat
      <4> HIDE DEF e, b
      <4> QED BY <1>1
    <3>2. Base(w, c, e - 1) \in 0 .. e - 1
      BY <3>1, BaseBijective
    <3> HIDE DEF e
    <3> QED BY <3>1, <3>2 DEF Unset
  <2>3. l \in r * (M - 2) .. b - 1 /\ l + 2 * r = e - 1
    <3> HIDE DEF r, e, b
    <3> QED BY <1>1, <1>5
  <2>4. m.workspace[c][Base(w, c, e - 1)] = Content(c, i1 + l)
    <3>1. Keeps(m, w, I - 1)
      BY <1>5
    <3> QED BY <2>3, <3>1 DEF Keeps
  <2>5. i1 + l = i - 1
    <3> HIDE DEF b
    <3>1. (I - 1) * b = (I * b) - b
      BY <1>1, Distributes
    <3> QED BY <3>1, <1>1
  <2>6. i > 0
    <3> HIDE DEF b
    <3>1. 1 * b <= I * b
      BY <1>1, <1>5, TimesMonotonic
    <3> QED BY <3>1, <1>1
  <2>7. Behind(m, w, c, k) = Content(c, i - 1)
    BY <2>1, <2>2, <2>4, <2>5, <1>5 DEF Behind
  <2> HIDE DEF i, D
  <2> QED BY <2>6, <2>7, <1>1, <1>2, <1>5 DEF Content, Clamped, D, i
<1>6. k = -1 \/ k >= 0
  <2> HIDE DEF b
  <2> QED BY <1>1 DEF b
<1> QED BY <1>3, <1>4, <1>5, <1>6

(* Every row group but the last of an iMCU row that is not the last.        *)
LEMMA ProvidesIMcuRow ==
  ASSUME Sizes, Context, NEW m, NEW w, w = m.whichptr, w \in {0, 1},
         NEW I \in Nat, Holds(m, w, I),
         IF I = 0 THEN m.xbuffer = Fresh /\ w = 0
         ELSE m.xbuffer = Wrapped /\ Keeps(m, w, I - 1),
         I + 1 < TotalIMcuRows, NEW g \in 0 .. M - 2
  PROVE  Provides(m, g, (I * M) + g)
<1> SUFFICES ASSUME NEW c \in Component, NEW j \in -1 .. R(c)
             PROVE  Behind(m, w, c, g * R(c) + j) = Clamped(c, ((I * M) + g) * R(c) + j)
  BY DEF Provides, Around
<1> DEFINE r == R(c)
           b == r * M
           i == I * b
           n == g * r
           k == n + j
           D == DownsampledHeight(c)
<1>1. r \in Nat \ {0} /\ b \in Nat /\ D \in Nat /\ M \in Nat
  BY ListSizes, Downsampled
<1>2. g \in Nat /\ g + 1 < M
  BY <1>1
<1>3. ((I * M) + g) * r = i + n /\ i \in Nat /\ n \in Nat /\ n + 2 * r <= b
  BY <1>2, GroupAt
<1>4. i + b < D
  <2>1. ((I + 1) * M) * MaxV < Height /\ (I + 1) * M \in Nat
    BY <1>1, IMcuRows
  <2>2. ((I + 1) * M) * r < D
    BY <2>1, GroupsBelow
  <2>3. ((I + 1) * M) * r = (I + 1) * b
    BY <1>1, Associates
  <2> HIDE DEF b
  <2>4. (I + 1) * b = i + b
    BY <1>1, Distributes
  <2> QED BY <2>2, <2>3, <2>4
<1>5. k \in -1 .. b - 1 /\ i + k < D /\ ((I * M) + g) * r + j = i + k
  <2> HIDE DEF r, b, i, n, D
  <2> QED BY <1>1, <1>3, <1>4 DEF r
<1>6. Behind(m, w, c, k) = Clamped(c, i + k)
  BY <1>5, WindowOnIMcuRow
<1> QED BY <1>5, <1>6

(* Every row group of the last one, once its bottom is set.                 *)
LEMMA ProvidesLastIMcuRow ==
  ASSUME Sizes, Context, NEW m, NEW w, w = m.whichptr, w \in {0, 1},
         NEW I \in Nat, Last(I), Holds(m, w, I),
         IF I = 0 THEN m.xbuffer = Fresh /\ w = 0
         ELSE m.xbuffer = Wrapped /\ Keeps(m, w, I - 1),
         NEW n, n.whichptr = w, n.workspace = m.workspace,
         n.xbuffer = set_bottom_pointers(m.xbuffer, w),
         NEW g \in 0 .. NondummyRowGroups - 1
  PROVE  Provides(n, g, (I * M) + g)
<1> SUFFICES ASSUME NEW c \in Component, NEW j \in -1 .. R(c),
                    ((I * M) + g) * R(c) + j <= DownsampledHeight(c)
             PROVE  Behind(n, w, c, g * R(c) + j) = Clamped(c, ((I * M) + g) * R(c) + j)
  BY DEF Provides, Around, Needed
<1> DEFINE r == R(c)
           b == r * M
           f == r * (M + 3)
           i == I * b
           q == g * r
           k == q + j
           D == DownsampledHeight(c)
           left == RowsLeft(c)
<1>1. r \in Nat \ {0} /\ b \in Nat /\ f = b + 3 * r /\ D \in Nat \ {0} /\ M \in Nat
  BY ListSizes, Downsampled
<1>2. g \in Nat /\ g < M /\ NondummyRowGroups \in 1 .. M
  BY <1>1, LastRowGroups
<1>3. ((I * M) + g) * r = i + q /\ i \in Nat /\ q \in Nat /\ q + r <= b
  BY <1>2, GroupAt
<1>4. left \in 1 .. b /\ D = i + left
  BY LastIMcuRow
<1>5. /\ ((I * M) + g) * r + j = i + k /\ k \in -1 .. b /\ k <= left
      /\ k \in 0 - r .. f - 1 /\ left - 1 \in 0 - r .. f - 1
  <2> HIDE DEF r, b, f, i, q, D, left
  <2> QED BY <1>1, <1>3, <1>4 DEF r, D
<1>6. n.xbuffer[w][c][k] = IF k = left THEN m.xbuffer[w][c][left - 1]
                           ELSE m.xbuffer[w][c][k]
  <2>1. m.xbuffer = Fresh \/ m.xbuffer = Wrapped
    OBVIOUS
  <2>2. w \in DOMAIN m.xbuffer
    BY <2>1 DEF Fresh, Wrapped, make_funny_pointers, set_wraparound_pointers
  <2>3. n.xbuffer[w] = [d \in Component |-> [l \in ListIndex(d) |->
           IF l \in RowsLeft(d) .. (RowsLeft(d) + (2 * R(d))) - 1
           THEN m.xbuffer[w][d][RowsLeft(d) - 1] ELSE m.xbuffer[w][d][l]]]
    BY <2>2 DEF set_bottom_pointers
  <2>4. n.xbuffer[w][c] = [l \in ListIndex(c) |->
           IF l \in left .. (left + (2 * r)) - 1
           THEN m.xbuffer[w][c][left - 1] ELSE m.xbuffer[w][c][l]]
    BY <2>3
  <2>5. k \in ListIndex(c)
    BY <1>5 DEF ListIndex
  <2> HIDE DEF left, r, b, k
  <2>6. k \in left .. (left + (2 * r)) - 1 <=> k = left
    BY <1>1, <1>4, <1>5
  <2> QED BY <2>4, <2>5, <2>6
<1>7. Behind(n, w, c, k) = Behind(m, w, c, IF k = left THEN left - 1 ELSE k)
  BY <1>6 DEF Behind
<1>8. CASE k = left
  <2>1. left - 1 \in -1 .. b - 1 /\ i + (left - 1) < D
    <3> HIDE DEF r, b, f, i, q, k, left, D
    <3> QED BY <1>1, <1>3, <1>4
  <2>2. Behind(m, w, c, left - 1) = Clamped(c, i + (left - 1))
    BY <2>1, WindowOnIMcuRow
  <2>3. Clamped(c, i + (left - 1)) = Clamped(c, i + k)
    <3> HIDE DEF left, b, i, D, k
    <3> QED BY <1>1, <1>3, <1>4, <1>8 DEF Clamped, D
  <2> QED BY <2>2, <2>3, <1>5, <1>7, <1>8
<1>9. CASE k # left
  <2>1. k \in -1 .. b - 1 /\ i + k < D
    <3> HIDE DEF left, b, i, D, k
    <3> QED BY <1>1, <1>3, <1>4, <1>5, <1>9
  <2>2. Behind(m, w, c, k) = Clamped(c, i + k)
    BY <2>1, WindowOnIMcuRow
  <2> QED BY <2>2, <1>5, <1>7, <1>9
<1> QED BY <1>8, <1>9

(* And the last row group of an iMCU row, when the next one has come.       *)
LEMMA ProvidesPostponed ==
  ASSUME Sizes, Context, NEW m, NEW w, w = m.whichptr, w \in {0, 1},
         NEW I \in Nat, I + 1 < TotalIMcuRows, m.xbuffer = Wrapped,
         Keeps(m, w, I), Holds(m, w, I + 1)
  PROVE  Provides(m, M + 1, (I * M) + (M - 1))
<1> SUFFICES ASSUME NEW c \in Component, NEW j \in -1 .. R(c)
             PROVE  Behind(m, w, c, (M + 1) * R(c) + j)
                      = Clamped(c, ((I * M) + (M - 1)) * R(c) + j)
  BY DEF Provides, Around
<1> DEFINE r == R(c)
           b == r * M
           e == r * (M + 2)
           f == r * (M + 3)
           i == I * b
           k == (M + 1) * r + j
           D == DownsampledHeight(c)
<1>1. /\ r \in Nat \ {0} /\ b \in Nat /\ e = b + 2 * r /\ f = b + 3 * r
      /\ 2 * r <= b /\ r * (M - 2) = b - 2 * r /\ D \in Nat /\ M \in Nat
  BY ListSizes, Downsampled
<1>2. (M + 1) * r = b + r /\ (M - 1) * r = b - r
  <2>1. M * r = b
    BY <1>1
  <2> QED BY <2>1, <1>1, Distributes
<1>3. ((I * M) + (M - 1)) * r = i + (b - r) /\ i \in Nat
  <2>1. M - 1 \in Nat
    BY DEF Sizes
  <2> QED BY <2>1, <1>2, GroupAt
<1>4. i + b < D
  <2>1. ((I + 1) * M) * MaxV < Height /\ (I + 1) * M \in Nat
    BY <1>1, IMcuRows
  <2>2. ((I + 1) * M) * r < D
    BY <2>1, GroupsBelow
  <2>3. ((I + 1) * M) * r = (I + 1) * b
    BY <1>1, Associates
  <2> HIDE DEF b
  <2>4. (I + 1) * b = i + b
    BY <1>1, Distributes
  <2> QED BY <2>2, <2>3, <2>4
<1>5. /\ k = b + r + j /\ ((I * M) + (M - 1)) * r + j = i + (b - r) + j
      /\ k \in 0 .. f - 1
  <2> HIDE DEF r, b, i, f
  <2> QED BY <1>1, <1>2, <1>3 DEF r
<1>6. Clamped(c, i + (b - r) + j) = i + (b - r) + j
  <2> HIDE DEF r, b, i, D
  <2> QED BY <1>1, <1>3, <1>4 DEF Clamped, D, r
<1>7. CASE j < r
  <2> DEFINE l == (b - r) + j
  <2>1. k \in 0 .. e - 1 /\ l \in r * (M - 2) .. b - 1 /\ l + 2 * r = k
    <3> HIDE DEF r, b, e, k
    <3> QED BY <1>1, <1>5, <1>7 DEF r
  <2>2. m.xbuffer[w][c][k] = Base(w, c, k)
    BY <2>1, WrappedAt
  <2>3. Base(w, c, k) # Unset
    <3>1. Base(w, c, k) \in 0 .. e - 1
      BY <2>1, BaseBijective
    <3> HIDE DEF e
    <3> QED BY <3>1 DEF Unset
  <2>4. m.workspace[c][Base(w, c, l + 2 * r)] = Content(c, i + l)
    BY <2>1 DEF Keeps
  <2>5. Behind(m, w, c, k) = Content(c, i + l)
    <3> HIDE DEF l
    <3> QED BY <2>1, <2>2, <2>3, <2>4 DEF Behind
  <2>6. Content(c, i + l) = i + (b - r) + j
    <3> HIDE DEF r, b, i, D
    <3> QED BY <1>1, <1>3, <1>4, <1>7 DEF Content, D, r
  <2> QED BY <2>5, <2>6, <1>5, <1>6
<1>8. CASE j = r
  <2>1. k = e /\ k \in e .. f - 1 /\ k - e = 0 /\ 0 \in 0 .. e - 1 /\ 0 \in 0 .. b - 1
    <3> HIDE DEF r, b, e, f, k
    <3> QED BY <1>1, <1>5, <1>8
  <2>2. m.xbuffer[w][c][k] = Base(w, c, 0)
    <3> HIDE DEF k
    <3> QED BY <2>1, WrappedAt
  <2>3. Base(w, c, 0) # Unset
    <3>1. Base(w, c, 0) \in 0 .. e - 1
      BY <2>1, BaseBijective
    <3> HIDE DEF e
    <3> QED BY <3>1 DEF Unset
  <2>4. m.workspace[c][Base(w, c, 0)] = Content(c, (I + 1) * b + 0)
    BY <2>1 DEF Holds
  <2>5. (I + 1) * b + 0 = i + b
    <3> HIDE DEF b
    <3> QED BY <1>1, Distributes
  <2>6. Behind(m, w, c, k) = Content(c, i + b)
    <3> HIDE DEF k
    <3> QED BY <2>2, <2>3, <2>4, <2>5 DEF Behind
  <2>7. Content(c, i + b) = i + (b - r) + j
    <3> HIDE DEF r, b, i, D
    <3> QED BY <1>1, <1>3, <1>4, <1>8 DEF Content, D
  <2> QED BY <2>6, <2>7, <1>5, <1>6
<1>9. j < r \/ j = r
  BY <1>1
<1> QED BY <1>7, <1>8, <1>9

-----------------------------------------------------------------------------
(* The upsamplers                                                           *)

LEMMA RowsOf ==
  ASSUME NEW n \in Nat, NEW s, s = [k \in 1 .. n |-> s[k]]
  PROVE  IsRows(s) /\ Len(s) = n
<1> DEFINE S == {s[k] : k \in 1 .. n}
<1>1. s \in [1 .. n -> S]
  <2>1. \A k \in 1 .. n : s[k] \in S
    OBVIOUS
  <2> HIDE DEF S
  <2> QED BY <2>1
<1> HIDE DEF S
<1>2. s \in Seq(S)
  BY <1>1
<1>3. Len(s) = n
  BY <1>1, <1>2
<1> QED BY <1>3 DEF IsRows

(* What an upsampler that has room for some rows does with a row group.     *)
Upsamples(up, m, group, y, G, room) ==
  LET n == Len(up.rows)
  IN  /\ n \in Nat \ {0} /\ n <= room /\ y + n <= Height /\ y + n <= (G + 1) * MaxV
      /\ IsRows(up.rows) /\ UpsShape(up.ups)
      /\ \A k \in 1 .. n : InPlace(up.rows[k], y + (k - 1))
      /\ y + n < Height =>
           \/ up.ctr = group + 1 /\ Begins(up.ups, y + n, G + 1)
           \/ up.ctr = group /\ Within(m, up.ups, group, y + n, G)

LEMMA GroupRowsInPlace ==
  ASSUME Sizes, NEW m, NEW group \in Nat, NEW G \in Nat, Provides(m, group, G),
         NEW n \in 0 .. MaxV - 1, (G * MaxV) + n < Height, NEW c \in Component,
         NEW at, at = (n * R(c)) \div MaxV
  PROVE  /\ at \in 0 .. R(c) - 1
         /\ R(c) = MaxV => at = n
         /\ Behind(m, m.whichptr, c, (group * R(c)) + at) = SourceRow(c, (G * MaxV) + n)
         /\ GroupRows(m, m.whichptr, c, group)[at] = SourceRow(c, (G * MaxV) + n)
         /\ Context => \A d \in {-1, 1} :
              GroupRows(m, m.whichptr, c, group)[at + d]
                = Clamped(c, SourceRow(c, (G * MaxV) + n) + d)
<1> DEFINE r == R(c)
           y == (G * MaxV) + n
           D == DownsampledHeight(c)
           g == group * r
           i == G * r
           s == SourceRow(c, y)
<1>1. /\ at \in 0 .. r - 1 /\ s = i + at /\ (r = MaxV => at = n)
      /\ r \in Nat \ {0} /\ MaxV \in Nat \ {0} /\ Height \in Nat
  BY SourceRowInGroup, ListSizes DEF Sizes
<1>2. D \in Nat \ {0} /\ y \in Nat /\ y < Height /\ g \in Nat /\ i \in Nat
  BY <1>1, Downsampled
<1>3. s \in 0 .. D - 1
  <2> HIDE DEF y, g, i
  <2>1. y \in Nat /\ y < Height
    BY <1>2
  <2>2. SourceRow(c, y) \in 0 .. DownsampledHeight(c) - 1
    BY <2>1, SourceRowExists
  <2> QED BY <2>2
<1>4. \A j \in Around(c) : Needed(c, i + j) =>
        Behind(m, m.whichptr, c, g + j) = Clamped(c, i + j)
  BY DEF Provides
<1>5. GroupRows(m, m.whichptr, c, group) =
        [k \in IF Context THEN 0 - r .. (2 * r) - 1 ELSE 0 .. r - 1 |->
           Behind(m, m.whichptr, c, g + k)]
  BY DEF GroupRows
<1> DEFINE around == IF Context THEN -1 .. r ELSE 0 .. r - 1
           needed(k) == IF Context THEN k <= D ELSE k < D
<1>6. Around(c) = around /\ (\A k : Needed(c, k) <=> needed(k))
  BY DEF Around, Needed
<1> HIDE DEF r, y, D, g, i, s
<1>7. Behind(m, m.whichptr, c, g + at) = s
  <2>1. at \in around /\ needed(i + at)
    BY <1>1, <1>2, <1>3
  <2>2. Clamped(c, i + at) = s
    BY <1>1, <1>2, <1>3 DEF Clamped, D
  <2>3. at \in Around(c) /\ Needed(c, i + at)
    BY <2>1, <1>6
  <2> QED BY <2>2, <2>3, <1>4
<1>8. GroupRows(m, m.whichptr, c, group)[at] = s
  <2>1. at \in IF Context THEN 0 - r .. (2 * r) - 1 ELSE 0 .. r - 1
    BY <1>1
  <2> QED BY <2>1, <1>5, <1>7
<1>9. ASSUME Context, NEW d \in {-1, 1}
      PROVE  GroupRows(m, m.whichptr, c, group)[at + d] = Clamped(c, s + d)
  <2>1. at + d \in Around(c) /\ Needed(c, i + (at + d))
    <3>1. at + d \in around /\ needed(i + (at + d))
      BY <1>9, <1>1, <1>2, <1>3
    <3> QED BY <3>1, <1>6
  <2>2. Behind(m, m.whichptr, c, g + (at + d)) = Clamped(c, s + d)
    <3>1. i + (at + d) = s + d
      BY <1>1, <1>2
    <3> QED BY <2>1, <3>1, <1>4
  <2>3. at + d \in 0 - r .. (2 * r) - 1
    BY <1>1
  <2> QED BY <2>2, <2>3, <1>5, <1>9
<1> QED BY <1>1, <1>7, <1>8, <1>9 DEF r, g, s, y

LEMMA ConvertedInPlace ==
  ASSUME Sizes, NEW m, NEW group \in Nat, NEW G \in Nat, Provides(m, group, G),
         NEW n \in 0 .. MaxV - 1, (G * MaxV) + n < Height
  PROVE  InPlace(Converted(m, Upsampled(m, group), n), (G * MaxV) + n)
<1> SUFFICES ASSUME NEW c \in Component
             PROVE  LET row == Converted(m, Upsampled(m, group), n)[c]
                        s == SourceRow(c, (G * MaxV) + n)
                    IN  /\ row.at \in Nat /\ row.of[row.at] = s
                        /\ Context /\ R(c) < MaxV => \A d \in {-1, 1} :
                             row.of[row.at + d] = Clamped(c, s + d)
  BY Zenon DEF InPlace
<1> DEFINE row == Converted(m, Upsampled(m, group), n)[c]
           s == SourceRow(c, (G * MaxV) + n)
           at == (n * R(c)) \div MaxV
           w == m.whichptr
           cb == Upsampled(m, group)
           conv(x) ==
             [at |-> (n * R(x)) \div MaxV,
              of |-> IF cb[x].pointer
                     THEN [j \in 0 .. R(x) - 1 |->
                             Behind(m, cb[x].list, x, (cb[x].group * R(x)) + j)]
                     ELSE cb[x].rows]
<1>1. at = (n * R(c)) \div MaxV
  OBVIOUS
<1>2. row = conv(c)
  <2>1. Converted(m, cb, n) = [x \in Component |-> conv(x)]
    <3> HIDE DEF cb
    <3> QED BY DEF Converted
  <2> HIDE DEF conv
  <2> QED BY <2>1
<1> HIDE DEF at
<1>3. /\ at \in 0 .. R(c) - 1
      /\ Behind(m, w, c, (group * R(c)) + at) = s
      /\ GroupRows(m, w, c, group)[at] = s
      /\ Context => \A d \in {-1, 1} :
           GroupRows(m, w, c, group)[at + d] = Clamped(c, s + d)
  BY <1>1, GroupRowsInPlace
<1>4. at \in Nat
  BY <1>3 DEF Sizes
<1>5. CASE R(c) = MaxV
  <2>1. cb[c].pointer = TRUE /\ cb[c].list = w /\ cb[c].group = group
    BY <1>5 DEF Upsampled
  <2> HIDE DEF row, s, cb
  <2>2. row.at = at /\ row.of[row.at] = s
    BY <2>1, <1>1, <1>2, <1>3
  <2>3. ~(R(c) < MaxV)
    BY <1>5 DEF Sizes
  <2> QED BY <2>2, <2>3, <1>4 DEF row, s, cb
<1>6. CASE R(c) # MaxV
  <2>1. cb[c].pointer = FALSE /\ cb[c].rows = GroupRows(m, w, c, group)
    BY <1>6 DEF Upsampled
  <2> HIDE DEF row, s, cb
  <2>2. row.at = at /\ row.of = GroupRows(m, w, c, group)
    BY <2>1, <1>1, <1>2
  <2> QED BY <2>2, <1>3, <1>4 DEF row, s, cb
<1> QED BY <1>5, <1>6

(* A window that stays the same.                                            *)
LEMMA SameWindow ==
  ASSUME NEW m, NEW n, n.whichptr = m.whichptr, n.xbuffer = m.xbuffer,
         n.workspace = m.workspace
  PROVE  /\ \A w, c, k : Behind(n, w, c, k) = Behind(m, w, c, k)
         /\ \A group, G : Provides(m, group, G) <=> Provides(n, group, G)
         /\ \A group : Upsampled(n, group) = Upsampled(m, group)
         /\ \A u, group, y, G : Within(n, u, group, y, G) <=> Within(m, u, group, y, G)
         /\ \A w, I : Holds(m, w, I) <=> Holds(n, w, I)
         /\ \A w, I : Keeps(m, w, I) <=> Keeps(n, w, I)
<1>1. \A w, c, k : Behind(n, w, c, k) = Behind(m, w, c, k)
  BY DEF Behind
<1>2. \A group, G : Provides(m, group, G) <=> Provides(n, group, G)
  <2>1. \A c, k : Behind(n, n.whichptr, c, k) = Behind(m, m.whichptr, c, k)
    BY <1>1
  <2> QED BY <2>1 DEF Provides
<1>3. \A w, c, group : GroupRows(n, w, c, group) = GroupRows(m, w, c, group)
  BY <1>1 DEF GroupRows
<1>4. \A group : Upsampled(n, group) = Upsampled(m, group)
  BY <1>3 DEF Upsampled
<1>5. \A u, group, y, G : Within(n, u, group, y, G) <=> Within(m, u, group, y, G)
  BY <1>4, ZenonT(30) DEF Within
<1>6. \A w, I : Holds(m, w, I) <=> Holds(n, w, I)
  BY Zenon DEF Holds
<1>7. \A w, I : Keeps(m, w, I) <=> Keeps(n, w, I)
  BY Zenon DEF Keeps
<1> QED BY <1>1, <1>2, <1>4, <1>5, <1>6, <1>7

(* The fields an upsampler sets.                                            *)
LEMMA SetsFilled ==
  ASSUME NEW u, UpsShape(u), NEW f, NEW n, NEW v,
         v = [u EXCEPT !.color_buf = f, !.next_row_out = n]
  PROVE  v = [next_row_out |-> n, rows_to_go |-> u.rows_to_go, color_buf |-> f,
              spare_full |-> u.spare_full, spare |-> u.spare]
BY DEF UpsShape

LEMMA SetsConverted ==
  ASSUME NEW u, UpsShape(u), NEW n, NEW r, NEW v,
         v = [u EXCEPT !.next_row_out = n, !.rows_to_go = r]
  PROVE  v = [next_row_out |-> n, rows_to_go |-> r, color_buf |-> u.color_buf,
              spare_full |-> u.spare_full, spare |-> u.spare]
BY DEF UpsShape

LEMMA RowNumber ==
  ASSUME NEW v \in Nat, NEW h \in Nat, NEW g \in Nat, NEW nx \in 0 .. v - 1,
         NEW num \in Nat, nx + num <= v, NEW y, y = g + nx, y + num <= h,
         NEW k \in 1 .. num
  PROVE  /\ (nx + k) - 1 \in 0 .. v - 1 /\ g + ((nx + k) - 1) < h
         /\ g + ((nx + k) - 1) = y + (k - 1)
OBVIOUS

LEMMA ConvertedRowsBring ==
  ASSUME Sizes, ~Merged, NEW m, NEW group \in Nat, NEW G \in Nat, Provides(m, group, G),
         NEW y \in Nat, y < Height, NEW room \in Nat \ {0},
         NEW filled, UpsShape(filled), filled.color_buf = Upsampled(m, group),
         filled.next_row_out \in 0 .. MaxV - 1, filled.rows_to_go = Height - y,
         y = (G * MaxV) + filled.next_row_out,
         NEW num, num = NumRows(filled.next_row_out, filled, room),
         NEW up, up = ConvertedRows(m, filled, group, num)
  PROVE  Upsamples(up, m, group, y, G, room)
<1> DEFINE nx == filled.next_row_out
           next == nx + num
           g == G * MaxV
<1>1. /\ MaxV \in Nat \ {0} /\ Height \in Nat \ {0} /\ g \in Nat /\ nx \in 0 .. MaxV - 1
      /\ y = g + nx /\ (G + 1) * MaxV = g + MaxV
  BY DEF Sizes
<1>2. up = [ups |-> [filled EXCEPT !.next_row_out = next, !.rows_to_go = @ - num],
            ctr |-> NextRowGroup(next, group),
            rows |-> [k \in 1 .. num |->
                        Converted(m, filled.color_buf, (nx + k) - 1)]]
  BY DEF ConvertedRows
<1> HIDE DEF g
<1>3. /\ num \in Nat \ {0} /\ num <= room /\ y + num <= Height /\ next <= MaxV
      /\ next \in Nat
  BY <1>1 DEF NumRows, Lesser
<1>4. y + num <= (G + 1) * MaxV
  <2>1. next = nx + num
    OBVIOUS
  <2> HIDE DEF nx, next
  <2> QED BY <2>1, <1>1, <1>3
<1>5. /\ up.ups = [next_row_out |-> next, rows_to_go |-> Height - (y + num),
                   color_buf |-> filled.color_buf, spare_full |-> filled.spare_full,
                   spare |-> filled.spare]
      /\ up.ctr = NextRowGroup(next, group)
  <2> DEFINE r == filled.rows_to_go - num
             v == [filled EXCEPT !.next_row_out = next, !.rows_to_go = r]
  <2>1. r = Height - (y + num)
    BY <1>1, <1>3
  <2>2. up.ctr = NextRowGroup(next, group) /\ up.ups = v
    BY <1>2
  <2> HIDE DEF r, next
  <2>3. v = [next_row_out |-> next, rows_to_go |-> r, color_buf |-> filled.color_buf,
             spare_full |-> filled.spare_full, spare |-> filled.spare]
    <3>1. v = [filled EXCEPT !.next_row_out = next, !.rows_to_go = r]
      OBVIOUS
    <3> HIDE DEF v
    <3> QED BY <3>1, SetsConverted
  <2> QED BY <2>1, <2>2, <2>3
<1>6. up.rows = [k \in 1 .. num |-> Converted(m, Upsampled(m, group), (nx + k) - 1)]
  BY <1>2
<1>7. IsRows(up.rows) /\ Len(up.rows) = num
  <2> DEFINE e(k) == Converted(m, Upsampled(m, group), (nx + k) - 1)
  <2>1. up.rows = [k \in 1 .. num |-> e(k)]
    BY <1>6
  <2> HIDE DEF e
  <2>2. up.rows = [k \in 1 .. num |-> up.rows[k]]
    BY <2>1
  <2> QED BY <2>2, <1>3, RowsOf
<1>8. ASSUME NEW k \in 1 .. num PROVE InPlace(up.rows[k], y + (k - 1))
  <2>1. /\ (nx + k) - 1 \in 0 .. MaxV - 1 /\ g + ((nx + k) - 1) < Height
        /\ g + ((nx + k) - 1) = y + (k - 1)
    <3>1. next = nx + num
      OBVIOUS
    <3> HIDE DEF nx, next
    <3> QED BY <3>1, <1>1, <1>3, RowNumber
  <2>2. InPlace(Converted(m, Upsampled(m, group), (nx + k) - 1), y + (k - 1))
    <3> DEFINE n == (nx + k) - 1
    <3> HIDE DEF n
    <3>1. InPlace(Converted(m, Upsampled(m, group), n), (G * MaxV) + n)
      BY <2>1, ConvertedInPlace DEF g, n
    <3> QED BY <2>1, <3>1 DEF g, n
  <2>3. up.rows[k] = Converted(m, Upsampled(m, group), (nx + k) - 1)
    BY <1>6
  <2> QED BY <2>2, <2>3
<1>9. UpsShape(up.ups)
  BY <1>5 DEF UpsShape
<1>10. y + num < Height => \/ up.ctr = group + 1 /\ Begins(up.ups, y + num, G + 1)
                           \/ up.ctr = group /\ Within(m, up.ups, group, y + num, G)
  <2>1. CASE next = MaxV
    <3>1. up.ctr = group + 1 /\ y + num = (G + 1) * MaxV
      BY <2>1, <1>1, <1>3, <1>5 DEF NextRowGroup
    <3>2. up.ups.next_row_out = MaxV /\ up.ups.rows_to_go = Height - (y + num)
      BY <2>1, <1>5
    <3>3. Remaining(up.ups, y + num)
      BY <3>2 DEF Remaining
    <3> HIDE DEF nx, next
    <3> QED BY <3>1, <3>2, <3>3 DEF Begins
  <2>2. CASE next # MaxV
    <3>1. /\ up.ctr = group /\ y + num = (G * MaxV) + next
          /\ next \in 1 .. MaxV - 1
      <4> HIDE DEF nx
      <4>1. next < MaxV /\ next > 0
        BY <2>2, <1>1, <1>3
      <4> QED BY <4>1, <1>1, <1>3, <1>5 DEF NextRowGroup, g
    <3>2. /\ up.ups.next_row_out = next /\ up.ups.rows_to_go = Height - (y + num)
          /\ up.ups.color_buf = Upsampled(m, group)
      BY <1>5
    <3> HIDE DEF next
    <3> QED BY <3>1, <3>2 DEF Within, Remaining
  <2> QED BY <2>1, <2>2
<1> QED BY <1>3, <1>4, <1>7, <1>8, <1>9, <1>10 DEF Upsamples

LEMMA SeparateUpsamples ==
  ASSUME Sizes, ~Merged, NEW m, NEW group \in Nat, NEW G \in Nat, Provides(m, group, G),
         NEW y \in Nat, y < Height, NEW room \in Nat \ {0},
         NEW u, UpsShape(u), Stands(m, u, group, y, G),
         NEW up, up = sep_upsample(m, u, group, room)
  PROVE  Upsamples(up, m, group, y, G, room)
<1>1. MaxV \in Nat \ {0}
  BY DEF Sizes
<1>2. CASE Begins(u, y, G)
  <2>1. u.next_row_out = MaxV /\ u.rows_to_go = Height - y /\ y = G * MaxV
    BY <1>2 DEF Begins, Remaining
  <2> DEFINE filled == [u EXCEPT !.color_buf = Upsampled(m, group), !.next_row_out = 0]
             num == NumRows(0, u, room)
  <2>2. /\ UpsShape(filled) /\ filled.color_buf = Upsampled(m, group)
        /\ filled.next_row_out = 0 /\ filled.rows_to_go = Height - y
    <3>1. filled = [next_row_out |-> 0, rows_to_go |-> u.rows_to_go,
                    color_buf |-> Upsampled(m, group),
                    spare_full |-> u.spare_full, spare |-> u.spare]
      <4>1. filled = [u EXCEPT !.color_buf = Upsampled(m, group), !.next_row_out = 0]
        OBVIOUS
      <4> HIDE DEF filled
      <4> QED BY <4>1, SetsFilled
    <3> HIDE DEF filled
    <3> QED BY <3>1, <2>1 DEF UpsShape
  <2>3. num = NumRows(filled.next_row_out, filled, room)
    BY <2>1, <2>2 DEF NumRows
  <2>4. up = ConvertedRows(m, filled, group, num)
    BY <2>1, <1>1 DEF sep_upsample
  <2> HIDE DEF filled, num
  <2>5. filled.next_row_out \in 0 .. MaxV - 1 /\ y = (G * MaxV) + filled.next_row_out
    BY <2>1, <2>2, <1>1
  <2> QED BY <2>2, <2>3, <2>4, <2>5, ConvertedRowsBring
<1>3. CASE Within(m, u, group, y, G)
  <2>1. /\ u.next_row_out \in 1 .. MaxV - 1 /\ u.rows_to_go = Height - y
        /\ y = (G * MaxV) + u.next_row_out /\ u.color_buf = Upsampled(m, group)
    BY <1>3 DEF Within, Remaining
  <2>2. up = ConvertedRows(m, u, group, NumRows(u.next_row_out, u, room))
    BY <2>1, <1>1 DEF sep_upsample
  <2>3. u.next_row_out \in 0 .. MaxV - 1
    BY <2>1
  <2> QED BY <2>1, <2>2, <2>3, ConvertedRowsBring
<1> QED BY <1>2, <1>3 DEF Stands

(* The rows that merged upsampling makes of a row group.                    *)
MergedRow(m, group, n) ==
  [c \in Component |-> [at |-> (n * R(c)) \div MaxV,
                        of |-> GroupRows(m, m.whichptr, c, group)]]

LEMMA MergedInPlace ==
  ASSUME Sizes, NEW m, NEW group \in Nat, NEW G \in Nat, Provides(m, group, G),
         NEW n \in 0 .. MaxV - 1, (G * MaxV) + n < Height
  PROVE  InPlace(MergedRow(m, group, n), (G * MaxV) + n)
<1> SUFFICES ASSUME NEW c \in Component
             PROVE  LET row == MergedRow(m, group, n)[c]
                        s == SourceRow(c, (G * MaxV) + n)
                    IN  /\ row.at \in Nat /\ row.of[row.at] = s
                        /\ Context /\ R(c) < MaxV => \A d \in {-1, 1} :
                             row.of[row.at + d] = Clamped(c, s + d)
  BY Zenon DEF InPlace
<1> DEFINE row == MergedRow(m, group, n)[c]
           s == SourceRow(c, (G * MaxV) + n)
           at == (n * R(c)) \div MaxV
<1>1. row.at = at /\ row.of = GroupRows(m, m.whichptr, c, group)
  BY DEF MergedRow
<1>2. at = (n * R(c)) \div MaxV
  OBVIOUS
<1> HIDE DEF at
<1>3. /\ at \in 0 .. R(c) - 1
      /\ GroupRows(m, m.whichptr, c, group)[at] = s
      /\ Context => \A d \in {-1, 1} :
           GroupRows(m, m.whichptr, c, group)[at + d] = Clamped(c, s + d)
  BY <1>2, GroupRowsInPlace
<1>4. at \in Nat
  BY <1>3 DEF Sizes
<1> HIDE DEF row, s
<1> QED BY <1>1, <1>3, <1>4 DEF row, s

LEMMA Merged1vUpsamples ==
  ASSUME Sizes, Merged, MaxV = 1, NEW m, NEW group \in Nat, NEW G \in Nat,
         Provides(m, group, G),
         NEW y \in Nat, y < Height, NEW room \in Nat \ {0},
         NEW u, UpsShape(u), Stands(m, u, group, y, G),
         NEW up, up = merged_1v_upsample(m, u, group)
  PROVE  Upsamples(up, m, group, y, G, room)
<1>1. y = (G * MaxV) + 0 /\ 0 \in 0 .. MaxV - 1
  BY DEF Stands, Begins, Within
<1> DEFINE row == [c \in Component |->
                     [at |-> 0, of |-> GroupRows(m, m.whichptr, c, group)]]
<1>2. up = [ups |-> u, ctr |-> group + 1, rows |-> <<row>>]
  BY DEF merged_1v_upsample
<1>3. row = MergedRow(m, group, 0)
  <2>1. \A c \in Component : (0 * R(c)) \div MaxV = 0
    BY DEF Sizes
  <2> QED BY <2>1 DEF MergedRow
<1>4. InPlace(row, y)
  BY <1>1, <1>3, MergedInPlace
<1> HIDE DEF row
<1>5. Len(up.rows) = 1 /\ up.rows[1] = row /\ IsRows(up.rows)
  <2>1. up.rows = <<row>>
    BY <1>2
  <2>2. <<row>> = [k \in 1 .. 1 |-> <<row>>[k]]
    OBVIOUS
  <2>3. 1 \in Nat
    OBVIOUS
  <2>4. Len(<<row>>) = 1 /\ IsRows(<<row>>)
    BY <2>2, <2>3, RowsOf
  <2> QED BY <2>1, <2>4
<1>6. Begins(up.ups, y + 1, G + 1) /\ up.ctr = group + 1 /\ UpsShape(up.ups)
  <2>1. y + 1 = (G + 1) * MaxV
    BY <1>1
  <2> QED BY <2>1, <1>2 DEF Begins, Remaining
<1>7. y + 1 <= Height /\ y + 1 <= (G + 1) * MaxV
  BY <1>1 DEF Sizes
<1>8. \A k \in 1 .. 1 : InPlace(up.rows[k], y + (k - 1))
  BY <1>4, <1>5
<1> QED BY <1>5, <1>6, <1>7, <1>8 DEF Upsamples

LEMMA Merged2vUpsamples ==
  ASSUME Sizes, Merged, MaxV = 2, NEW m, NEW group \in Nat, NEW G \in Nat,
         Provides(m, group, G),
         NEW y \in Nat, y < Height, NEW room \in Nat \ {0},
         NEW u, UpsShape(u), Stands(m, u, group, y, G),
         NEW up, up = merged_2v_upsample(m, u, group, room)
  PROVE  Upsamples(up, m, group, y, G, room)
<1> DEFINE pair == [k \in {0, 1} |->
                      [c \in Component |-> [at |-> (k * R(c)) \div MaxV,
                                            of |-> GroupRows(m, m.whichptr, c, group)]]]
           num == IF u.spare_full THEN 1 ELSE Lesser(2, Lesser(u.rows_to_go, room))
           spared == Spared(u, num)
           spare == IF spared THEN pair[1] ELSE u.spare
           left == u.rows_to_go - num
           rows == IF u.spare_full THEN <<u.spare>>
                   ELSE [k \in 1 .. num |-> pair[k - 1]]
           v == [u EXCEPT !.spare_full = spared, !.rows_to_go = left, !.spare = spare]
<1>1. /\ up.ups = v /\ up.rows = rows
      /\ up.ctr = IF spared THEN group ELSE group + 1
  BY DEF merged_2v_upsample
<1>2. /\ u.rows_to_go = Height - y /\ Height \in Nat
      /\ \/ ~u.spare_full /\ y = G * MaxV
         \/ u.spare_full = TRUE /\ y = G * MaxV + 1 /\ InPlace(u.spare, y)
  BY DEF Stands, Begins, Within, Remaining, Sizes
<1>3. \A k \in {0, 1} : pair[k] = MergedRow(m, group, k)
  <2>1. \A k : MergedRow(m, group, k) =
                 [c \in Component |-> [at |-> (k * R(c)) \div MaxV,
                                       of |-> GroupRows(m, m.whichptr, c, group)]]
    BY DEF MergedRow
  <2> QED BY <2>1, Zenon
<1>4. ASSUME NEW k \in {0, 1}, G * MaxV + k < Height
      PROVE  InPlace(pair[k], G * MaxV + k)
  <2>1. k \in 0 .. MaxV - 1
    OBVIOUS
  <2>2. InPlace(MergedRow(m, group, k), G * MaxV + k)
    BY <2>1, <1>4, MergedInPlace
  <2> QED BY <2>2, <1>3
<1>5. v = [next_row_out |-> u.next_row_out, rows_to_go |-> left,
           color_buf |-> u.color_buf, spare_full |-> spared, spare |-> spare]
  <2> HIDE DEF spared, left, spare
  <2>1. v = [u EXCEPT !.spare_full = spared, !.rows_to_go = left, !.spare = spare]
    OBVIOUS
  <2> HIDE DEF v
  <2> QED BY <2>1 DEF UpsShape
<1> HIDE DEF pair, v
<1>6. CASE u.spare_full = TRUE
  <2>1. num = 1 /\ ~spared /\ left = Height - (y + 1) /\ rows = <<u.spare>>
    BY <1>2, <1>6 DEF Spared
  <2>2. Len(rows) = 1 /\ rows[1] = u.spare /\ IsRows(rows)
    <3> DEFINE row == u.spare
    <3> HIDE DEF row
    <3>1. <<row>> = [k \in 1 .. 1 |-> <<row>>[k]] /\ 1 \in Nat
      OBVIOUS
    <3>2. Len(<<row>>) = 1 /\ IsRows(<<row>>) /\ <<row>>[1] = row
      BY <3>1, RowsOf
    <3> QED BY <3>2, <2>1 DEF row
  <2>3. y = G * MaxV + 1 /\ InPlace(u.spare, y)
    BY <1>2, <1>6
  <2> HIDE DEF num, spared, left, rows, spare
  <2>4. Begins(up.ups, y + 1, G + 1) /\ up.ctr = group + 1 /\ UpsShape(up.ups)
    <3>1. y + 1 = (G + 1) * MaxV
      BY <2>3
    <3>2. ~v.spare_full /\ v.rows_to_go = Height - (y + 1)
      BY <2>1, <1>5
    <3>3. UpsShape(v)
      BY <1>5 DEF UpsShape
    <3> QED BY <3>1, <3>2, <3>3, <2>1, <1>1 DEF Begins, Remaining
  <2>5. \A k \in 1 .. 1 : InPlace(rows[k], y + (k - 1))
    BY <2>2, <2>3
  <2>6. y + 1 <= Height /\ y + 1 <= (G + 1) * MaxV
    BY <2>3, <1>2
  <2>7. 1 \in Nat \ {0} /\ 1 <= room /\ Len(up.rows) = 1
    BY <2>2, <1>1
  <2> QED BY <2>2, <2>4, <2>5, <2>6, <2>7, <1>1 DEF Upsamples
<1>7. CASE ~u.spare_full
  <2>1. /\ y = G * MaxV /\ num \in 1 .. 2 /\ num <= room /\ y + num <= Height
        /\ y + num <= (G + 1) * MaxV
        /\ left = Height - (y + num) /\ (spared <=> num = 1)
        /\ rows = [k \in 1 .. num |-> pair[k - 1]]
    BY <1>2, <1>7 DEF Spared, Lesser
  <2>2. spared = TRUE \/ spared = FALSE
    BY DEF Spared
  <2>3. spare = IF spared THEN pair[1] ELSE u.spare
    OBVIOUS
  <2> HIDE DEF num, spared, left, rows, spare
  <2>4. Len(rows) = num /\ IsRows(rows)
    <3>1. rows = [k \in 1 .. num |-> rows[k]] /\ num \in Nat
      BY <2>1
    <3> QED BY <3>1, RowsOf
  <2>5. ASSUME NEW k \in 1 .. num PROVE InPlace(rows[k], y + (k - 1))
    <3>1. k - 1 \in {0, 1} /\ rows[k] = pair[k - 1]
      BY <2>1
    <3>2. G * MaxV + (k - 1) < Height
      BY <2>1, <1>2
    <3> QED BY <3>1, <3>2, <2>1, <1>4
  <2>6. UpsShape(v) /\ v.rows_to_go = Height - (y + num)
    <3>1. v.rows_to_go = left
      BY <1>5
    <3>2. UpsShape(v)
      BY <1>5 DEF UpsShape
    <3> QED BY <3>1, <3>2, <2>1
  <2>7. CASE num = 2
    <3>1. ~spared
      BY <2>1, <2>7
    <3>2. y + num = (G + 1) * MaxV
      BY <2>1, <2>7
    <3>3. ~v.spare_full
      BY <3>1, <1>5
    <3>4. up.ctr = group + 1 /\ Begins(up.ups, y + num, G + 1)
      BY <3>1, <3>2, <3>3, <2>6, <1>1 DEF Begins, Remaining
    <3> QED BY <3>4, <2>1, <2>4, <2>5, <2>6, <1>1, SMTT(30) DEF Upsamples
  <2>8. CASE num = 1
    <3>1. spared = TRUE
      BY <2>1, <2>2, <2>8
    <3>2. v.spare_full = TRUE /\ v.spare = pair[1]
      BY <3>1, <2>3, <1>5
    <3>3. y + num < Height => InPlace(v.spare, y + num)
      <4>1. 1 \in {0, 1} /\ y + num = G * MaxV + 1
        BY <2>1, <2>8
      <4> QED BY <4>1, <3>2, <1>4
    <3>4. up.ctr = group
      BY <3>1, <1>1
    <3>5. y + num = G * MaxV + 1
      BY <2>1, <2>8
    <3>6. y + num < Height => Within(m, up.ups, group, y + num, G)
      BY <3>2, <3>3, <3>5, <2>6, <1>1 DEF Within, Remaining
    <3> QED BY <3>4, <3>6, <2>1, <2>4, <2>5, <2>6, <1>1 DEF Upsamples
  <2> QED BY <2>1, <2>7, <2>8
<1> QED BY <1>2, <1>6, <1>7

LEMMA UpsamplesAlways ==
  ASSUME Sizes, NEW m, NEW group \in Nat, NEW G \in Nat, Provides(m, group, G),
         NEW y \in Nat, y < Height, NEW room \in Nat \ {0},
         NEW u, UpsShape(u), Stands(m, u, group, y, G),
         NEW up, up = upsample(m, u, group, room)
  PROVE  Upsamples(up, m, group, y, G, room)
<1>1. CASE ~Merged
  <2>1. up = sep_upsample(m, u, group, room)
    BY <1>1 DEF upsample, Merged
  <2> QED BY <2>1, <1>1, SeparateUpsamples
<1>2. CASE Merged /\ MaxV = 1
  <2>1. up = merged_1v_upsample(m, u, group)
    BY <1>2 DEF upsample, Merged
  <2> QED BY <2>1, <1>2, Merged1vUpsamples
<1>3. CASE Merged /\ MaxV = 2
  <2>1. up = merged_2v_upsample(m, u, group, room)
    BY <1>3 DEF upsample, Merged
  <2> QED BY <2>1, <1>3, Merged2vUpsamples
<1> QED BY <1>1, <1>2, <1>3 DEF Sizes

-----------------------------------------------------------------------------
(* The postprocessing controller                                            *)

LEMMA WholeImageHigh ==
  ASSUME Sizes
  PROVE  CeilDiv(Height, MaxV) * MaxV \in Nat /\ Height <= CeilDiv(Height, MaxV) * MaxV
<1>1. Height \in Nat /\ MaxV \in Nat \ {0}
  BY DEF Sizes
<1> DEFINE q == CeilDiv(Height, MaxV)
<1>2. q \in Nat /\ Height <= q * MaxV
  BY <1>1, Ceiling
<1> HIDE DEF q
<1>3. q * MaxV \in Nat
  BY <1>1, <1>2
<1> QED BY <1>2, <1>3 DEF q

LEMMA NextStripReached ==
  ASSUME Sizes, NEW p, NEW made, NEW y, PostInv(p, y, made),
         NEW n \in Nat, p.next_row + n <= MaxV,
         NEW q, q = NextStrip(p, p.next_row + n)
  PROVE  PostInv(q, y + n, made)
<1> DEFINE next == p.next_row + n
<1>1. /\ MaxV \in Nat \ {0} /\ p.starting_row \in Nat /\ p.next_row \in 0 .. MaxV - 1
      /\ y = p.starting_row + p.next_row /\ next \in Nat /\ next <= MaxV
  BY DEF PostInv, Sizes
<1>2. \/ next = MaxV /\ q = [starting_row |-> p.starting_row + MaxV, next_row |-> 0,
                             whole_image |-> p.whole_image]
      \/ next < MaxV /\ q = [starting_row |-> p.starting_row, next_row |-> next,
                             whole_image |-> p.whole_image]
  <2> DEFINE start == p.starting_row + MaxV
  <2>1. CASE next = MaxV
    <3>1. q = [p EXCEPT !.starting_row = start, !.next_row = 0]
      BY <2>1, <1>1 DEF NextStrip
    <3> HIDE DEF start
    <3>2. q = [starting_row |-> start, next_row |-> 0, whole_image |-> p.whole_image]
      BY <3>1 DEF PostInv
    <3> QED BY <3>2, <2>1 DEF start
  <2>2. CASE next < MaxV
    <3>1. q = [p EXCEPT !.next_row = next]
      BY <2>2, <1>1 DEF NextStrip
    <3> HIDE DEF next
    <3>2. q = [starting_row |-> p.starting_row, next_row |-> next,
               whole_image |-> p.whole_image]
      BY <3>1 DEF PostInv
    <3> QED BY <3>2, <2>2
  <2> QED BY <2>1, <2>2, <1>1
<1>3. q.whole_image = p.whole_image
  BY <1>2
<1>4. /\ q = [starting_row |-> q.starting_row, next_row |-> q.next_row,
              whole_image |-> q.whole_image]
      /\ q.starting_row \in Nat /\ q.next_row \in 0 .. MaxV - 1
      /\ y + n = q.starting_row + q.next_row
  <2>1. CASE q = [starting_row |-> p.starting_row + MaxV, next_row |-> 0,
                  whole_image |-> p.whole_image] /\ next = MaxV
    <3>1. q.starting_row = p.starting_row + MaxV /\ q.next_row = 0
      BY <2>1
    <3>2. q = [starting_row |-> q.starting_row, next_row |-> q.next_row,
              whole_image |-> q.whole_image]
      BY <2>1, <3>1
    <3> QED BY <3>1, <3>2, <2>1, <1>1
  <2>2. CASE q = [starting_row |-> p.starting_row, next_row |-> next,
                  whole_image |-> p.whole_image] /\ next < MaxV
    <3>1. q.starting_row = p.starting_row /\ q.next_row = next
      BY <2>2
    <3>2. q = [starting_row |-> q.starting_row, next_row |-> q.next_row,
              whole_image |-> q.whole_image]
      BY <2>2, <3>1
    <3> QED BY <3>1, <3>2, <2>2, <1>1
  <2> QED BY <2>1, <2>2, <1>2
<1> QED BY <1>3, <1>4 DEF PostInv

(* What a call of it does with a row group.                                 *)
Posts(r, m, group, y, G, room) ==
  LET n == r.advance
  IN  /\ n \in Nat \ {0} /\ y + n <= Height /\ y + n <= (G + 1) * MaxV
      /\ UpsShape(r.ups)
      /\ IF TwoPass
         THEN n <= MaxV /\ r.rows = <<>> /\ PostInv(r.post, y + n, y + n)
         ELSE /\ n <= room /\ IsRows(r.rows) /\ Len(r.rows) = n
              /\ \A k \in 1 .. n : InPlace(r.rows[k], y + (k - 1))
      /\ y + n < Height =>
           \/ r.ctr = group + 1 /\ Begins(r.ups, y + n, G + 1)
           \/ r.ctr = group /\ Within(m, r.ups, group, y + n, G)

LEMMA PostsDirectly ==
  ASSUME Sizes, ~TwoPass, NEW m, NEW group \in Nat, NEW G \in Nat,
         Provides(m, group, G), NEW y \in Nat, y < Height, NEW room \in Nat \ {0},
         NEW u, UpsShape(u), Stands(m, u, group, y, G),
         NEW p, NEW r, r = post_process_data(m, u, p, group, room)
  PROVE  Posts(r, m, group, y, G, room)
<1>1. PICK some \in Nat \ {0} :
        some <= room /\ r = Result(upsample(m, u, group, some), p)
  <2>1. CASE config.post = "direct"
    <3>1. r = Result(upsample(m, u, group, room), p)
      BY <2>1 DEF post_process_data
    <3> QED BY <3>1
  <2>2. CASE config.post = "onepass"
    <3>1. r = Result(upsample(m, u, group, Lesser(room, MaxV)), p)
      BY <2>2 DEF post_process_data, post_process_1pass
    <3>2. Lesser(room, MaxV) \in Nat \ {0} /\ Lesser(room, MaxV) <= room
      BY DEF Lesser, Sizes
    <3> QED BY <3>1, <3>2
  <2> QED BY <2>1, <2>2 DEF Sizes, TwoPass
<1> DEFINE up == upsample(m, u, group, some)
<1>2. Upsamples(up, m, group, y, G, some)
  BY UpsamplesAlways
<1> HIDE DEF up
<1>3. /\ r.ups = up.ups /\ r.ctr = up.ctr /\ r.rows = up.rows
      /\ r.advance = Len(up.rows)
  BY <1>1 DEF Result, up
<1>4. Len(up.rows) \in Nat /\ Len(up.rows) <= room
  BY <1>1, <1>2 DEF Upsamples
<1> QED BY <1>2, <1>3, <1>4 DEF Upsamples, Posts

LEMMA PostsPrepass ==
  ASSUME Sizes, TwoPass, NEW m, NEW group \in Nat, NEW G \in Nat,
         Provides(m, group, G), NEW y \in Nat, y < Height, NEW room,
         NEW u, UpsShape(u), Stands(m, u, group, y, G),
         NEW p, PostInv(p, y, y),
         NEW r, r = post_process_data(m, u, p, group, room)
  PROVE  Posts(r, m, group, y, G, room)
<1> DEFINE some == MaxV - p.next_row
           up == upsample(m, u, group, some)
           n == Len(up.rows)
           whole == [z \in DOMAIN p.whole_image |->
                       LET k == (z - (p.starting_row + p.next_row)) + 1
                       IN  IF k \in DOMAIN up.rows THEN up.rows[k] ELSE p.whole_image[z]]
           q == [p EXCEPT !.whole_image = whole]
           next == NextStrip(q, p.next_row + n)
<1>1. r = [Result(up, next) EXCEPT !.rows = <<>>]
  BY DEF post_process_data, post_process_prepass, Stored, TwoPass
<1>2. /\ MaxV \in Nat \ {0} /\ p.next_row \in 0 .. MaxV - 1 /\ p.starting_row \in Nat
      /\ some \in Nat \ {0} /\ y = p.starting_row + p.next_row /\ Height \in Nat
  BY DEF Sizes, PostInv
<1> HIDE DEF some
<1>3. Upsamples(up, m, group, y, G, some)
  BY <1>2, UpsamplesAlways
<1> HIDE DEF up, whole, next
<1>4. /\ n \in Nat \ {0} /\ n <= some /\ y + n <= Height /\ UpsShape(up.ups)
      /\ y + n <= (G + 1) * MaxV
      /\ DOMAIN up.rows = 1 .. n
      /\ \A k \in 1 .. n : InPlace(up.rows[k], y + (k - 1))
      /\ y + n < Height =>
           \/ up.ctr = group + 1 /\ Begins(up.ups, y + n, G + 1)
           \/ up.ctr = group /\ Within(m, up.ups, group, y + n, G)
  BY <1>3 DEF Upsamples, IsRows
<1>5. r.ups = up.ups /\ r.ctr = up.ctr /\ r.post = next /\ r.rows = <<>> /\ r.advance = n
  BY <1>1 DEF Result
<1> HIDE DEF n
<1>6. q = [starting_row |-> p.starting_row, next_row |-> p.next_row, whole_image |-> whole]
  <2>1. q = [p EXCEPT !.whole_image = whole]
    OBVIOUS
  <2> HIDE DEF q
  <2> QED BY <2>1 DEF PostInv
<1> HIDE DEF q
<1>7. DOMAIN whole = 0 .. (CeilDiv(Height, MaxV) * MaxV) - 1
  BY DEF whole, PostInv
<1>8. ASSUME NEW z \in 0 .. (y + n) - 1 PROVE InPlace(whole[z], z)
  <2> DEFINE k == (z - y) + 1
             high == CeilDiv(Height, MaxV) * MaxV
  <2>1. high \in Nat /\ Height <= high
    BY WholeImageHigh
  <2> HIDE DEF high
  <2>2. z \in 0 .. high - 1
    BY <2>1, <1>2, <1>4
  <2>3. z \in DOMAIN p.whole_image
    BY <2>2 DEF PostInv, high
  <2>4. whole[z] = IF k \in DOMAIN up.rows THEN up.rows[k] ELSE p.whole_image[z]
    BY <2>3, <1>2 DEF whole
  <2>5. CASE z < y
    <3>1. k \notin 1 .. n
      BY <2>5, <1>2
    <3>2. z \in 0 .. y - 1
      BY <2>5, <1>2, <1>4
    <3>3. InPlace(p.whole_image[z], z)
      BY <3>2 DEF PostInv
    <3> QED BY <3>1, <3>3, <2>4, <1>4
  <2>6. CASE z >= y
    <3>1. k \in 1 .. n /\ y + (k - 1) = z
      <4>1. n \in Nat /\ z \in Int /\ z < y + n
        BY <1>4
      <4> QED BY <4>1, <2>6
    <3> HIDE DEF k
    <3> QED BY <3>1, <2>4, <1>4
  <2> QED BY <2>5, <2>6, <1>2, <1>4
<1>9. PostInv(q, y, y + n)
  BY <1>2, <1>6, <1>7, <1>8 DEF PostInv
<1>10. p.next_row + n <= MaxV /\ n <= MaxV /\ q.next_row = p.next_row
  <2>1. n \in Nat /\ n <= MaxV - p.next_row /\ q.next_row = p.next_row
    BY <1>4, <1>6 DEF some
  <2> QED BY <2>1, <1>2
<1>11. PostInv(next, y + n, y + n)
  BY <1>4, <1>9, <1>10, NextStripReached DEF next
<1> QED BY <1>4, <1>5, <1>10, <1>11 DEF Posts

LEMMA PostsAlways ==
  ASSUME Sizes, NEW m, NEW group \in Nat, NEW G \in Nat,
         Provides(m, group, G), NEW y \in Nat, y < Height, NEW room \in Nat,
         ~TwoPass => room > 0, NEW u, UpsShape(u), Stands(m, u, group, y, G),
         NEW p, TwoPass => PostInv(p, y, y),
         NEW r, r = post_process_data(m, u, p, group, room)
  PROVE  Posts(r, m, group, y, G, room)
<1>1. CASE TwoPass
  BY <1>1, PostsPrepass
<1>2. CASE ~TwoPass
  <2>1. room \in Nat \ {0}
    BY <1>2
  <2> QED BY <2>1, <1>2, PostsDirectly
<1> QED BY <1>1, <1>2

-----------------------------------------------------------------------------
(* The main controller                                                      *)

(* What process_data does when an iMCU row is in the buffer: it brings rows *)
(* of their places and stays ready for the next call.                       *)
Serves(r, y, room) ==
  LET n == r.advance
  IN  /\ n \in Nat \ {0} /\ y + n <= Height
      /\ IF TwoPass
         THEN n <= MaxV /\ r.rows = <<>> /\ PostInv(r.post, y + n, y + n)
         ELSE /\ n <= room /\ IsRows(r.rows) /\ Len(r.rows) = n
              /\ \A k \in 1 .. n : InPlace(r.rows[k], y + (k - 1))
      /\ y + n < Height => MainInv(r.main, r.ups, y + n)

(* What it is called with: a row to come, and room for one, or none in the  *)
(* dummy pass.                                                              *)
Called(u, p, y, room) ==
  /\ UpsShape(u) /\ y \in Nat /\ y < Height
  /\ room \in Nat /\ IF TwoPass THEN room = 0 ELSE room > 0
  /\ TwoPass => PostInv(p, y, y)

LEMMA ServesWhat ==
  ASSUME NEW m, NEW group, NEW y, NEW G, NEW room, NEW s, Posts(s, m, group, y, G, room),
         NEW n, NEW r, r = With(n, s),
         y + s.advance < Height => MainInv(n, s.ups, y + s.advance)
  PROVE  Serves(r, y, room)
<1>1. /\ r.main = n /\ r.ups = s.ups /\ r.post = s.post /\ r.rows = s.rows
      /\ r.advance = s.advance
  BY DEF With
<1> QED BY <1>1 DEF Serves, Posts

LEMMA SetsGroup ==
  ASSUME NEW m, MainShape(m), NEW g, NEW n, n = [m EXCEPT !.rowgroup_ctr = g]
  PROVE  /\ n = [buffer_full |-> m.buffer_full, rowgroup_ctr |-> g,
                 rowgroups_avail |-> m.rowgroups_avail, whichptr |-> m.whichptr,
                 context_state |-> m.context_state, iMCU_row_ctr |-> m.iMCU_row_ctr,
                 xbuffer |-> m.xbuffer, workspace |-> m.workspace]
         /\ MainShape(n)
<1>1. n = [buffer_full |-> m.buffer_full, rowgroup_ctr |-> g,
           rowgroups_avail |-> m.rowgroups_avail, whichptr |-> m.whichptr,
           context_state |-> m.context_state, iMCU_row_ctr |-> m.iMCU_row_ctr,
           xbuffer |-> m.xbuffer, workspace |-> m.workspace]
  BY DEF MainShape
<1>2. n.workspace = m.workspace /\ n.buffer_full = m.buffer_full
  BY <1>1
<1>3. MainShape(n)
  BY <1>1, <1>2 DEF MainShape
<1> QED BY <1>1, <1>3

LEMMA SimpleServes ==
  ASSUME Sizes, ~Context, NEW m, NEW u, NEW p, NEW y, NEW room, Called(u, p, y, room),
         MainInv(m, u, y), m.buffer_full = TRUE,
         NEW r, r = process_data_simple_main(m, u, p, room)
  PROVE  Serves(r, y, room)
<1> DEFINE I == m.iMCU_row_ctr - 1
           g == m.rowgroup_ctr
           G == (I * M) + g
           s == post_process_data(m, u, p, g, room)
           done == s.ctr >= M
           n == [m EXCEPT !.buffer_full = ~done, !.rowgroup_ctr = IF done THEN 0 ELSE s.ctr]
           z == y + s.advance
<1>1. /\ MainShape(m) /\ UpsShape(u) /\ m.whichptr = 0 /\ m.xbuffer = Fresh
      /\ I \in Nat /\ g \in 0 .. M - 1 /\ Holds(m, 0, I) /\ Stands(m, u, g, y, G)
  BY DEF MainInv, PlainMain
<1>2. y \in Nat /\ y < Height /\ room \in Nat /\ M \in Nat \ {0} /\ g \in Nat
  BY <1>1 DEF Called, Sizes
<1>3. Provides(m, g, G)
  BY <1>1, ProvidesPlain
<1>4. /\ G \in Nat /\ m.iMCU_row_ctr * M = (I * M) + M /\ I + 1 = m.iMCU_row_ctr
      /\ I * M \in Nat
  <2>1. m.iMCU_row_ctr \in Nat
    BY <1>1 DEF MainShape
  <2>2. I + 1 = m.iMCU_row_ctr
    BY <2>1
  <2> HIDE DEF I, g
  <2>3. (I + 1) * M = (I * M) + M /\ I * M \in Nat
    BY <1>1, <1>2
  <2> QED BY <2>2, <2>3, <1>1, <1>2
<1>5. Posts(s, m, g, y, G, room)
  <2> HIDE DEF G, g
  <2> QED BY <1>1, <1>2, <1>3, <1>4, PostsAlways DEF Called
<1>6. r = With(n, s)
  BY DEF process_data_simple_main, Counted
<1>7. /\ n.whichptr = m.whichptr /\ n.xbuffer = m.xbuffer /\ n.workspace = m.workspace
      /\ n.iMCU_row_ctr = m.iMCU_row_ctr /\ n.buffer_full = ~done
      /\ n.rowgroup_ctr = IF done THEN 0 ELSE s.ctr
      /\ n.buffer_full \in BOOLEAN
      /\ n = [buffer_full |-> n.buffer_full, rowgroup_ctr |-> n.rowgroup_ctr,
              rowgroups_avail |-> n.rowgroups_avail, whichptr |-> n.whichptr,
              context_state |-> n.context_state, iMCU_row_ctr |-> n.iMCU_row_ctr,
              xbuffer |-> n.xbuffer, workspace |-> n.workspace]
  <2>1. n = [m EXCEPT !.buffer_full = ~done, !.rowgroup_ctr = IF done THEN 0 ELSE s.ctr]
    OBVIOUS
  <2> HIDE DEF n, s
  <2> QED BY <1>1, <2>1 DEF MainShape
<1> HIDE DEF n, s, I, g
<1>8. MainShape(n)
  BY <1>1, <1>7 DEF MainShape
<1>9. ASSUME z < Height PROVE MainInv(n, s.ups, z)
  <2>1. /\ UpsShape(s.ups)
        /\ \/ s.ctr = g + 1 /\ Begins(s.ups, z, G + 1)
           \/ s.ctr = g /\ Within(m, s.ups, g, z, G)
    BY <1>5, <1>9 DEF Posts
  <2> HIDE DEF z
  <2>2. s.ctr \in 0 .. M /\ (done <=> s.ctr = M) /\ (s.ctr = M => s.ctr = g + 1)
    <3>1. s.ctr = g + 1 \/ s.ctr = g
      BY <2>1
    <3> QED BY <3>1, <1>1, <1>2
  <2> HIDE DEF done
  <2>3. CASE s.ctr = M
    <3>1. done /\ n.buffer_full = FALSE /\ n.rowgroup_ctr = 0 /\ g + 1 = M
      BY <2>2, <2>3, <1>7
    <3>2. G + 1 = n.iMCU_row_ctr * M
      BY <3>1, <1>2, <1>4, <1>7
    <3>3. Begins(s.ups, z, n.iMCU_row_ctr * M)
      BY <3>1, <3>2, <2>1, <2>2, <2>3
    <3>4. n.iMCU_row_ctr \in Nat
      BY <1>1, <1>4, <1>7
    <3> QED BY <3>1, <3>3, <3>4, <2>1, <1>1, <1>7, <1>8 DEF MainInv, PlainMain
  <2>4. CASE s.ctr # M
    <3>1. /\ ~done /\ n.buffer_full = TRUE /\ n.rowgroup_ctr = s.ctr
          /\ s.ctr \in 0 .. M - 1
      <4>1. ~done /\ n.buffer_full = TRUE /\ n.rowgroup_ctr = s.ctr
        BY <2>2, <2>4, <1>7
      <4>2. s.ctr \in 0 .. M - 1
        BY <2>2, <2>4, <1>2
      <4> QED BY <4>1, <4>2
    <3>2. Holds(n, 0, I)
      BY <1>1, <1>7, SameWindow
    <3>3. Stands(n, s.ups, s.ctr, z, (I * M) + s.ctr)
      <4>1. CASE s.ctr = g + 1 /\ Begins(s.ups, z, G + 1)
        <5>1. G + 1 = (I * M) + s.ctr
          BY <4>1, <1>1, <1>2
        <5> QED BY <4>1, <5>1 DEF Stands
      <4>2. CASE s.ctr = g /\ Within(m, s.ups, g, z, G)
        <5>1. Within(n, s.ups, g, z, G)
          BY <4>2, <1>7, SameWindow
        <5> QED BY <4>2, <5>1 DEF Stands
      <4> QED BY <2>1, <4>1, <4>2
    <3> QED BY <3>1, <3>2, <3>3, <2>1, <1>1, <1>7, <1>8 DEF MainInv, PlainMain, I
  <2> QED BY <2>3, <2>4
<1> QED BY <1>5, <1>6, <1>9, ServesWhat

(* With context rows.                                                       *)

LEMMA IMcuRowReached ==
  ASSUME Sizes, NEW I \in Nat, NEW g \in Nat, NEW y \in Nat, y < Height,
         ((I * M) + g) * MaxV <= y
  PROVE  I + 1 <= TotalIMcuRows /\ TotalIMcuRows \in Nat
<1> DEFINE i == I * M
<1>1. i \in Nat /\ M \in Nat \ {0} /\ MaxV \in Nat \ {0} /\ Height \in Nat
  BY DEF Sizes
<1> HIDE DEF i
<1>2. i * MaxV <= (i + g) * MaxV /\ i * MaxV \in Int /\ (i + g) * MaxV \in Int
  BY <1>1, TimesMonotonic
<1>3. i * MaxV < Height
  BY <1>1, <1>2 DEF i
<1> QED BY <1>3, IMcuRows DEF i

LEMMA StandsBelow ==
  ASSUME Sizes, NEW m, NEW u, NEW group, NEW y, NEW G \in Nat, Stands(m, u, group, y, G)
  PROVE  G * MaxV <= y
<1>1. G * MaxV \in Nat
  BY DEF Sizes
<1> DEFINE g == G * MaxV
<1> HIDE DEF g
<1>2. y = g \/ y = g + 1 \/ (u.next_row_out \in 1 .. MaxV - 1 /\ y = g + u.next_row_out)
  BY DEF Stands, Begins, Within, g
<1>3. g \in Nat /\ MaxV \in Nat
  BY <1>1 DEF g, Sizes
<1> QED BY <1>2, <1>3 DEF g

LEMMA PreparedProcesses ==
  ASSUME Sizes, Context, NEW m, MainShape(m), NEW u, NEW y \in Nat, y < Height,
         Preparing(m, u, y), NEW n, n = Prepared(m)
  PROVE  MainShape(n) /\ Processing(n, u, y)
<1> DEFINE I == m.iMCU_row_ctr - 1
           w == m.whichptr
           last == m.iMCU_row_ctr = TotalIMcuRows
           avail == IF last THEN NondummyRowGroups ELSE M - 1
           list == IF last THEN set_bottom_pointers(m.xbuffer, w) ELSE m.xbuffer
<1>1. /\ m.buffer_full = TRUE /\ I \in Nat /\ w \in {0, 1} /\ Holds(m, w, I)
      /\ IF I = 0 THEN m.xbuffer = Fresh /\ w = 0
         ELSE m.xbuffer = Wrapped /\ Keeps(m, w, I - 1)
      /\ Begins(u, y, I * M)
  BY DEF Preparing
<1>2. m.iMCU_row_ctr = I + 1 /\ (last <=> Last(I))
  BY DEF MainShape, Last
<1>3. n = [buffer_full |-> m.buffer_full, rowgroup_ctr |-> 0,
           rowgroups_avail |-> avail, whichptr |-> w,
           context_state |-> "process", iMCU_row_ctr |-> m.iMCU_row_ctr,
           xbuffer |-> list, workspace |-> m.workspace]
  <2>1. n = [m EXCEPT !.rowgroup_ctr = 0, !.rowgroups_avail = avail,
                      !.xbuffer = list, !.context_state = "process"]
    BY DEF Prepared
  <2> HIDE DEF avail, list
  <2> QED BY <2>1 DEF MainShape
<1> HIDE DEF I, w, list, avail, last
<1>4. MainShape(n)
  <2>1. /\ n.workspace = m.workspace /\ n.buffer_full = m.buffer_full
        /\ n.iMCU_row_ctr = m.iMCU_row_ctr
    BY <1>3
  <2>2. n = [buffer_full |-> n.buffer_full, rowgroup_ctr |-> n.rowgroup_ctr,
             rowgroups_avail |-> n.rowgroups_avail, whichptr |-> n.whichptr,
             context_state |-> n.context_state, iMCU_row_ctr |-> n.iMCU_row_ctr,
             xbuffer |-> n.xbuffer, workspace |-> n.workspace]
    BY <1>3
  <2> QED BY <2>1, <2>2 DEF MainShape
<1>5. /\ n.context_state = "process" /\ n.buffer_full = TRUE /\ n.rowgroup_ctr = 0
      /\ n.whichptr = w /\ n.iMCU_row_ctr = m.iMCU_row_ctr /\ n.rowgroups_avail = avail
      /\ n.xbuffer = list /\ n.workspace = m.workspace
  BY <1>1, <1>3
<1>6. avail = IF Last(I) THEN NondummyRowGroups ELSE M - 1
  BY <1>2 DEF avail
<1>7. M \in Nat /\ M >= 2 /\ I * M \in Nat
  BY <1>1 DEF Sizes
<1>8. avail \in Nat \ {0}
  <2>1. Last(I) => NondummyRowGroups \in 1 .. M
    BY <1>1, LastRowGroups
  <2> QED BY <2>1, <1>6, <1>7
<1>9. (I * M) + 0 = I * M
  BY <1>7
<1>10. ~Last(I) => I + 1 < TotalIMcuRows
  <2>1. ((I * M) + 0) * MaxV <= y
    <3>1. Stands(m, u, 0, y, I * M)
      BY <1>1 DEF Stands
    <3> QED BY <3>1, <1>7, <1>9, StandsBelow
  <2>2. I + 1 <= TotalIMcuRows /\ TotalIMcuRows \in Nat
    BY <2>1, <1>1, IMcuRowReached
  <2>3. I \in Nat
    BY <1>1
  <2> QED BY <2>2, <2>3 DEF Last
<1>11. ASSUME NEW later \in 0 .. avail - 1 PROVE Provides(n, later, I * M + later)
  <2>1. CASE Last(I)
    <3>1. n.xbuffer = set_bottom_pointers(m.xbuffer, w) /\ avail = NondummyRowGroups
      BY <2>1, <1>2, <1>5 DEF list, avail
    <3>2. w = m.whichptr
      BY DEF w
    <3> QED BY <3>1, <3>2, <2>1, <1>1, <1>5, ProvidesLastIMcuRow
  <2>2. CASE ~Last(I)
    <3>1. n.xbuffer = m.xbuffer /\ avail = M - 1
      BY <2>2, <1>2, <1>5 DEF list, avail
    <3>2. w = m.whichptr
      BY DEF w
    <3>3. later \in 0 .. M - 2
      BY <3>1, <1>7
    <3>4. Provides(m, later, I * M + later)
      BY <3>2, <3>3, <2>2, <1>1, <1>10, ProvidesIMcuRow
    <3> QED BY <3>1, <3>2, <3>4, <1>5, SameWindow
  <2> QED BY <2>1, <2>2
<1>12. ~Last(I) => Holds(n, w, I) /\ n.xbuffer = IF I = 0 THEN Fresh ELSE Wrapped
  <2> SUFFICES ASSUME ~Last(I)
               PROVE  Holds(n, w, I) /\ n.xbuffer = IF I = 0 THEN Fresh ELSE Wrapped
    OBVIOUS
  <2>1. n.xbuffer = m.xbuffer /\ w = m.whichptr
    BY <1>2, <1>5 DEF list, w
  <2> QED BY <2>1, <1>1, <1>5, SameWindow
<1>13. Stands(n, u, 0, y, (I * M) + 0)
  BY <1>1, <1>9 DEF Stands
<1>14. n.iMCU_row_ctr - 1 = I
  BY <1>5 DEF I
<1>15. 0 \in 0 .. avail - 1
  BY <1>8
<1> QED BY <1>1, <1>4, <1>5, <1>6, <1>11, <1>12, <1>13, <1>14, <1>15 DEF Processing

LEMMA BaseOfOther ==
  ASSUME Sizes, Context, NEW c \in Component, NEW w \in {0, 1},
         NEW k \in R(c) * (M - 2) .. (R(c) * M) - 1
  PROVE  Base(1 - w, c, k + 2 * R(c)) = Base(w, c, k)
<1> DEFINE r == R(c)
           b == r * M
           s == r * (M - 2)
           e == r * (M + 2)
<1>1. r \in Nat \ {0} /\ b \in Nat /\ e = b + 2 * r /\ s = b - 2 * r
  BY ListSizes
<1>2. /\ Swapped(c, k) = IF k \in s .. b - 1 THEN k + 2 * r
                         ELSE IF k \in b .. e - 1 THEN k - 2 * r ELSE k
      /\ Swapped(c, k + 2 * r) =
           IF k + 2 * r \in s .. b - 1 THEN (k + 2 * r) + 2 * r
           ELSE IF k + 2 * r \in b .. e - 1 THEN (k + 2 * r) - 2 * r ELSE k + 2 * r
  BY DEF Swapped
<1>3. k \in s .. b - 1
  OBVIOUS
<1> HIDE DEF r, b, s, e
<1>4. Swapped(c, k) = k + 2 * r /\ Swapped(c, k + 2 * r) = k
  BY <1>1, <1>2, <1>3
<1>5. (w = 0 /\ 1 - w = 1) \/ (w = 1 /\ 1 - w = 0)
  OBVIOUS
<1> QED BY <1>4, <1>5 DEF Base, r

LEMMA ProcessServes ==
  ASSUME Sizes, Context, NEW m, MainShape(m), NEW u, NEW p, NEW y, NEW room,
         Called(u, p, y, room), Processing(m, u, y),
         NEW r, r = ProcessRowGroups(m, u, p, room)
  PROVE  Serves(r, y, room)
<1> DEFINE I == m.iMCU_row_ctr - 1
           g == m.rowgroup_ctr
           w == m.whichptr
           G == (I * M) + g
           avail == m.rowgroups_avail
           s == post_process_data(m, u, p, g, room)
           wrapped == IF m.iMCU_row_ctr = 1 THEN set_wraparound_pointers(m.xbuffer)
                      ELSE m.xbuffer
           n == IF s.ctr < avail THEN [m EXCEPT !.rowgroup_ctr = s.ctr]
                ELSE [m EXCEPT !.xbuffer = wrapped, !.whichptr = 1 - w,
                               !.buffer_full = FALSE,
                               !.rowgroup_ctr = M + 1, !.rowgroups_avail = M + 2,
                               !.context_state = "postponed"]
           z == y + s.advance
<1>1. /\ m.context_state = "process" /\ m.buffer_full = TRUE
      /\ I \in Nat /\ w \in {0, 1}
      /\ avail = IF Last(I) THEN NondummyRowGroups ELSE M - 1
      /\ g \in 0 .. avail - 1
      /\ \A later \in g .. avail - 1 : Provides(m, later, I * M + later)
      /\ Stands(m, u, g, y, G)
      /\ ~Last(I) => Holds(m, w, I) /\ m.xbuffer = IF I = 0 THEN Fresh ELSE Wrapped
  BY DEF Processing
<1>2. y \in Nat /\ y < Height /\ room \in Nat /\ UpsShape(u)
  BY DEF Called
<1>3. M \in Nat /\ M >= 2 /\ Height \in Nat /\ MaxV \in Nat
  BY DEF Sizes
<1>4. avail \in Nat /\ avail <= M /\ g \in Nat /\ g < avail
  <2>1. Last(I) => NondummyRowGroups \in 1 .. M
    BY <1>1, LastRowGroups
  <2> HIDE DEF I, g, avail
  <2> QED BY <2>1, <1>1, <1>3
<1>5. m.iMCU_row_ctr = I + 1
  BY DEF MainShape
<1>6. r = With(n, s)
  BY DEF ProcessRowGroups, Processed
<1> HIDE DEF I, g, avail, n, s, w, wrapped
<1>7. G \in Nat /\ I * M \in Nat
  <2>1. I * M \in Nat
    BY <1>1, <1>3
  <2> QED BY <2>1, <1>4
<1>8. Provides(m, g, G)
  <2>1. g \in g .. avail - 1
    BY <1>4
  <2> QED BY <2>1, <1>1
<1> HIDE DEF G
<1>9. Posts(s, m, g, y, G, room)
  BY <1>1, <1>2, <1>4, <1>7, <1>8, PostsAlways DEF Called, s, g
<1>10. ASSUME z < Height PROVE MainInv(n, s.ups, z)
  <2>1. /\ UpsShape(s.ups) /\ z \in Nat
        /\ \/ s.ctr = g + 1 /\ Begins(s.ups, z, G + 1)
           \/ s.ctr = g /\ Within(m, s.ups, g, z, G)
    BY <1>2, <1>9, <1>10 DEF Posts
  <2> HIDE DEF z
  <2>2. CASE s.ctr < avail
    <3>1. n = [m EXCEPT !.rowgroup_ctr = s.ctr]
      BY <2>2 DEF n
    <3>2. /\ MainShape(n) /\ n.rowgroup_ctr = s.ctr
          /\ n.buffer_full = m.buffer_full /\ n.rowgroups_avail = m.rowgroups_avail
          /\ n.whichptr = m.whichptr /\ n.context_state = m.context_state
          /\ n.iMCU_row_ctr = m.iMCU_row_ctr
          /\ n.xbuffer = m.xbuffer /\ n.workspace = m.workspace
      BY <3>1, SetsGroup
    <3>3. s.ctr \in 0 .. avail - 1 /\ s.ctr >= g
      BY <2>1, <2>2, <1>4
    <3>4. ASSUME NEW later \in s.ctr .. avail - 1
          PROVE  Provides(n, later, I * M + later)
      <4>1. later \in g .. avail - 1
        BY <3>3, <1>4
      <4>2. Provides(m, later, I * M + later)
        BY <4>1, <1>1
      <4> QED BY <4>2, <3>2, SameWindow
    <3>5. Stands(n, s.ups, s.ctr, z, (I * M) + s.ctr)
      <4>1. CASE s.ctr = g + 1 /\ Begins(s.ups, z, G + 1)
        <5>1. G + 1 = (I * M) + s.ctr
          BY <4>1, <1>4, <1>7 DEF G
        <5> QED BY <4>1, <5>1 DEF Stands
      <4>2. CASE s.ctr = g /\ Within(m, s.ups, g, z, G)
        <5>1. Within(n, s.ups, g, z, G)
          BY <4>2, <3>2, SameWindow
        <5> QED BY <4>2, <5>1 DEF Stands, G
      <4> QED BY <2>1, <4>1, <4>2
    <3>6. ~Last(I) => Holds(n, w, I) /\ n.xbuffer = IF I = 0 THEN Fresh ELSE Wrapped
      BY <3>2, <1>1, SameWindow
    <3>7. Processing(n, s.ups, z)
      BY <3>2, <3>3, <3>4, <3>5, <3>6, <1>1 DEF Processing, I, avail, w
    <3> QED BY <3>2, <3>7, <2>1 DEF MainInv, ContextMain
  <2>3. CASE ~(s.ctr < avail)
    <3>1. s.ctr = g + 1 /\ g + 1 = avail /\ Begins(s.ups, z, G + 1)
      <4>1. s.ctr # g
        BY <2>3, <1>4
      <4>2. s.ctr = g + 1 /\ Begins(s.ups, z, G + 1)
        BY <2>1, <4>1
      <4> QED BY <4>2, <2>3, <1>4
    <3>2. G + 1 = I * M + avail
      BY <3>1, <1>4, <1>7 DEF G
    <3>3. ~Last(I)
      <4> SUFFICES ASSUME Last(I) PROVE FALSE
        OBVIOUS
      <4>1. z = (G + 1) * MaxV
        BY <3>1 DEF Begins
      <4>2. Height <= (I * M + NondummyRowGroups) * MaxV
        BY <1>1, LastRowGroups
      <4>3. Height <= z
        BY <4>1, <4>2, <3>2, <1>1
      <4> QED BY <4>3, <2>1, <1>3, <1>10
    <3>4. I + 1 < TotalIMcuRows
      <4>1. G * MaxV <= y
        BY <1>1, <1>7, StandsBelow
      <4>2. I + 1 <= TotalIMcuRows /\ TotalIMcuRows \in Nat
        BY <4>1, <1>1, <1>2, <1>4, IMcuRowReached DEF G
      <4>3. I \in Nat
        BY <1>1
      <4> QED BY <4>2, <4>3, <3>3 DEF Last
    <3>5. wrapped = Wrapped
      <4>1. m.iMCU_row_ctr = 1 <=> I = 0
        BY <1>1, <1>5
      <4> QED BY <4>1, <3>3, <1>1 DEF wrapped, Wrapped, Fresh
    <3>6. n = [buffer_full |-> FALSE, rowgroup_ctr |-> M + 1,
               rowgroups_avail |-> M + 2, whichptr |-> 1 - w,
               context_state |-> "postponed", iMCU_row_ctr |-> m.iMCU_row_ctr,
               xbuffer |-> Wrapped, workspace |-> m.workspace]
      <4> DEFINE M1 == M + 1
                 M2 == M + 2
                 v == 1 - w
      <4>1. n = [m EXCEPT !.xbuffer = Wrapped, !.whichptr = v,
                          !.buffer_full = FALSE,
                          !.rowgroup_ctr = M1, !.rowgroups_avail = M2,
                          !.context_state = "postponed"]
        BY <2>3, <3>5 DEF n
      <4> HIDE DEF M1, M2, v
      <4>2. n = [buffer_full |-> FALSE, rowgroup_ctr |-> M1,
                 rowgroups_avail |-> M2, whichptr |-> v,
                 context_state |-> "postponed", iMCU_row_ctr |-> m.iMCU_row_ctr,
                 xbuffer |-> Wrapped, workspace |-> m.workspace]
        BY <4>1 DEF MainShape
      <4> QED BY <4>2 DEF M1, M2, v
    <3>7. /\ n.buffer_full = FALSE /\ n.rowgroup_ctr = M + 1 /\ n.rowgroups_avail = M + 2
          /\ n.whichptr = 1 - w /\ n.context_state = "postponed"
          /\ n.iMCU_row_ctr = m.iMCU_row_ctr /\ n.xbuffer = Wrapped
          /\ n.workspace = m.workspace
      BY <3>6
    <3>8. MainShape(n)
      <4>1. n = [buffer_full |-> n.buffer_full, rowgroup_ctr |-> n.rowgroup_ctr,
                 rowgroups_avail |-> n.rowgroups_avail, whichptr |-> n.whichptr,
                 context_state |-> n.context_state, iMCU_row_ctr |-> n.iMCU_row_ctr,
                 xbuffer |-> n.xbuffer, workspace |-> n.workspace]
        BY <3>6
      <4> QED BY <4>1, <3>7 DEF MainShape
    <3>9. Keeps(n, 1 - w, I)
      <4> SUFFICES ASSUME NEW c \in Component,
                          NEW k \in R(c) * (M - 2) .. (R(c) * M) - 1
                   PROVE  n.workspace[c][Base(1 - w, c, k + 2 * R(c))]
                            = Content(c, I * (R(c) * M) + k)
        BY DEF Keeps
      <4>1. Base(1 - w, c, k + 2 * R(c)) = Base(w, c, k)
        BY <1>1, BaseOfOther
      <4>2. k \in 0 .. (R(c) * M) - 1
        <5>1. R(c) * (M - 2) \in Nat /\ R(c) * M \in Nat
          BY ListSizes
        <5> DEFINE b == R(c) * M
                   a == R(c) * (M - 2)
        <5>2. a \in Nat /\ b \in Nat /\ k \in a .. b - 1
          BY <5>1
        <5> HIDE DEF a, b
        <5> QED BY <5>2 DEF b
      <4>3. m.workspace[c][Base(w, c, k)] = Content(c, I * (R(c) * M) + k)
        BY <4>2, <3>3, <1>1 DEF Holds
      <4> QED BY <4>1, <4>3, <3>7
    <3>10. Begins(s.ups, z, I * M + (M - 1))
      BY <3>1, <3>2, <3>3, <1>1
    <3>11. n.iMCU_row_ctr - 1 = I /\ 1 - w \in {0, 1}
      BY <3>7, <1>1, <1>5
    <3>12. Postponed(n, s.ups, z)
      BY <3>4, <3>7, <3>9, <3>10, <3>11, <1>1 DEF Postponed
    <3> QED BY <3>8, <3>12, <2>1 DEF MainInv, ContextMain
  <2> QED BY <2>2, <2>3
<1> QED BY <1>6, <1>9, <1>10, ServesWhat

LEMMA IMcuServes ==
  ASSUME Sizes, Context, NEW m, MainShape(m), NEW u, NEW p, NEW y, NEW room,
         Called(u, p, y, room), Preparing(m, u, y) \/ Processing(m, u, y),
         NEW r, r = ProcessIMcu(m, u, p, room)
  PROVE  Serves(r, y, room)
<1>1. CASE Preparing(m, u, y)
  <2>1. r = ProcessRowGroups(Prepared(m), u, p, room)
    BY <1>1 DEF ProcessIMcu, Preparing
  <2> DEFINE n == Prepared(m)
  <2>2. MainShape(n) /\ Processing(n, u, y)
    BY <1>1, PreparedProcesses DEF Called
  <2> HIDE DEF n
  <2> QED BY <2>1, <2>2, ProcessServes DEF n
<1>2. CASE Processing(m, u, y)
  <2>1. r = ProcessRowGroups(m, u, p, room)
    BY <1>2 DEF ProcessIMcu, Processing
  <2> QED BY <2>1, <1>2, ProcessServes
<1> QED BY <1>1, <1>2

LEMMA RowsAppended ==
  ASSUME NEW s, NEW t, IsRows(s), IsRows(t)
  PROVE  /\ IsRows(s \o t) /\ Len(s \o t) = Len(s) + Len(t)
         /\ \A k \in 1 .. Len(s) + Len(t) :
              (s \o t)[k] = IF k <= Len(s) THEN s[k] ELSE t[k - Len(s)]
<1> DEFINE a == Len(s)
           b == Len(t)
           S == {s[k] : k \in 1 .. a} \cup {t[k] : k \in 1 .. b}
<1>1. a \in Nat /\ b \in Nat /\ s = [k \in 1 .. a |-> s[k]] /\ t = [k \in 1 .. b |-> t[k]]
  BY DEF IsRows
<1>2. (\A k \in 1 .. a : s[k] \in S) /\ (\A k \in 1 .. b : t[k] \in S)
  OBVIOUS
<1> HIDE DEF S, a, b
<1>3. s \in [1 .. a -> S] /\ t \in [1 .. b -> S]
  BY <1>1, <1>2
<1>4. s \in Seq(S) /\ t \in Seq(S)
  BY <1>1, <1>3
<1>5. /\ s \o t \in Seq(S) /\ Len(s \o t) = a + b
      /\ \A k \in 1 .. a + b : (s \o t)[k] = IF k <= a THEN s[k] ELSE t[k - a]
  BY <1>4, ConcatProperties DEF a, b
<1>6. s \o t = [k \in 1 .. Len(s \o t) |-> (s \o t)[k]]
  BY <1>5, LenProperties
<1> QED BY <1>1, <1>5, <1>6 DEF IsRows, a, b

(* The last row group of an iMCU row, and what follows it in the same call. *)
LEMMA PostponedServes ==
  ASSUME Sizes, Context, NEW m, MainShape(m), NEW u, NEW p, NEW y, NEW room,
         Called(u, p, y, room), Postponed(m, u, y), m.buffer_full = TRUE,
         NEW r, r = process_data_context_main(m, u, p, room)
  PROVE  Serves(r, y, room)
<1> DEFINE I == m.iMCU_row_ctr - 2
           w == m.whichptr
           G == (I * M) + (M - 1)
           s == post_process_data(m, u, p, m.rowgroup_ctr, room)
           n == [m EXCEPT !.rowgroup_ctr = s.ctr]
           ready == [m EXCEPT !.rowgroup_ctr = s.ctr, !.context_state = "prepare"]
           more == ProcessIMcu(ready, s.ups, s.post, room - s.advance)
           z == y + s.advance
<1>1. /\ m.context_state = "postponed" /\ I \in Nat /\ w \in {0, 1}
      /\ I + 1 < TotalIMcuRows /\ m.rowgroup_ctr = M + 1 /\ m.rowgroups_avail = M + 2
      /\ m.xbuffer = Wrapped /\ Keeps(m, w, I) /\ Holds(m, w, I + 1)
      /\ Stands(m, u, M + 1, y, G)
  BY DEF Postponed
<1>2. y \in Nat /\ y < Height /\ room \in Nat /\ UpsShape(u)
  BY DEF Called
<1>3. M \in Nat /\ M >= 2 /\ Height \in Nat /\ MaxV \in Nat /\ m.iMCU_row_ctr = I + 2
  BY DEF Sizes, MainShape
<1>4. r = AfterPostponed(m, s, room)
  BY <1>1 DEF process_data_context_main
<1>5. r = IF s.ctr < m.rowgroups_avail THEN With(n, s)
          ELSE IF s.advance >= room THEN With(ready, s)
          ELSE [more EXCEPT !.rows = s.rows \o @, !.advance = s.advance + @]
  BY <1>4 DEF AfterPostponed
<1> HIDE DEF I, w, s, n, ready, more
<1>6. I * M \in Nat /\ G \in Nat /\ G + 1 = (I + 1) * M
  <2>1. (I + 1) * M = (I * M) + M /\ I * M \in Nat
    BY <1>1, <1>3
  <2> QED BY <2>1, <1>3
<1>7. Provides(m, M + 1, G)
  BY <1>1, ProvidesPostponed DEF w
<1> HIDE DEF G
<1>8. Posts(s, m, M + 1, y, G, room)
  <2>1. M + 1 \in Nat
    BY <1>3
  <2> QED BY <2>1, <1>1, <1>2, <1>6, <1>7, PostsAlways DEF Called, s
<1>9. z < Height /\ z \in Nat
  <2>1. ((I + 1) * M) * MaxV < Height
    BY <1>1, IMcuRows
  <2>2. y + s.advance <= (G + 1) * MaxV /\ s.advance \in Nat
    BY <1>8 DEF Posts
  <2>3. y + s.advance < Height
    <3> DEFINE e == (G + 1) * MaxV
    <3>1. e < Height /\ y + s.advance <= e /\ e \in Int
      BY <2>1, <2>2, <1>3, <1>6
    <3> HIDE DEF e
    <3> QED BY <3>1, <2>2, <1>2, <1>3
  <2> QED BY <2>2, <2>3, <1>2
<1>10. /\ UpsShape(s.ups)
       /\ \/ s.ctr = M + 2 /\ Begins(s.ups, z, (I + 1) * M)
          \/ s.ctr = M + 1 /\ Within(m, s.ups, M + 1, z, G)
  <2>1. (M + 1) + 1 = M + 2
    BY <1>3
  <2> QED BY <2>1, <1>6, <1>8, <1>9 DEF Posts
<1>11. CASE s.ctr = M + 1 /\ Within(m, s.ups, M + 1, z, G)
  <2>1. r = With(n, s)
    BY <1>1, <1>3, <1>5, <1>11
  <2>2. /\ MainShape(n) /\ n.rowgroup_ctr = M + 1
        /\ n.buffer_full = m.buffer_full /\ n.rowgroups_avail = m.rowgroups_avail
        /\ n.whichptr = m.whichptr /\ n.context_state = m.context_state
        /\ n.iMCU_row_ctr = m.iMCU_row_ctr
        /\ n.xbuffer = m.xbuffer /\ n.workspace = m.workspace
    BY <1>11, SetsGroup DEF n
  <2>3. Keeps(n, w, I) /\ Holds(n, w, I + 1) /\ Within(n, s.ups, M + 1, z, G)
    BY <2>2, <1>1, <1>11, SameWindow
  <2>4. Postponed(n, s.ups, z)
    BY <2>2, <2>3, <1>1 DEF Postponed, Stands, I, w, G
  <2>5. MainInv(n, s.ups, z)
    BY <2>2, <2>4, <1>10 DEF MainInv, ContextMain
  <2> QED BY <2>1, <2>5, <1>8, ServesWhat
<1>12. CASE s.ctr = M + 2 /\ Begins(s.ups, z, (I + 1) * M)
  <2>1. /\ ready = [buffer_full |-> m.buffer_full, rowgroup_ctr |-> s.ctr,
                    rowgroups_avail |-> m.rowgroups_avail, whichptr |-> m.whichptr,
                    context_state |-> "prepare", iMCU_row_ctr |-> m.iMCU_row_ctr,
                    xbuffer |-> m.xbuffer, workspace |-> m.workspace]
    <3>1. ready = [m EXCEPT !.rowgroup_ctr = s.ctr, !.context_state = "prepare"]
      BY DEF ready
    <3> QED BY <3>1 DEF MainShape
  <2>2. /\ ready.buffer_full = TRUE /\ ready.whichptr = w
        /\ ready.context_state = "prepare" /\ ready.iMCU_row_ctr = m.iMCU_row_ctr
        /\ ready.xbuffer = m.xbuffer /\ ready.workspace = m.workspace
    BY <2>1 DEF w
  <2>3. MainShape(ready)
    <3>1. ready = [buffer_full |-> ready.buffer_full, rowgroup_ctr |-> ready.rowgroup_ctr,
             rowgroups_avail |-> ready.rowgroups_avail, whichptr |-> ready.whichptr,
             context_state |-> ready.context_state, iMCU_row_ctr |-> ready.iMCU_row_ctr,
             xbuffer |-> ready.xbuffer, workspace |-> ready.workspace]
      BY <2>1
    <3> QED BY <3>1, <2>2 DEF MainShape
  <2>4. Holds(ready, w, I + 1) /\ Keeps(ready, w, I)
    BY <2>2, <1>1, SameWindow DEF w
  <2>5. /\ ready.iMCU_row_ctr - 1 = I + 1 /\ (I + 1) - 1 = I /\ I + 1 # 0
        /\ I + 1 \in Nat
    <3>1. I \in Nat /\ ready.iMCU_row_ctr = I + 2
      BY <2>2, <1>1, <1>3
    <3> QED BY <3>1
  <2>6. Preparing(ready, s.ups, z)
    BY <2>2, <2>4, <2>5, <1>1, <1>12 DEF Preparing
  <2>7. MainInv(ready, s.ups, z)
    BY <2>3, <2>6, <1>10 DEF MainInv, ContextMain
  <2>8. CASE s.advance >= room
    <3>1. r = With(ready, s)
      BY <2>8, <1>1, <1>3, <1>5, <1>12
    <3> QED BY <3>1, <2>7, <1>8, ServesWhat
  <2>9. CASE ~(s.advance >= room)
    <3>1. s.advance \in Nat \ {0}
      BY <1>8 DEF Posts
    <3>2. s.advance < room /\ ~TwoPass
      BY <2>9, <3>1, <1>2 DEF Called
    <3>3. room - s.advance \in Nat \ {0}
      BY <3>1, <3>2, <1>2
    <3>4. Called(s.ups, s.post, z, room - s.advance)
      BY <3>2, <3>3, <1>9, <1>10 DEF Called
    <3>5. Serves(more, z, room - s.advance)
      BY <3>4, <2>3, <2>6, IMcuServes DEF more
    <3>6. r = [more EXCEPT !.rows = s.rows \o @, !.advance = s.advance + @]
      BY <2>9, <1>1, <1>3, <1>5, <1>12
    <3>7. more = With(more.main, [ups |-> more.ups, post |-> more.post,
                                  rows |-> more.rows, advance |-> more.advance])
      <4>1. PICK x : more = Processed(x, post_process_data(x, s.ups, s.post, x.rowgroup_ctr,
                                                           room - s.advance))
        BY DEF more, ProcessIMcu, ProcessRowGroups
      <4> DEFINE t == post_process_data(x, s.ups, s.post, x.rowgroup_ctr, room - s.advance)
      <4> HIDE DEF t
      <4>2. PICK v : more = With(v, t)
        BY <4>1 DEF Processed, t
      <4> QED BY <4>2 DEF With
    <3>8. /\ r.rows = s.rows \o more.rows /\ r.advance = s.advance + more.advance
          /\ r.main = more.main /\ r.ups = more.ups
      <4> DEFINE rows == s.rows \o more.rows
                 advance == s.advance + more.advance
      <4>1. r = [more EXCEPT !.rows = rows, !.advance = advance]
        BY <3>6
      <4> HIDE DEF rows, advance
      <4>2. more = [main |-> more.main, ups |-> more.ups, post |-> more.post,
                    rows |-> more.rows, advance |-> more.advance]
        BY <3>7 DEF With
      <4>3. r.rows = rows /\ r.advance = advance /\ r.main = more.main /\ r.ups = more.ups
        BY <4>1, <4>2
      <4> QED BY <4>3 DEF rows, advance
    <3>9. /\ IsRows(s.rows) /\ Len(s.rows) = s.advance
          /\ \A k \in 1 .. s.advance : InPlace(s.rows[k], y + (k - 1))
      BY <3>2, <1>8 DEF Posts
    <3>10. /\ more.advance \in Nat \ {0} /\ z + more.advance <= Height
           /\ more.advance <= room - s.advance
           /\ IsRows(more.rows) /\ Len(more.rows) = more.advance
           /\ \A k \in 1 .. more.advance : InPlace(more.rows[k], z + (k - 1))
           /\ z + more.advance < Height => MainInv(more.main, more.ups, z + more.advance)
      BY <3>2, <3>5 DEF Serves
    <3>11. /\ IsRows(r.rows) /\ Len(r.rows) = r.advance
           /\ \A k \in 1 .. r.advance :
                r.rows[k] = IF k <= s.advance THEN s.rows[k] ELSE more.rows[k - s.advance]
      <4> DEFINE a == s.rows
                 b == more.rows
      <4>1. IsRows(a) /\ IsRows(b) /\ Len(a) = s.advance /\ Len(b) = more.advance
        BY <3>9, <3>10
      <4> HIDE DEF a, b
      <4>2. /\ IsRows(a \o b) /\ Len(a \o b) = s.advance + more.advance
            /\ \A k \in 1 .. s.advance + more.advance :
                 (a \o b)[k] = IF k <= s.advance THEN a[k] ELSE b[k - s.advance]
        <5>1. /\ IsRows(a \o b) /\ Len(a \o b) = Len(a) + Len(b)
              /\ \A k \in 1 .. Len(a) + Len(b) :
                   (a \o b)[k] = IF k <= Len(a) THEN a[k] ELSE b[k - Len(a)]
          BY <4>1, RowsAppended, Zenon
        <5> QED BY <5>1, <4>1
      <4> QED BY <4>2, <3>8 DEF a, b
    <3>12. y + r.advance = z + more.advance /\ r.advance \in Nat \ {0} /\ r.advance <= room
      <4>1. s.advance \in Nat /\ more.advance \in Nat /\ y \in Nat /\ room \in Nat
            /\ more.advance > 0 /\ more.advance <= room - s.advance
        BY <3>1, <3>10, <1>2
      <4> QED BY <4>1, <3>8
    <3>13. ASSUME NEW k \in 1 .. r.advance PROVE InPlace(r.rows[k], y + (k - 1))
      <4>1. CASE k <= s.advance
        <5>1. k \in 1 .. s.advance
          BY <4>1, <3>1, <3>12
        <5> QED BY <5>1, <4>1, <3>9, <3>11
      <4>2. CASE ~(k <= s.advance)
        <5>1. /\ k - s.advance \in 1 .. more.advance
              /\ z + ((k - s.advance) - 1) = y + (k - 1)
          <6>1. s.advance \in Nat /\ more.advance \in Nat /\ y \in Nat
                /\ r.advance = s.advance + more.advance
            BY <3>1, <3>8, <3>10, <1>2
          <6> QED BY <6>1, <4>2
        <5>2. InPlace(more.rows[k - s.advance], z + ((k - s.advance) - 1))
          BY <5>1, <3>10
        <5> QED BY <5>1, <5>2, <4>2, <3>11
      <4> QED BY <4>1, <4>2
    <3> HIDE DEF z
    <3> QED BY <3>2, <3>8, <3>10, <3>11, <3>12, <3>13 DEF Serves
  <2> QED BY <2>8, <2>9
<1> QED BY <1>10, <1>11, <1>12

(* An iMCU row that is read into the buffer is the next one.                *)
LEMMA Filled ==
  ASSUME Sizes, NEW m, NEW u, NEW y, MainInv(m, u, y), m.buffer_full = FALSE,
         NEW d, d = decompress_data(m)
  PROVE  MainInv(d, u, y) /\ d.buffer_full = TRUE
<1>1. MainShape(m) /\ UpsShape(u) /\ m.iMCU_row_ctr \in Nat
  BY DEF MainInv, MainShape
<1>2. M \in Nat
  BY DEF Sizes
<1>3. Pointers(m)
  <2>1. CASE ~Context
    BY <2>1 DEF MainInv, PlainMain, Pointers
  <2>2. CASE Context
    <3>1. AtFirst(m, u, y) \/ Postponed(m, u, y)
      BY <2>2 DEF MainInv, ContextMain, Preparing, Processing
    <3> QED BY <2>2, <3>1 DEF AtFirst, Postponed, Pointers
  <2> QED BY <2>1, <2>2
<1>4. /\ MainShape(d) /\ d.buffer_full = TRUE /\ d.iMCU_row_ctr = m.iMCU_row_ctr + 1
      /\ d.whichptr = m.whichptr /\ d.xbuffer = m.xbuffer
      /\ d.context_state = m.context_state
      /\ d.rowgroup_ctr = m.rowgroup_ctr /\ d.rowgroups_avail = m.rowgroups_avail
      /\ Holds(d, m.whichptr, m.iMCU_row_ctr)
      /\ \A I \in Nat : Context /\ Keeps(m, m.whichptr, I) => Keeps(d, m.whichptr, I)
  BY <1>1, <1>3, Reads, Zenon
<1>5. d.iMCU_row_ctr - 1 = m.iMCU_row_ctr /\ d.iMCU_row_ctr - 2 = m.iMCU_row_ctr - 1
  BY <1>1, <1>4
<1>6. CASE ~Context
  <2>1. /\ m.whichptr = 0 /\ m.xbuffer = Fresh /\ m.rowgroup_ctr = 0
        /\ Begins(u, y, m.iMCU_row_ctr * M)
    BY <1>6 DEF MainInv, PlainMain
  <2>2. m.iMCU_row_ctr * M + 0 = m.iMCU_row_ctr * M /\ 0 \in 0 .. M - 1
    BY <1>1 DEF Sizes
  <2>3. Stands(d, u, 0, y, m.iMCU_row_ctr * M + 0)
    BY <2>1, <2>2 DEF Stands
  <2>4. PlainMain(d, u, y)
    BY <1>1, <1>4, <1>5, <2>1, <2>2, <2>3 DEF PlainMain
  <2> QED BY <1>1, <1>4, <1>6, <2>4 DEF MainInv
<1>7. CASE Context /\ AtFirst(m, u, y)
  <2>1. /\ m.context_state = "prepare" /\ m.iMCU_row_ctr = 0
        /\ m.xbuffer = Fresh /\ m.whichptr = 0 /\ Begins(u, y, 0)
    BY <1>7 DEF AtFirst
  <2>2. 0 * M = 0
    BY <1>2
  <2>3. Preparing(d, u, y)
    BY <1>4, <1>5, <2>1, <2>2 DEF Preparing
  <2> QED BY <1>1, <1>4, <1>7, <2>3 DEF MainInv, ContextMain
<1>8. CASE Context /\ Postponed(m, u, y)
  <2> DEFINE I == m.iMCU_row_ctr - 1
             w == m.whichptr
             G == I * M + (M - 1)
  <2>1. /\ m.context_state = "postponed" /\ I \in Nat /\ w \in {0, 1}
        /\ I + 1 < TotalIMcuRows
        /\ m.rowgroup_ctr = M + 1 /\ m.rowgroups_avail = M + 2
        /\ m.xbuffer = Wrapped /\ Keeps(m, w, I) /\ Begins(u, y, G)
    BY <1>8 DEF Postponed
  <2>2. I + 1 = m.iMCU_row_ctr
    BY <1>1
  <2>3. Holds(d, w, I + 1) /\ Keeps(d, w, I)
    BY <1>4, <1>8, <2>1, <2>2
  <2>4. Stands(d, u, M + 1, y, G)
    BY <2>1 DEF Stands
  <2>5. Postponed(d, u, y)
    BY <1>4, <1>5, <2>1, <2>3, <2>4 DEF Postponed
  <2> QED BY <1>1, <1>4, <1>8, <2>5 DEF MainInv, ContextMain
<1>9. Context => AtFirst(m, u, y) \/ Postponed(m, u, y)
  BY DEF MainInv, ContextMain, Preparing, Processing
<1> QED BY <1>6, <1>7, <1>8, <1>9

(* process_data brings rows when an iMCU row is in the buffer or can be     *)
(* read, and else nothing.                                                  *)
LEMMA MainServes ==
  ASSUME Sizes, NEW room, Called(ups, post, output_scanline, room),
         NEW m, MainInv(m, ups, output_scanline), m.buffer_full = TRUE,
         NEW r, r = process_data_main(m, room)
  PROVE  Serves(r, output_scanline, room)
<1>1. CASE ~Context
  <2>1. r = process_data_simple_main(m, ups, post, room)
    BY <1>1 DEF process_data_main
  <2> QED BY <1>1, <2>1, SimpleServes
<1>2. CASE Context
  <2>1. r = process_data_context_main(m, ups, post, room)
    BY <1>2 DEF process_data_main
  <2>2. MainShape(m)
    BY DEF MainInv
  <2>3. \/ Preparing(m, ups, output_scanline) \/ Processing(m, ups, output_scanline)
        \/ Postponed(m, ups, output_scanline)
    BY <1>2 DEF MainInv, ContextMain, AtFirst
  <2>4. CASE Preparing(m, ups, output_scanline) \/ Processing(m, ups, output_scanline)
    <3>1. r = ProcessIMcu(m, ups, post, room)
      BY <2>1, <2>4 DEF process_data_context_main, Preparing, Processing
    <3> QED BY <3>1, <1>2, <2>2, <2>4, IMcuServes
  <2>5. CASE Postponed(m, ups, output_scanline)
    BY <1>2, <2>1, <2>2, <2>5, PostponedServes
  <2> QED BY <2>3, <2>4, <2>5
<1> QED BY <1>1, <1>2

LEMMA DataServes ==
  ASSUME Sizes, NEW room, Called(ups, post, output_scanline, room),
         MainInv(main, ups, output_scanline), ~(pass = "emit" /\ TwoPass),
         NEW data_ready \in BOOLEAN, NEW r, r = process_data(room, data_ready)
  PROVE  \/ Serves(r, output_scanline, room)
         \/ ~data_ready /\ r = Nothing(main, ups, post)
<1>1. main.buffer_full \in BOOLEAN
  BY DEF MainInv, MainShape
<1>2. r = IF ~main.buffer_full /\ ~data_ready THEN Nothing(main, ups, post)
          ELSE process_data_main(IF main.buffer_full THEN main ELSE decompress_data(main),
                                 room)
  BY DEF process_data, TwoPass
<1>3. CASE main.buffer_full = TRUE
  BY <1>2, <1>3, MainServes
<1>4. CASE main.buffer_full = FALSE /\ data_ready
  <2> DEFINE d == decompress_data(main)
  <2>1. r = process_data_main(d, room)
    BY <1>2, <1>4
  <2>2. MainInv(d, ups, output_scanline) /\ d.buffer_full = TRUE
    BY <1>4, Filled
  <2> HIDE DEF d
  <2> QED BY <2>1, <2>2, MainServes
<1>5. CASE main.buffer_full = FALSE /\ ~data_ready
  BY <1>2, <1>5
<1> QED BY <1>1, <1>3, <1>4, <1>5

(* The emit pass gives the rows of the whole image.                         *)
LEMMA EmitServes ==
  ASSUME Sizes, TwoPass, NEW m, NEW u, NEW p, NEW y \in Nat, y < Height,
         PostInv(p, y, Height), NEW room \in Nat \ {0},
         NEW r, r = With(m, post_process_2pass(u, p, room))
  PROVE  /\ r.advance \in Nat \ {0} /\ r.advance <= room /\ y + r.advance <= Height
         /\ IsRows(r.rows) /\ Len(r.rows) = r.advance
         /\ \A k \in 1 .. r.advance : InPlace(r.rows[k], y + (k - 1))
         /\ PostInv(r.post, y + r.advance, Height)
<1> DEFINE s == p.starting_row
           x == p.next_row
           n == Lesser(MaxV - x, Lesser(room, Height - s))
           e(k) == p.whole_image[((s + x) + k) - 1]
           rows == [k \in 1 .. n |-> e(k)]
<1>1. /\ s \in Nat /\ x \in 0 .. MaxV - 1 /\ y = s + x
      /\ \A z \in 0 .. Height - 1 : InPlace(p.whole_image[z], z)
  BY DEF PostInv
<1>2. MaxV \in {1, 2} /\ Height \in Nat
  BY DEF Sizes, TwoPass
<1>3. r.advance = n /\ r.post = NextStrip(p, x + n) /\ r.rows = rows
  <2>1. post_process_2pass(u, p, room) =
          [ups |-> u, ctr |-> 0, post |-> NextStrip(p, x + n), rows |-> rows,
           advance |-> n]
    BY DEF post_process_2pass, Height
  <2> HIDE DEF rows, n, x
  <2> QED BY <2>1 DEF With
<1> HIDE DEF s, x, e
<1>4. n \in Nat \ {0} /\ n <= room /\ y + n <= Height /\ x + n <= MaxV
  BY <1>1, <1>2 DEF Lesser
<1> HIDE DEF n
<1>5. PostInv(r.post, y + r.advance, Height)
  <2>1. p.next_row + n <= MaxV /\ r.post = NextStrip(p, p.next_row + n) /\ n \in Nat
    BY <1>3, <1>4 DEF x
  <2> QED BY <2>1, <1>3, NextStripReached
<1>6. rows = [k \in 1 .. n |-> rows[k]] /\ \A k \in 1 .. n : rows[k] = e(k)
  OBVIOUS
<1> HIDE DEF rows
<1>7. IsRows(rows) /\ Len(rows) = n
  BY <1>4, <1>6, RowsOf
<1>8. ASSUME NEW k \in 1 .. n PROVE InPlace(rows[k], y + (k - 1))
  <2>1. ((s + x) + k) - 1 = y + (k - 1) /\ y + (k - 1) \in 0 .. Height - 1
    BY <1>1, <1>2, <1>4
  <2>2. e(k) = p.whole_image[y + (k - 1)]
    BY <2>1 DEF e
  <2> QED BY <2>1, <2>2, <1>1, <1>6
<1> QED BY <1>3, <1>4, <1>5, <1>7, <1>8

-----------------------------------------------------------------------------
(* The images and the way to decode them stay, and so does what is said of  *)
(* them: the invariants of the next state are those of this one.            *)
LEMMA ConfigStays ==
  ASSUME config' = config
  PROVE  /\ \A row, y : InPlace(row, y)' <=> InPlace(row, y)
         /\ \A m, u, y : MainInv(m, u, y)' <=> MainInv(m, u, y)
         /\ \A p, y, made : PostInv(p, y, made)' <=> PostInv(p, y, made)
         /\ Height' = Height /\ (TwoPass' <=> TwoPass)
<1>1. /\ Component' = Component /\ MaxV' = MaxV /\ Height' = Height /\ M' = M
      /\ (Context' <=> Context) /\ (Merged' <=> Merged) /\ (TwoPass' <=> TwoPass)
      /\ \A c : R(c)' = R(c)
  BY DEF Component, MaxV, Height, R, M, Context, Merged, TwoPass
<1>2. \A c : DownsampledHeight(c)' = DownsampledHeight(c)
  BY <1>1 DEF DownsampledHeight, CeilDiv
<1>3. /\ \A c, y : SourceRow(c, y)' = SourceRow(c, y)
      /\ \A c, r : Clamped(c, r)' = Clamped(c, r)
      /\ \A c, r : Content(c, r)' = Content(c, r)
      /\ \A c, r : Needed(c, r)' <=> Needed(c, r)
      /\ \A c : Around(c)' = Around(c)
  BY <1>1, <1>2 DEF SourceRow, Clamped, Content, Needed, Around, Dummy
<1>4. \A row, y : InPlace(row, y)' <=> InPlace(row, y)
  BY <1>1, <1>3 DEF InPlace
<1>5. \A m, w, c, k : Behind(m, w, c, k)' = Behind(m, w, c, k)
  BY DEF Behind, Unset
<1>6. \A m, g, G : Provides(m, g, G)' <=> Provides(m, g, G)
  BY <1>1, <1>3, <1>5 DEF Provides
<1>7. \A m, w, c, g : GroupRows(m, w, c, g)' = GroupRows(m, w, c, g)
  BY <1>1, <1>5 DEF GroupRows
<1>8. \A m, g : Upsampled(m, g)' = Upsampled(m, g)
  BY <1>1, <1>7 DEF Upsampled
<1>9. \A u, y : Remaining(u, y)' <=> Remaining(u, y)
  BY <1>1 DEF Remaining
<1>10. \A u, y, G : Begins(u, y, G)' <=> Begins(u, y, G)
  BY <1>1, <1>9 DEF Begins
<1>11. \A m, u, g, y, G : Within(m, u, g, y, G)' <=> Within(m, u, g, y, G)
  BY <1>1, <1>4, <1>8, <1>9 DEF Within
<1>12. \A m, u, g, y, G : Stands(m, u, g, y, G)' <=> Stands(m, u, g, y, G)
  BY <1>10, <1>11 DEF Stands
<1>13. \A c, k : Swapped(c, k)' = Swapped(c, k)
  BY <1>1 DEF Swapped
<1>14. \A w, c, k : Base(w, c, k)' = Base(w, c, k)
  BY <1>13 DEF Base
<1>15. /\ \A m, w, I : Holds(m, w, I)' <=> Holds(m, w, I)
       /\ \A m, w, I : Keeps(m, w, I)' <=> Keeps(m, w, I)
  BY <1>1, <1>3, <1>14 DEF Holds, Keeps
<1>16. Fresh' = Fresh
  BY <1>1, <1>13 DEF Fresh, make_funny_pointers, ListIndex, Unset
<1>17. Wrapped' = Wrapped
  BY <1>1, <1>16 DEF Wrapped, Fresh, set_wraparound_pointers, ListIndex
<1>18. TotalIMcuRows' = TotalIMcuRows /\ \A I : Last(I)' <=> Last(I)
  BY <1>1 DEF TotalIMcuRows, CeilDiv, Last
<1>19. NondummyRowGroups' = NondummyRowGroups
  BY <1>1, <1>2 DEF NondummyRowGroups, RowsLeft
<1>20. \A m, u, y : PlainMain(m, u, y)' <=> PlainMain(m, u, y)
  BY <1>1, <1>10, <1>12, <1>15, <1>16 DEF PlainMain
<1>21. \A m, u, y : AtFirst(m, u, y)' <=> AtFirst(m, u, y)
  BY <1>10, <1>16 DEF AtFirst
<1>22. \A m, u, y : Preparing(m, u, y)' <=> Preparing(m, u, y)
  BY <1>1, <1>10, <1>15, <1>16, <1>17 DEF Preparing
<1>23. \A m, u, y : Processing(m, u, y)' <=> Processing(m, u, y)
  BY <1>1, <1>6, <1>12, <1>15, <1>16, <1>17, <1>18, <1>19 DEF Processing
<1>24. \A m, u, y : Postponed(m, u, y)' <=> Postponed(m, u, y)
  BY <1>1, <1>10, <1>12, <1>15, <1>17, <1>18 DEF Postponed
<1>25. \A m : MainShape(m)' <=> MainShape(m)
  BY <1>1 DEF MainShape
<1>26. \A m, u, y : MainInv(m, u, y)' <=> MainInv(m, u, y)
  BY <1>1, <1>20, <1>21, <1>22, <1>23, <1>24, <1>25 DEF MainInv, ContextMain, UpsShape
<1>27. \A p, y, made : PostInv(p, y, made)' <=> PostInv(p, y, made)
  BY <1>1, <1>4 DEF PostInv, CeilDiv
<1> QED BY <1>1, <1>4, <1>26, <1>27

-----------------------------------------------------------------------------
(* The invariant holds at the beginning and is kept by every step.          *)
LEMMA RowsInvInit ==
  ASSUME ConfigsAssumption, Init
  PROVE  RowsInv
<1>1. Sizes /\ config \in Configs
  BY SizesOf DEF Init
<1>2. MaxV \in Nat \ {0} /\ Height \in Nat \ {0} /\ M \in Nat \ {0}
  BY <1>1 DEF Sizes
<1>3. output_scanline = 0 /\ image = <<>> /\ NeverEmptyHanded
  BY DEF Init, NeverEmptyHanded
<1>4. /\ pass \in {"prepass", "emit"} /\ (pass = "prepass" <=> TwoPass)
      /\ main = start_pass_main /\ ups = start_pass_upsample
  BY DEF Init, TwoPass
<1>5. IsRows(image) /\ Len(image) = 0
  BY <1>3 DEF IsRows
<1>6. MainInv(main, ups, 0)
  <2>1. MainShape(main) /\ main.buffer_full = FALSE /\ main.rowgroup_ctr = 0
        /\ main.whichptr = 0 /\ main.context_state = "prepare"
        /\ main.iMCU_row_ctr = 0 /\ main.xbuffer = Fresh
    <3> DEFINE area(c) == 0 .. (R(c) * (IF Context THEN M + 2 ELSE M)) - 1
               workspace == [c \in Component |-> [k \in area(c) |-> Unset]]
    <3>1. main = [buffer_full |-> FALSE, rowgroup_ctr |-> 0, rowgroups_avail |-> 0,
                  whichptr |-> 0, context_state |-> "prepare", iMCU_row_ctr |-> 0,
                  xbuffer |-> Fresh, workspace |-> workspace]
      BY <1>4 DEF start_pass_main, Fresh
    <3> HIDE DEF area
    <3>2. \A c \in Component : DOMAIN workspace[c] = area(c)
      OBVIOUS
    <3> HIDE DEF workspace
    <3>3. /\ main.buffer_full = FALSE /\ main.rowgroup_ctr = 0
          /\ main.whichptr = 0 /\ main.context_state = "prepare"
          /\ main.iMCU_row_ctr = 0 /\ main.xbuffer = Fresh
          /\ main.workspace = workspace
      BY <3>1
    <3>4. main = [buffer_full |-> main.buffer_full, rowgroup_ctr |-> main.rowgroup_ctr,
                  rowgroups_avail |-> main.rowgroups_avail, whichptr |-> main.whichptr,
                  context_state |-> main.context_state,
                  iMCU_row_ctr |-> main.iMCU_row_ctr,
                  xbuffer |-> main.xbuffer, workspace |-> main.workspace]
      BY <3>1
    <3>5. MainShape(main)
      <4>1. \A c \in Component : DOMAIN main.workspace[c] =
              0 .. (R(c) * (IF Context THEN M + 2 ELSE M)) - 1
        BY <3>2, <3>3 DEF area
      <4>2. main.buffer_full \in BOOLEAN
        BY <3>3, Zenon
      <4>3. main.iMCU_row_ctr \in Nat
        BY <3>3
      <4> QED BY <3>4, <4>1, <4>2, <4>3 DEF MainShape
    <3> QED BY <3>3, <3>5
  <2>2. /\ UpsShape(ups) /\ ups.next_row_out = MaxV /\ ups.rows_to_go = Height
        /\ ups.spare_full = FALSE
    BY <1>4 DEF start_pass_upsample, UpsShape, Height
  <2>3. Begins(ups, 0, 0)
    <3>1. Height - 0 = Height /\ 0 * MaxV = 0
      BY <1>2
    <3> QED BY <2>2, <3>1 DEF Begins, Remaining
  <2>4. 0 * M = 0
    BY <1>2
  <2>5. PlainMain(main, ups, 0)
    BY <2>1, <2>3, <2>4 DEF PlainMain
  <2>6. AtFirst(main, ups, 0)
    BY <2>1, <2>3 DEF AtFirst
  <2> QED BY <2>1, <2>2, <2>5, <2>6 DEF MainInv, ContextMain
<1>7. TwoPass => PostInv(post, 0, 0)
  <2> SUFFICES ASSUME TwoPass PROVE PostInv(post, 0, 0)
    OBVIOUS
  <2>1. post = [starting_row |-> 0, next_row |-> 0, whole_image |-> WholeImage]
    BY DEF Init, TwoPass, start_pass_dpost
  <2>2. DOMAIN WholeImage = 0 .. (CeilDiv(Height, MaxV) * MaxV) - 1
    BY DEF WholeImage, Height
  <2> QED BY <1>2, <2>1, <2>2 DEF PostInv
<1> QED BY <1>1, <1>2, <1>3, <1>4, <1>5, <1>6, <1>7 DEF RowsInv

LEMMA ImageAppended ==
  ASSUME NEW y \in Nat, IsRows(image), Len(image) = y,
         \A z \in 0 .. Len(image) - 1 : InPlace(image[z + 1], z),
         NEW rows, NEW n \in Nat, IsRows(rows), Len(rows) = n,
         \A k \in 1 .. n : InPlace(rows[k], y + (k - 1))
  PROVE  /\ IsRows(image \o rows) /\ Len(image \o rows) = y + n
         /\ \A z \in 0 .. Len(image \o rows) - 1 : InPlace((image \o rows)[z + 1], z)
<1> DEFINE s == image \o rows
<1>1. /\ IsRows(s) /\ Len(s) = y + n
      /\ \A k \in 1 .. y + n : s[k] = IF k <= y THEN image[k] ELSE rows[k - y]
  BY RowsAppended
<1> HIDE DEF s
<1>2. ASSUME NEW z \in 0 .. (y + n) - 1 PROVE InPlace(s[z + 1], z)
  <2>1. z + 1 \in 1 .. y + n /\ z \in Nat
    OBVIOUS
  <2>2. CASE z + 1 <= y
    <3>1. z \in 0 .. Len(image) - 1 /\ s[z + 1] = image[z + 1]
      BY <1>1, <2>1, <2>2
    <3> QED BY <3>1
  <2>3. CASE ~(z + 1 <= y)
    <3> DEFINE k == (z + 1) - y
    <3>1. k \in 1 .. n /\ y + (k - 1) = z
      BY <2>1, <2>3
    <3>2. s[z + 1] = rows[k]
      BY <1>1, <2>1, <2>3
    <3> HIDE DEF k
    <3>3. InPlace(rows[k], y + (k - 1))
      BY <3>1
    <3> QED BY <3>1, <3>2, <3>3
  <2> QED BY <2>2, <2>3
<1> QED BY <1>1, <1>2 DEF s

LEMMA Taken ==
  ASSUME NEW r, NEW asked, NEW data_ready, Take(r, asked, data_ready)
  PROVE  /\ main' = r.main /\ ups' = r.ups /\ post' = r.post
         /\ output_scanline' = output_scanline + r.advance
         /\ image' = image \o r.rows
         /\ call' = [asked |-> asked, got |-> r.advance, ready |-> data_ready]
         /\ config' = config /\ pass' = pass
BY DEF Take

(* A call that finds nothing.                                               *)
LEMMA NothingTaken ==
  ASSUME Sizes, RowsInv, NEW asked \in Nat, Take(Nothing(main, ups, post), asked, FALSE)
  PROVE  RowsInv'
<1>1. /\ main' = main /\ ups' = ups /\ post' = post
      /\ output_scanline' = output_scanline + 0 /\ image' = image \o <<>>
      /\ call' = [asked |-> asked, got |-> 0, ready |-> FALSE]
      /\ config' = config /\ pass' = pass
  <2> DEFINE r == Nothing(main, ups, post)
  <2>1. r.main = main /\ r.ups = ups /\ r.post = post /\ r.rows = <<>> /\ r.advance = 0
    BY DEF Nothing
  <2> HIDE DEF r
  <2> QED BY <2>1, Taken DEF r
<1>2. output_scanline' = output_scanline
  BY <1>1 DEF RowsInv, Sizes
<1>3. image' = image
  <2>1. IsRows(<<>>) /\ Len(<<>>) = 0
    BY DEF IsRows
  <2>2. IsRows(image)
    BY <2>1 DEF RowsInv
  <2>3. /\ IsRows(image') /\ Len(image') = Len(image) + 0
        /\ \A k \in 1 .. Len(image) + 0 :
             image'[k] = IF k <= Len(image) THEN image[k] ELSE <<>>[k - Len(image)]
    BY <1>1, <2>1, <2>2, RowsAppended
  <2>4. Len(image) \in Nat /\ Len(image') = Len(image)
        /\ \A k \in 1 .. Len(image) : image'[k] = image[k]
    BY <2>2, <2>3 DEF IsRows
  <2>5. /\ image = [k \in 1 .. Len(image) |-> image[k]]
        /\ image' = [k \in 1 .. Len(image) |-> image'[k]]
    BY <2>2, <2>3, <2>4 DEF IsRows
  <2> HIDE <1>1
  <2> QED BY <2>4, <2>5
<1>4. NeverEmptyHanded'
  BY <1>1 DEF NeverEmptyHanded
<1> QED BY <1>1, <1>2, <1>3, <1>4, ConfigStays DEF RowsInv, Sizes, IsRows

LEMMA DummyPassKeeps ==
  ASSUME Sizes, RowsInv, NEW data_ready \in BOOLEAN, DummyPass(data_ready)
  PROVE  RowsInv'
<1> DEFINE r == process_data(0, data_ready)
           y == output_scanline
<1>1. pass = "prepass" /\ y < Height /\ Take(r, MaxV, data_ready)
  BY DEF DummyPass, Height
<1>2. /\ y \in Nat /\ TwoPass /\ image = <<>> /\ MainInv(main, ups, y)
      /\ PostInv(post, y, y) /\ Height \in Nat /\ MaxV \in Nat /\ config \in Configs
  BY <1>1 DEF RowsInv, Sizes
<1>3. Called(ups, post, y, 0)
  BY <1>1, <1>2 DEF Called, MainInv
<1>4. Serves(r, y, 0) \/ (~data_ready /\ r = Nothing(main, ups, post))
  BY <1>1, <1>2, <1>3, DataServes
<1> HIDE DEF r
<1>5. CASE ~data_ready /\ r = Nothing(main, ups, post)
  <2>1. data_ready = FALSE
    BY <1>5
  <2>2. Take(Nothing(main, ups, post), MaxV, FALSE)
    BY <1>1, <1>5, <2>1
  <2> QED BY <1>2, <2>2, NothingTaken
<1>6. CASE Serves(r, y, 0)
  <2>1. /\ main' = r.main /\ ups' = r.ups /\ post' = r.post
        /\ output_scanline' = y + r.advance /\ image' = image \o r.rows
        /\ call' = [asked |-> MaxV, got |-> r.advance, ready |-> data_ready]
        /\ config' = config /\ pass' = pass
    BY <1>1, Taken
  <2> DEFINE n == r.advance
             z == y + n
  <2>2. /\ n \in Nat \ {0} /\ z <= Height /\ n <= MaxV /\ r.rows = <<>>
        /\ PostInv(r.post, z, z)
        /\ z < Height => MainInv(r.main, r.ups, z)
    BY <1>2, <1>6 DEF Serves
  <2> HIDE DEF n
  <2>3. z \in 0 .. Height /\ output_scanline' = z
    BY <1>2, <2>1, <2>2 DEF n
  <2>4. image' = <<>>
    BY <1>2, <2>1, <2>2
  <2>5. NeverEmptyHanded'
    <3>1. call'.asked = MaxV /\ call'.got = n
      BY <2>1 DEF n
    <3>2. n <= MaxV /\ n > 0
      BY <2>2
    <3> QED BY <3>1, <3>2 DEF NeverEmptyHanded
  <2>6. PostInv(post', output_scanline', output_scanline')
    BY <2>1, <2>2, <2>3
  <2>7. output_scanline' < Height => MainInv(main', ups', output_scanline')
    BY <2>1, <2>2, <2>3
  <2>8. PostInv(post, output_scanline, output_scanline)'
    BY <2>1, <2>6, ConfigStays
  <2>9. output_scanline' < Height => MainInv(main, ups, output_scanline)'
    BY <2>1, <2>7, ConfigStays
  <2>10. (\A x \in 0 .. Len(image) - 1 : InPlace(image[x + 1], x))'
    BY <2>4
  <2>11. pass' = "prepass" /\ TwoPass' /\ Height' = Height /\ config' \in Configs
    BY <1>1, <1>2, <2>1, ConfigStays
  <2> QED BY <2>3, <2>4, <2>5, <2>8, <2>9, <2>10, <2>11 DEF RowsInv
<1> QED BY <1>4, <1>5, <1>6

LEMMA EmitPassKeeps ==
  ASSUME Sizes, RowsInv, EmitPass
  PROVE  RowsInv'
<1>1. /\ pass = "prepass" /\ output_scanline >= Height /\ pass' = "emit"
      /\ output_scanline' = 0 /\ post' = start_pass_dpost(post.whole_image)
      /\ config' = config /\ main' = main /\ ups' = ups /\ image' = image /\ call' = call
  BY DEF EmitPass, Height
<1>2. /\ TwoPass /\ image = <<>> /\ PostInv(post, output_scanline, output_scanline)
      /\ output_scanline = Height /\ Height \in Nat \ {0} /\ MaxV \in Nat \ {0}
      /\ config \in Configs /\ NeverEmptyHanded
  BY <1>1 DEF RowsInv, Sizes
<1>3. PostInv(post', 0, Height)
  <2>1. post' = [starting_row |-> 0, next_row |-> 0, whole_image |-> post.whole_image]
    BY <1>1 DEF start_pass_dpost
  <2>2. post'.starting_row = 0 /\ post'.next_row = 0
        /\ post'.whole_image = post.whole_image
    BY <2>1
  <2>3. /\ DOMAIN post.whole_image = 0 .. (CeilDiv(Height, MaxV) * MaxV) - 1
        /\ \A z \in 0 .. Height - 1 : InPlace(post.whole_image[z], z)
    BY <1>2 DEF PostInv
  <2> QED BY <1>2, <2>1, <2>2, <2>3 DEF PostInv
<1>4. PostInv(post, 0, Height)'
  BY <1>1, <1>3, ConfigStays
<1>5. Height' = Height /\ TwoPass' /\ config' \in Configs
  BY <1>1, <1>2, ConfigStays
<1>6. NeverEmptyHanded'
  BY <1>1, <1>2 DEF NeverEmptyHanded
<1>7. IsRows(image') /\ Len(image') = 0
  BY <1>1, <1>2 DEF IsRows
<1>8. (\A x \in 0 .. Len(image) - 1 : InPlace(image[x + 1], x))'
  BY <1>7
<1>9. output_scanline' \in 0 .. Height
  BY <1>1, <1>2
<1> QED BY <1>1, <1>4, <1>5, <1>6, <1>7, <1>8, <1>9 DEF RowsInv

LEMMA ReadKeeps ==
  ASSUME Sizes, RowsInv, NEW max_lines \in Nat \ {0}, NEW data_ready \in BOOLEAN,
         jpeg_read_scanlines(max_lines, data_ready)
  PROVE  RowsInv'
<1> DEFINE r == process_data(max_lines, data_ready)
           y == output_scanline
<1>1. pass = "emit" /\ y < Height /\ Take(r, max_lines, data_ready)
  BY DEF jpeg_read_scanlines, Height
<1>2. /\ y \in Nat /\ IsRows(image) /\ Len(image) = y
      /\ \A z \in 0 .. Len(image) - 1 : InPlace(image[z + 1], z)
      /\ ~TwoPass => MainInv(main, ups, y)
      /\ TwoPass => PostInv(post, y, Height)
      /\ Height \in Nat /\ config \in Configs
  BY <1>1 DEF RowsInv, Sizes
<1>3. \/ ~TwoPass /\ ~data_ready /\ r = Nothing(main, ups, post)
      \/ /\ r.advance \in Nat \ {0} /\ r.advance <= max_lines /\ y + r.advance <= Height
         /\ IsRows(r.rows) /\ Len(r.rows) = r.advance
         /\ \A k \in 1 .. r.advance : InPlace(r.rows[k], y + (k - 1))
         /\ TwoPass => PostInv(r.post, y + r.advance, Height)
         /\ ~TwoPass /\ y + r.advance < Height => MainInv(r.main, r.ups, y + r.advance)
  <2>1. CASE TwoPass
    <3>1. r = With(main, post_process_2pass(ups, post, max_lines))
      BY <1>1, <2>1 DEF process_data, TwoPass
    <3>2. PostInv(post, y, Height) /\ y \in Nat /\ y < Height
      BY <1>1, <1>2, <2>1
    <3> HIDE DEF r, y
    <3>3. /\ r.advance \in Nat \ {0} /\ r.advance <= max_lines /\ y + r.advance <= Height
          /\ IsRows(r.rows) /\ Len(r.rows) = r.advance
          /\ \A k \in 1 .. r.advance : InPlace(r.rows[k], y + (k - 1))
          /\ PostInv(r.post, y + r.advance, Height)
      BY <2>1, <3>1, <3>2, EmitServes, ZenonT(60)
    <3> QED BY <2>1, <3>3
  <2>2. CASE ~TwoPass
    <3>1. Called(ups, post, y, max_lines)
      BY <1>1, <1>2, <2>2 DEF Called, MainInv
    <3>2. Serves(r, y, max_lines) \/ (~data_ready /\ r = Nothing(main, ups, post))
      BY <1>2, <2>2, <3>1, DataServes
    <3> HIDE DEF r
    <3> QED BY <2>2, <3>2 DEF Serves
  <2> QED BY <2>1, <2>2
<1> HIDE DEF r
<1>4. CASE ~data_ready /\ r = Nothing(main, ups, post)
  <2>1. data_ready = FALSE
    BY <1>4
  <2>2. Take(Nothing(main, ups, post), max_lines, FALSE)
    BY <1>1, <1>4, <2>1
  <2> QED BY <2>2, NothingTaken
<1>5. CASE /\ r.advance \in Nat \ {0} /\ r.advance <= max_lines /\ y + r.advance <= Height
           /\ IsRows(r.rows) /\ Len(r.rows) = r.advance
           /\ \A k \in 1 .. r.advance : InPlace(r.rows[k], y + (k - 1))
           /\ TwoPass => PostInv(r.post, y + r.advance, Height)
           /\ ~TwoPass /\ y + r.advance < Height => MainInv(r.main, r.ups, y + r.advance)
  <2>1. /\ main' = r.main /\ ups' = r.ups /\ post' = r.post
        /\ output_scanline' = y + r.advance /\ image' = image \o r.rows
        /\ call' = [asked |-> max_lines, got |-> r.advance, ready |-> data_ready]
        /\ config' = config /\ pass' = pass
    BY <1>1, Taken
  <2> DEFINE n == r.advance
             z == y + n
  <2> HIDE DEF n
  <2>2. z \in 0 .. Height /\ output_scanline' = z /\ n \in Nat
    BY <1>2, <1>5, <2>1 DEF n
  <2>3. /\ IsRows(image') /\ Len(image') = z
        /\ \A x \in 0 .. Len(image') - 1 : InPlace(image'[x + 1], x)
    <3> DEFINE rows == r.rows
    <3>1. IsRows(rows) /\ Len(rows) = n /\ \A k \in 1 .. n : InPlace(rows[k], y + (k - 1))
      BY <1>5 DEF n
    <3>2. image' = image \o rows
      BY <2>1
    <3> HIDE DEF rows, y
    <3>3. /\ y \in Nat /\ n \in Nat /\ IsRows(image) /\ Len(image) = y
          /\ \A x \in 0 .. Len(image) - 1 : InPlace(image[x + 1], x)
      BY <1>2, <2>2
    <3>4. /\ IsRows(image \o rows) /\ Len(image \o rows) = y + n
          /\ \A x \in 0 .. Len(image \o rows) - 1 : InPlace((image \o rows)[x + 1], x)
      BY <3>1, <3>3, ImageAppended
    <3> QED BY <3>2, <3>4
  <2>4. NeverEmptyHanded'
    <3>1. call'.asked = max_lines /\ call'.got = n
      BY <2>1 DEF n
    <3>2. n <= max_lines /\ n > 0
      BY <1>5 DEF n
    <3> QED BY <3>1, <3>2 DEF NeverEmptyHanded
  <2>5. TwoPass => PostInv(post', output_scanline', Height)
    BY <1>5, <2>1
  <2>6. ~TwoPass /\ output_scanline' < Height => MainInv(main', ups', output_scanline')
    BY <1>5, <2>1
  <2>7. /\ Height' = Height /\ (TwoPass' <=> TwoPass)
        /\ \A p, x, made : PostInv(p, x, made)' <=> PostInv(p, x, made)
        /\ \A m, u, x : MainInv(m, u, x)' <=> MainInv(m, u, x)
        /\ \A row, x : InPlace(row, x)' <=> InPlace(row, x)
    BY <2>1, ConfigStays
  <2>8. TwoPass' => PostInv(post, output_scanline, Height)'
    BY <2>5, <2>7
  <2>9. ~TwoPass' /\ output_scanline' < Height' => MainInv(main, ups, output_scanline)'
    BY <2>6, <2>7
  <2>10. (\A x \in 0 .. Len(image) - 1 : InPlace(image[x + 1], x))'
    BY <2>3, <2>7
  <2>11. pass' = "emit" /\ config' \in Configs
    BY <1>1, <1>2, <2>1
  <2> QED BY <2>2, <2>3, <2>4, <2>7, <2>8, <2>9, <2>10, <2>11 DEF RowsInv
<1> QED BY <1>3, <1>4, <1>5

LEMMA RowsInvStutters ==
  ASSUME RowsInv, UNCHANGED vars
  PROVE  RowsInv'
<1>1. /\ config' = config /\ pass' = pass /\ main' = main /\ ups' = ups /\ post' = post
      /\ output_scanline' = output_scanline /\ image' = image /\ call' = call
  BY DEF vars
<1>2. NeverEmptyHanded' <=> NeverEmptyHanded
  BY <1>1 DEF NeverEmptyHanded
<1> QED BY <1>1, <1>2, ConfigStays DEF RowsInv, IsRows

(* The inductive invariant says what an application is promised.            *)
LEMMA RowsInvShows ==
  ASSUME Sizes, RowsInv
  PROVE  RightRows
<1>1. /\ output_scanline \in 0 .. Height
      /\ pass = "emit" => Len(image) = output_scanline
      /\ \A y \in 0 .. Len(image) - 1 : InPlace(image[y + 1], y)
      /\ NeverEmptyHanded /\ Height \in Nat
  BY DEF RowsInv, Sizes
<1>2. ASSUME NEW y \in 0 .. Len(image) - 1, NEW c \in Component
      PROVE  /\ Near(c, y, 0) = SourceRow(c, y)
             /\ Context /\ R(c) < MaxV =>
                  \A d \in {-1, 1} : Near(c, y, d) = Clamped(c, SourceRow(c, y) + d)
  <2> DEFINE x == image[y + 1][c]
  <2>1. InPlace(image[y + 1], y)
    BY <1>1
  <2>2. /\ Near(c, y, 0) = x.of[x.at + 0]
        /\ \A d \in {-1, 1} : Near(c, y, d) = x.of[x.at + d]
    BY DEF Near, Shown
  <2>3. /\ x.at \in Nat /\ x.of[x.at] = SourceRow(c, y)
        /\ Context /\ R(c) < MaxV =>
             \A d \in {-1, 1} : x.of[x.at + d] = Clamped(c, SourceRow(c, y) + d)
    BY <2>1 DEF InPlace
  <2>4. x.at + 0 = x.at
    BY <2>3
  <2> HIDE DEF x
  <2> QED BY <2>2, <2>3, <2>4
<1>3. RowsInPlace
  BY <1>2 DEF RowsInPlace
<1>4. NeighboursInPlace
  BY <1>2 DEF NeighboursInPlace
<1>5. WithinImage
  BY <1>1 DEF WithinImage, Height
<1> QED BY <1>1, <1>3, <1>4, <1>5 DEF RightRows

(* Every row the application gets, of any image and in any pieces, is the   *)
(* one of its place in the image, with its neighbours where context rows    *)
(* are used, and a call that finds data brings rows (jdmainct.c, jdpostct.c,*)
(* jdsample.c, jdmerge.c, jdapistd.c:115).                                  *)
THEOREM RightRowsAlways ==
  ASSUME ConfigsAssumption
  PROVE  Spec => []RightRows
<1>1. Init => RowsInv
  BY RowsInvInit
<1>2. RowsInv /\ [Next]_vars => RowsInv'
  <2> SUFFICES ASSUME RowsInv, [Next]_vars PROVE RowsInv'
    OBVIOUS
  <2>1. Sizes
    BY SizesOf DEF RowsInv
  <2>2. ASSUME NEW ready \in BOOLEAN, DummyPass(ready) PROVE RowsInv'
    BY <2>1, <2>2, DummyPassKeeps
  <2>3. CASE EmitPass
    BY <2>1, <2>3, EmitPassKeeps
  <2>4. ASSUME NEW n \in 1 .. MaxV + 1, NEW ready \in BOOLEAN,
               jpeg_read_scanlines(n, ready)
        PROVE  RowsInv'
    <3>1. n \in Nat \ {0}
      BY <2>1 DEF Sizes
    <3> QED BY <2>1, <2>4, <3>1, ReadKeeps
  <2>5. CASE UNCHANGED vars
    BY <2>5, RowsInvStutters
  <2> QED BY <2>2, <2>3, <2>4, <2>5 DEF Next
<1>3. RowsInv => RightRows
  BY SizesOf, RowsInvShows DEF RowsInv
<1> QED BY <1>1, <1>2, <1>3, PTL DEF Spec
==============================================================================
