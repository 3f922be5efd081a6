---------------------------- MODULE RowPipeline -----------------------------
(***************************************************************************)
(* The way of a row of samples from the coefficient controller to the      *)
(* application: the main controller's buffer (jdmainct.c), with or without *)
(* context rows, the postprocessing controller (jdpostct.c), and the       *)
(* upsampler, separate (jdsample.c) or merged with colour conversion       *)
(* (jdmerge.c).  Every one of them stops in the middle when the            *)
(* application's buffer is full.                                           *)
(*                                                                         *)
(* A row of samples is its number in its component.  What upsampling and   *)
(* conversion compute is left out: an output row is the rows it was made   *)
(* from.                                                                   *)
(***************************************************************************)
EXTENDS RowImage

CONSTANT
  Configs   \* images and ways to decode them

(* Of each of them: no row group is higher than max_v_samp_factor; context  *)
(* rows need two row groups in an iMCU row (jdmainct.c:495); merged         *)
(* upsampling is for row groups of one or two rows (jdmaster.c:57-62).  In  *)
(* the emit pass strips are of one or two rows: of a higher one, emitted in *)
(* pieces, the rest is not held against the bottom of the image             *)
(* (jdpostct.c:224), and lines from below it would count.                   *)
ConfigsAssumption ==
  \A x \in Configs :
    /\ x.M \in Nat \ {0} /\ x.v \in Nat \ {0} /\ x.height \in Nat \ {0}
    /\ \A c \in DOMAIN x.rgroup : x.rgroup[c] \in 1 .. x.v
    /\ 1 \in DOMAIN x.rgroup
    /\ x.upsampler \in {"separate", "context", "merged"}
    /\ x.post \in {"direct", "onepass", "twopass"}
    /\ x.upsampler = "context" => x.M >= 2
    /\ x.upsampler = "merged" => x.v <= 2
    /\ x.post = "twopass" => x.v <= 2

Dummy == -1     \* a row below the image, from the padding of its last blocks
Unset == -2     \* a row nothing was written to; a pointer that was not set

VARIABLES
  main,     \* my_main_controller, and the rows in its workspace
  ups,      \* my_upsampler
  post      \* my_post_controller and its buffer

vars == <<config, pass, main, ups, post, output_scanline, image, call>>

Lesser(a, b) == IF a < b THEN a ELSE b
M == config.M
TotalIMcuRows == CeilDiv(config.height, MaxV * M)

-----------------------------------------------------------------------------
(* The two lists of pointers to the workspace.                              *)

ListIndex(c) == 0 - R(c) .. (R(c) * (M + 3)) - 1

(* Mutant: the second list keeps the order of the workspace. *)
NotSwapped(c, k) == k

(* The second list has the last four row groups of the workspace swapped.   *)
Swapped(c, k) ==
  IF k \in R(c) * (M - 2) .. (R(c) * M) - 1 THEN k + 2 * R(c)
  ELSE IF k \in R(c) * M .. (R(c) * (M + 2)) - 1 THEN k - 2 * R(c)
  ELSE k

make_funny_pointers ==
  [w \in {0, 1} |-> [c \in Component |-> [k \in ListIndex(c) |->
     CASE k < 0 -> IF w = 0 THEN 0 ELSE Unset
       [] k >= R(c) * (M + 2) -> Unset
       [] OTHER -> IF w = 0 THEN k ELSE Swapped(c, k)]]]

(* After the first iMCU row the lists wrap around.                          *)
set_wraparound_pointers(x) ==
  [w \in {0, 1} |-> [c \in Component |-> [k \in ListIndex(c) |->
     CASE k < 0 -> x[w][c][k + (R(c) * (M + 2))]
       [] k >= R(c) * (M + 2) -> x[w][c][k - (R(c) * (M + 2))]
       [] OTHER -> x[w][c][k]]]]

RowsLeft(c) ==
  LET rows == DownsampledHeight(c) % (R(c) * M)
  IN  IF rows = 0 THEN R(c) * M ELSE rows

(* In the last iMCU row the last real row is duplicated below itself.       *)
set_bottom_pointers(x, w) ==
  [x EXCEPT ![w] = [c \in Component |-> [k \in ListIndex(c) |->
     IF k \in RowsLeft(c) .. (RowsLeft(c) + (2 * R(c))) - 1
     THEN x[w][c][RowsLeft(c) - 1] ELSE x[w][c][k]]]]

NondummyRowGroups == ((RowsLeft(1) - 1) \div R(1)) + 1

(* The coefficient controller fills the buffer with an iMCU row.            *)
decompress_data(m) ==
  [m EXCEPT
     !.buffer_full = TRUE,
     !.iMCU_row_ctr = m.iMCU_row_ctr + 1,
     !.workspace = [c \in Component |-> [k \in DOMAIN m.workspace[c] |->
        LET at == {j \in 0 .. (R(c) * M) - 1 : m.xbuffer[m.whichptr][c][j] = k}
            row == (m.iMCU_row_ctr * R(c) * M) + (CHOOSE j \in at : TRUE)
        IN  IF at = {} THEN m.workspace[c][k]
            ELSE IF row < DownsampledHeight(c) THEN row ELSE Dummy]]]

(* The row of a component behind entry k of the list in use.                *)
Behind(m, w, c, k) ==
  LET p == m.xbuffer[w][c][k]
  IN  IF p = Unset THEN Unset ELSE m.workspace[c][p]

(* The row group at in_row_group_ctr, with the groups around it if context  *)
(* rows are provided.                                                       *)
GroupRows(m, w, c, group) ==
  [k \in IF Context THEN 0 - R(c) .. (2 * R(c)) - 1 ELSE 0 .. R(c) - 1 |->
     Behind(m, w, c, (group * R(c)) + k)]

-----------------------------------------------------------------------------
(* An upsampler is called with the main controller's buffer, the row group  *)
(* counter, and room for some rows.  It returns itself, the counter and the *)
(* rows it made.                                                            *)

start_pass_upsample ==
  [next_row_out |-> MaxV, rows_to_go |-> config.height, color_buf |-> <<>>,
   spare_full |-> FALSE, spare |-> <<>>]

(* fullsize_upsample leaves a pointer to the input in color_buf, the other  *)
(* methods a copy made of it.                                               *)
Upsampled(m, group) ==
  [c \in Component |->
     IF R(c) = MaxV THEN [pointer |-> TRUE, list |-> m.whichptr, group |-> group]
     ELSE [pointer |-> FALSE, rows |-> GroupRows(m, m.whichptr, c, group)]]

(* Row number k of what is in color_buf, for the colour converter.          *)
Converted(m, color_buf, k) ==
  [c \in Component |->
     [at |-> (k * R(c)) \div MaxV,
      of |-> IF color_buf[c].pointer
             THEN [j \in 0 .. R(c) - 1 |->
                     Behind(m, color_buf[c].list, c, (color_buf[c].group * R(c)) + j)]
             ELSE color_buf[c].rows]]

(* Rows that can be made at once: what is left of the row group, of the     *)
(* image and of the room.                                                   *)
NumRows(next, u, room) == Lesser(MaxV - next, Lesser(u.rows_to_go, room))

NextRowGroup(next, ctr) == IF next >= MaxV THEN ctr + 1 ELSE ctr

ConvertedRows(m, filled, ctr, num_rows) ==
  LET next == filled.next_row_out + num_rows
  IN  [ups |-> [filled EXCEPT !.next_row_out = next, !.rows_to_go = @ - num_rows],
       ctr |-> NextRowGroup(next, ctr),
       rows |-> [k \in 1 .. num_rows |->
                   Converted(m, filled.color_buf, (filled.next_row_out + k) - 1)]]

sep_upsample(m, u, ctr, room) ==
  IF u.next_row_out >= MaxV
  THEN ConvertedRows(m, [u EXCEPT !.color_buf = Upsampled(m, ctr), !.next_row_out = 0],
                     ctr, NumRows(0, u, room))
  ELSE ConvertedRows(m, u, ctr, NumRows(u.next_row_out, u, room))

(* With a row group of two rows, the second is spared when there is room    *)
(* for one only.                                                            *)
Spared(u, num_rows) == ~u.spare_full /\ num_rows <= 1

merged_2v_upsample(m, u, ctr, room) ==
  LET pair == [k \in {0, 1} |->
                 [c \in Component |-> [at |-> (k * R(c)) \div MaxV,
                                       of |-> GroupRows(m, m.whichptr, c, ctr)]]]
      num_rows == IF u.spare_full THEN 1
                  ELSE Lesser(2, Lesser(u.rows_to_go, room))
      spared == Spared(u, num_rows)
  IN  [ups |-> [u EXCEPT !.spare_full = spared, !.rows_to_go = @ - num_rows,
                         !.spare = IF spared THEN pair[1] ELSE @],
       ctr |-> IF spared THEN ctr ELSE ctr + 1,
       rows |-> IF u.spare_full THEN <<u.spare>>
                ELSE [k \in 1 .. num_rows |-> pair[k - 1]]]

merged_1v_upsample(m, u, ctr) ==
  [ups |-> u, ctr |-> ctr + 1,
   rows |-> << [c \in Component |->
                  [at |-> 0, of |-> GroupRows(m, m.whichptr, c, ctr)]] >>]

upsample(m, u, ctr, room) ==
  CASE config.upsampler # "merged" -> sep_upsample(m, u, ctr, room)
    [] config.upsampler = "merged" /\ MaxV = 2 -> merged_2v_upsample(m, u, ctr, room)
    [] config.upsampler = "merged" /\ MaxV = 1 -> merged_1v_upsample(m, u, ctr)

-----------------------------------------------------------------------------
(* The postprocessing controller; a strip is max_v_samp_factor rows high.   *)

start_pass_dpost(whole_image) ==
  [starting_row |-> 0, next_row |-> 0, whole_image |-> whole_image]

NextStrip(p, next) ==
  IF next >= MaxV
  THEN [p EXCEPT !.starting_row = @ + MaxV, !.next_row = 0]
  ELSE [p EXCEPT !.next_row = next]

(* What process_data hands over: the controllers, the counter, the rows and *)
(* how far the output counter moves.                                        *)
Result(up, p) ==
  [ups |-> up.ups, ctr |-> up.ctr, post |-> p, rows |-> up.rows,
   advance |-> Len(up.rows)]

post_process_1pass(m, u, p, ctr, room) ==
  Result(upsample(m, u, ctr, Lesser(room, MaxV)), p)

(* The rows go to the whole image; none is emitted, but they count.         *)
Stored(up, p) ==
  LET whole == [y \in DOMAIN p.whole_image |->
                  LET k == (y - (p.starting_row + p.next_row)) + 1
                  IN  IF k \in DOMAIN up.rows THEN up.rows[k] ELSE p.whole_image[y]]
  IN  [Result(up, NextStrip([p EXCEPT !.whole_image = whole],
                            p.next_row + Len(up.rows))) EXCEPT !.rows = <<>>]

post_process_prepass(m, u, p, ctr) ==
  Stored(upsample(m, u, ctr, MaxV - p.next_row), p)

post_process_2pass(u, p, room) ==
  LET num_rows == Lesser(MaxV - p.next_row,
                         Lesser(room, config.height - p.starting_row))
      first == p.starting_row + p.next_row
  IN  [ups |-> u, ctr |-> 0, post |-> NextStrip(p, p.next_row + num_rows),
       rows |-> [k \in 1 .. num_rows |-> p.whole_image[(first + k) - 1]],
       advance |-> num_rows]

post_process_data(m, u, p, ctr, room) ==
  CASE config.post = "direct" -> Result(upsample(m, u, ctr, room), p)
    [] config.post = "onepass" -> post_process_1pass(m, u, p, ctr, room)
    [] config.post = "twopass" -> post_process_prepass(m, u, p, ctr)

-----------------------------------------------------------------------------
(* The main controller *)

start_pass_main ==
  [buffer_full |-> FALSE, rowgroup_ctr |-> 0, rowgroups_avail |-> 0,
   whichptr |-> 0, context_state |-> "prepare", iMCU_row_ctr |-> 0,
   xbuffer |-> make_funny_pointers,
   workspace |-> [c \in Component |->
                    [k \in 0 .. (R(c) * (IF Context THEN M + 2 ELSE M)) - 1 |-> Unset]]]

Nothing(m, u, p) == [main |-> m, ups |-> u, post |-> p, rows |-> <<>>, advance |-> 0]

(* What a call of the postprocessor leaves, with the main controller m.     *)
With(m, r) ==
  [main |-> m, ups |-> r.ups, post |-> r.post, rows |-> r.rows, advance |-> r.advance]

Counted(m, r) ==
  LET done == r.ctr >= M
  IN  With([m EXCEPT !.buffer_full = ~done,
                     !.rowgroup_ctr = IF done THEN 0 ELSE r.ctr], r)

process_data_simple_main(m, u, p, room) ==
  Counted(m, post_process_data(m, u, p, m.rowgroup_ctr, room))

Prepared(m) ==
  LET last == m.iMCU_row_ctr = TotalIMcuRows
  IN  [m EXCEPT
         !.rowgroup_ctr = 0,
         !.rowgroups_avail = IF last THEN NondummyRowGroups ELSE M - 1,
         !.xbuffer = IF last THEN set_bottom_pointers(@, m.whichptr) ELSE @,
         !.context_state = "process"]

(* The row groups of an iMCU row but the last, which waits for the rows     *)
(* below it.                                                                *)
Processed(m, r) ==
  With(IF r.ctr < m.rowgroups_avail THEN [m EXCEPT !.rowgroup_ctr = r.ctr]
       ELSE [m EXCEPT
               !.xbuffer = IF m.iMCU_row_ctr = 1
                           THEN set_wraparound_pointers(@) ELSE @,
               !.whichptr = 1 - @,
               !.buffer_full = FALSE,
               !.rowgroup_ctr = M + 1, !.rowgroups_avail = M + 2,
               !.context_state = "postponed"], r)

ProcessRowGroups(m, u, p, room) ==
  Processed(m, post_process_data(m, u, p, m.rowgroup_ctr, room))

ProcessIMcu(m, u, p, room) ==
  ProcessRowGroups(IF m.context_state = "prepare" THEN Prepared(m) ELSE m, u, p, room)

(* The last row group of the iMCU row before; if there is room left, the    *)
(* new one follows in the same call.                                        *)
AfterPostponed(m, r, room) ==
  LET ready == [m EXCEPT !.rowgroup_ctr = r.ctr, !.context_state = "prepare"]
  IN  IF r.ctr < m.rowgroups_avail THEN With([m EXCEPT !.rowgroup_ctr = r.ctr], r)
      ELSE IF r.advance >= room THEN With(ready, r)
      ELSE [ProcessIMcu(ready, r.ups, r.post, room - r.advance)
              EXCEPT !.rows = r.rows \o @, !.advance = r.advance + @]

process_data_context_main(m, u, p, room) ==
  IF m.context_state # "postponed" THEN ProcessIMcu(m, u, p, room)
  ELSE AfterPostponed(m, post_process_data(m, u, p, m.rowgroup_ctr, room), room)

(* process_data for room rows; data_ready is false if the source suspends   *)
(* the coefficient controller.                                              *)
process_data_main(m, room) ==
  IF Context THEN process_data_context_main(m, ups, post, room)
  ELSE process_data_simple_main(m, ups, post, room)

process_data(room, data_ready) ==
  IF pass = "emit" /\ config.post = "twopass"
  THEN With(main, post_process_2pass(ups, post, room))
  ELSE IF ~main.buffer_full /\ ~data_ready THEN Nothing(main, ups, post)
  ELSE process_data_main(IF main.buffer_full THEN main ELSE decompress_data(main), room)

-----------------------------------------------------------------------------
(* jround_up of the height to whole strips; the array is not zeroed.        *)
WholeImage ==
  [y \in 0 .. (CeilDiv(config.height, MaxV) * MaxV) - 1 |->
     [c \in Component |-> [at |-> 0, of |-> [k \in {0} |-> Unset]]]]

Init ==
  /\ config \in Configs
  /\ pass = IF config.post = "twopass" THEN "prepass" ELSE "emit"
  /\ main = start_pass_main
  /\ ups = start_pass_upsample
  /\ post = start_pass_dpost(IF config.post = "twopass" THEN WholeImage ELSE <<>>)
  /\ output_scanline = 0
  /\ image = <<>>
  /\ call = [asked |-> 0, got |-> 0, ready |-> FALSE]

Take(result, asked, data_ready) ==
  \E r \in {result} :
    /\ main' = r.main /\ ups' = r.ups /\ post' = r.post
    /\ output_scanline' = output_scanline + r.advance
    /\ image' = image \o r.rows
    /\ call' = [asked |-> asked, got |-> r.advance, ready |-> data_ready]
    /\ UNCHANGED <<config, pass>>

(* A turn of the loop over the dummy pass in output_pass_setup.             *)
DummyPass(data_ready) ==
  /\ pass = "prepass" /\ output_scanline < config.height
  /\ Take(process_data(0, data_ready), MaxV, data_ready)

(* Mutant: the emit pass starts where the dummy pass ended. *)
EmitPassKeepingCount ==
  /\ pass = "prepass" /\ output_scanline >= config.height
  /\ pass' = "emit"
  /\ post' = start_pass_dpost(post.whole_image)
  /\ UNCHANGED <<config, main, ups, output_scanline, image, call>>

EmitPass ==
  /\ pass = "prepass" /\ output_scanline >= config.height
  /\ pass' = "emit"
  /\ output_scanline' = 0
  /\ post' = start_pass_dpost(post.whole_image)
  /\ UNCHANGED <<config, main, ups, image, call>>

jpeg_read_scanlines(max_lines, data_ready) ==
  /\ pass = "emit" /\ output_scanline < config.height
  /\ Take(process_data(max_lines, data_ready), max_lines, data_ready)

(* The application asks for up to one row more than a strip.                *)
Next ==
  \/ \E ready \in BOOLEAN : DummyPass(ready)
  \/ EmitPass
  \/ \E n \in 1 .. MaxV + 1, ready \in BOOLEAN : jpeg_read_scanlines(n, ready)

Unfinished == pass = "prepass" \/ output_scanline < config.height

(* The data do come: what is fair is a call that finds them.  Such a call   *)
(* and EmitPass are possible as long as there are rows to come, so that     *)
(* this is weak fairness of theirs, without TLC having to ask of each state *)
(* whether they are enabled.                                                *)
DataCome ==
  []<>~Unfinished \/ []<><<call'.ready \/ pass' # pass>>_vars

Spec == Init /\ [][Next]_vars
FairSpec == Spec /\ DataCome

-----------------------------------------------------------------------------
(* The whole image comes out.                                               *)
AllRowsCome == <>(Len(image) = config.height)
=============================================================================
