------------------------- MODULE VirtualArrayProofs -------------------------
(***************************************************************************)
(* A virtual array is a plain array, for every height, every height of a   *)
(* strip, every chunk and every amount of memory.                          *)
(***************************************************************************)
EXTENDS VirtualArray, TLAPS

(* The arithmetic of realize_virt_arrays: the window is as high as a strip  *)
(* or as the array, and no higher than the array.                           *)
LEMMA WindowHeight ==
  ASSUME ArrayAssumption, NEW avail \in Available
  PROVE  /\ WindowRows(avail) \in 1 .. RowsInArray
         /\ ~Fits(avail) => WindowRows(avail) >= MaxAccess
         /\ Fits(avail) => WindowRows(avail) = RowsInArray
<1> DEFINE m == MaxMinheights(avail)
           q == (RowsInArray - 1) \div MaxAccess
<1>1. avail \in Nat /\ MaxAccess \in Nat \ {0} /\ RowsInArray \in Nat \ {0}
  BY DEF ArrayAssumption
<1>2. m \in Nat \ {0}
  BY <1>1 DEF MaxMinheights
<1>3. q \in Nat /\ q * MaxAccess <= RowsInArray - 1
  BY <1>1
<1>4. m * MaxAccess \in Nat /\ m * MaxAccess >= MaxAccess
  <2> HIDE DEF m
  <2> QED BY <1>1, <1>2, SMTT(30)
<1>5. ~Fits(avail) => m * MaxAccess <= RowsInArray - 1
  <2> SUFFICES ASSUME ~Fits(avail) PROVE m * MaxAccess <= RowsInArray - 1
    OBVIOUS
  <2>1. q >= m
    <3> HIDE DEF m, q
    <3> QED BY <1>2, <1>3 DEF Fits, Minheights, m, q
  <2> HIDE DEF m, q
  <2>2. m * MaxAccess <= q * MaxAccess
    BY <2>1, <1>1, <1>2, <1>3, SMTT(30)
  <2> QED BY <2>2, <1>1, <1>3, <1>4
<1> HIDE DEF m, q
<1> QED BY <1>1, <1>4, <1>5 DEF WindowRows, m

(* What is transferred is within the window, what is defined and the array. *)
LEMMA ChunkBounds ==
  ASSUME TypeOK, MoreChunks
  PROVE  /\ ChunkLength \in Nat \ {0}
         /\ ChunkLength <= rowsperchunk
         /\ i + ChunkLength <= rows_in_mem
         /\ cur_start_row + i + ChunkLength <= first_undef_row
         /\ cur_start_row + i + ChunkLength <= RowsInArray
         /\ \/ ChunkLength = rowsperchunk
            \/ i + ChunkLength = rows_in_mem
            \/ cur_start_row + i + ChunkLength = first_undef_row
            \/ cur_start_row + i + ChunkLength = RowsInArray
BY ArrayAssumption DEF ArrayAssumption, TypeOK, MoreChunks, ChunkLength, Lesser

LEMMA InitInv == Init => Inv
<1> USE ArrayAssumption DEF ArrayAssumption, Init
<1> SUFFICES ASSUME Init PROVE Inv
  OBVIOUS
<1>1. TypeOK
  BY DEF TypeOK, Row
<1>2. WindowFits /\ HeldInWindow /\ AccessInHand /\ Saved
  BY DEF WindowFits, HeldInWindow, AccessInHand, Saved, InWindow, BadAccess
<1> QED BY <1>1, <1>2 DEF Inv

(* The window, the access in hand and what is saved survive every step.     *)
LEMMA NextInv == Inv /\ [Next]_vars => Inv'
<1> USE ArrayAssumption DEF ArrayAssumption
<1> SUFFICES ASSUME Inv, [Next]_vars PROVE Inv'
  OBVIOUS
<1>1. CASE RealizeVirtArrays
  <2>1. PICK avail \in Available :
          /\ rows_in_mem' = WindowRows(avail)
          /\ b_s_open' = ~Fits(avail)
          /\ rowsperchunk' = Lesser(ChunkRows, WindowRows(avail))
          /\ mem' = [k \in 0 .. WindowRows(avail) - 1 |-> Junk]
    BY <1>1 DEF RealizeVirtArrays
  <2>2. /\ WindowRows(avail) \in 1 .. RowsInArray
        /\ ~Fits(avail) => WindowRows(avail) >= MaxAccess
        /\ Fits(avail) => WindowRows(avail) = RowsInArray
    BY WindowHeight
  <2>3. Fits(avail) \in BOOLEAN
    BY DEF Fits
  <2>4. rowsperchunk' \in Nat \ {0}
    BY <2>1, <2>2 DEF Lesser
  <2>5. TypeOK'
    <3>1. b_s_open' \in BOOLEAN
      BY <2>1, <2>3
    <3>2. mem' \in [0 .. rows_in_mem' - 1 -> Value]
      BY <2>1
    <3>3. /\ rows_in_mem' \in Nat /\ cur_start_row' = 0
          /\ first_undef_row' = 0 /\ dirty' = FALSE
      BY <1>1, <2>1, <2>2 DEF RealizeVirtArrays
    <3>4. UNCHANGED <<pc, file, req, held, i, file_offset>>
      BY <1>1 DEF RealizeVirtArrays, loop
    <3>5. /\ pc' \in {"idle", "check", "flush", "place", "load", "define",
                      "refused", "virtual_bug"}
          /\ held' \in BOOLEAN
          /\ file' \in [Row -> Value]
          /\ req' \in [start : Nat, end : Nat, writable : BOOLEAN]
          /\ i' \in Nat /\ file_offset' \in Nat
      BY <3>4 DEF Inv, TypeOK
    <3>6. first_undef_row' \in 0 .. RowsInArray /\ cur_start_row' \in Nat
      BY <3>3
    <3>7. pre_zero' \in BOOLEAN
      BY <1>1 DEF RealizeVirtArrays
    <3> QED BY <3>1, <3>2, <3>3, <3>5, <3>6, <3>7, <2>4 DEF TypeOK
  <2>6. WindowFits'
    <3>1. IF b_s_open' THEN rows_in_mem' >= MaxAccess
                       ELSE rows_in_mem' = RowsInArray
      BY <2>1, <2>2, <2>3
    <3>2. /\ rows_in_mem' \in 1 .. RowsInArray /\ cur_start_row' = 0
      BY <1>1, <2>1, <2>2 DEF RealizeVirtArrays
    <3> QED BY <3>1, <3>2, <2>4 DEF WindowFits
  <2>7. HeldInWindow' /\ AccessInHand' /\ Saved'
    BY <1>1, <2>1, <2>2 DEF RealizeVirtArrays, Inv, TypeOK, WindowFits,
       HeldInWindow, AccessInHand, Saved, Same, loop
  <2> QED BY <2>5, <2>6, <2>7 DEF Inv
<1>2. ASSUME NEW s \in 0 .. RowsInArray, NEW n \in 0 .. MaxAccess + 1,
             NEW w \in BOOLEAN, AccessVirtArray(s, n, w)
      PROVE  Inv'
  <2>1. /\ req' \in [start : Nat, end : Nat, writable : BOOLEAN]
        /\ req'.start <= req'.end
    BY <1>2 DEF AccessVirtArray
  <2>2. TypeOK'
    BY <1>2, <2>1 DEF AccessVirtArray, Inv, TypeOK, window, loop
  <2>3. WindowFits' /\ HeldInWindow' /\ AccessInHand'
    BY <1>2, <2>1 DEF AccessVirtArray, Inv, TypeOK, WindowFits, HeldInWindow,
       AccessInHand, window
  <2>4. Saved'
    BY <1>2 DEF AccessVirtArray, Inv, TypeOK, Saved, Same, window
  <2> QED BY <2>2, <2>3, <2>4 DEF Inv
<1>3. CASE Check
  <2>1. /\ pc' \in {"refused", "define", "virtual_bug", "flush", "place"}
        /\ pc' # "refused" => ~BadAccess
        /\ pc' = "define" => InWindow
        /\ pc' = "virtual_bug" => ~InWindow /\ ~b_s_open
        /\ pc' \in {"flush", "place"} => b_s_open
        /\ pc' = "place" => ~dirty
    BY <1>3 DEF Check, Inv, TypeOK
  <2>2. rows_in_mem > 0 \/ BadAccess
    BY DEF BadAccess, Inv, TypeOK
  <2>3. pc' # "refused" => rows_in_mem' > 0
    BY <1>3, <2>1, <2>2 DEF Check, window, BadAccess, Inv, TypeOK
  <2>4. (pc' # "refused" => ~BadAccess') /\ (pc' = "define" => InWindow')
    BY <1>3, <2>1 DEF Check, window, BadAccess, InWindow
  <2> QED BY <1>3, <2>1, <2>3, <2>4 DEF Check, Inv, TypeOK, WindowFits,
          HeldInWindow, AccessInHand, Saved, Same, window
<1>4. CASE WriteChunk
  <2>1. /\ ChunkLength \in Nat \ {0}
        /\ ChunkLength <= rowsperchunk
        /\ i + ChunkLength <= rows_in_mem
        /\ cur_start_row + i + ChunkLength <= first_undef_row
        /\ cur_start_row + i + ChunkLength <= RowsInArray
        /\ \/ ChunkLength = rowsperchunk
           \/ i + ChunkLength = rows_in_mem
           \/ cur_start_row + i + ChunkLength = first_undef_row
           \/ cur_start_row + i + ChunkLength = RowsInArray
    BY <1>4, ChunkBounds DEF WriteChunk, Inv
  <2>2. file_offset = cur_start_row + i
    BY <1>4, <2>1 DEF WriteChunk, Inv, TypeOK, Saved
  <2>3. TypeOK'
    BY <1>4, <2>1, <2>2 DEF WriteChunk, NextChunk, Inv, TypeOK, window
  <2>4. WindowFits' /\ HeldInWindow' /\ AccessInHand'
    BY <1>4 DEF WriteChunk, Inv, WindowFits, HeldInWindow, AccessInHand,
       BadAccess, InWindow, window
  <2>5. ASSUME NEW k \in 0 .. rows_in_mem' - 1, k < i' PROVE Same(k)'
    <3>1. CASE k < i
      BY <1>4, <2>1, <2>2, <2>5, <3>1
      DEF WriteChunk, Inv, TypeOK, WindowFits, Saved, Same, Row, window
    <3>2. CASE k >= i /\ k < i + ChunkLength
      BY <1>4, <2>1, <2>2, <2>5, <3>2
      DEF WriteChunk, Inv, TypeOK, Same, Row, window
    <3>3. CASE k >= i + ChunkLength
      BY <1>4, <2>1, <2>5, <3>3
      DEF WriteChunk, NextChunk, Inv, TypeOK, WindowFits, Same, window
    <3> QED BY <2>1, <2>5, <3>1, <3>2, <3>3 DEF Inv, TypeOK
  <2>6. \/ file_offset' = cur_start_row' + i'
        \/ first_undef_row' <= cur_start_row' + i'
        \/ rows_in_mem' <= i'
    BY <1>4, <2>1, <2>2 DEF WriteChunk, NextChunk, Inv, TypeOK, window
  <2>7. Saved'
    BY <1>4, <2>5, <2>6 DEF WriteChunk, Inv, AccessInHand, Saved, Same, window
  <2> QED BY <2>3, <2>4, <2>7 DEF Inv
<1>5. CASE Flushed
  <2>1. ~MoreChunks /\ (i < rows_in_mem =>
          \/ first_undef_row <= cur_start_row + i
          \/ RowsInArray <= cur_start_row + i)
    BY <1>5 DEF Flushed, MoreChunks, ChunkLength, Lesser, Inv, TypeOK, WindowFits,
       AccessInHand, BadAccess
  <2>2. \A k \in 0 .. rows_in_mem - 1 : Same(k)
    BY <1>5, <2>1 DEF Flushed, Inv, TypeOK, Saved, Same
  <2> QED BY <1>5, <2>2 DEF Flushed, Inv, TypeOK, WindowFits, HeldInWindow,
          AccessInHand, Saved, Same, BadAccess, InWindow, window, loop
<1>6. CASE PlaceWindow
  <2>1. /\ WindowStart \in 0 .. RowsInArray
        /\ WindowStart <= req.start
        /\ req.end <= WindowStart + rows_in_mem
    BY <1>6 DEF PlaceWindow, WindowStart, Inv, TypeOK, WindowFits, AccessInHand,
       BadAccess
  <2>2. TypeOK'
    BY <1>6, <2>1 DEF PlaceWindow, Inv, TypeOK, window
  <2>3. WindowFits' /\ HeldInWindow' /\ AccessInHand'
    BY <1>6, <2>1 DEF PlaceWindow, Inv, TypeOK, WindowFits, HeldInWindow,
       AccessInHand, BadAccess, InWindow, window
  <2>4. Saved'
    BY <1>6, <2>1 DEF PlaceWindow, Inv, TypeOK, Saved, Same, window
  <2> QED BY <2>2, <2>3, <2>4 DEF Inv
<1>7. CASE ReadChunk
  <2>1. /\ ChunkLength \in Nat \ {0}
        /\ ChunkLength <= rowsperchunk
        /\ i + ChunkLength <= rows_in_mem
        /\ cur_start_row + i + ChunkLength <= first_undef_row
        /\ cur_start_row + i + ChunkLength <= RowsInArray
        /\ \/ ChunkLength = rowsperchunk
           \/ i + ChunkLength = rows_in_mem
           \/ cur_start_row + i + ChunkLength = first_undef_row
           \/ cur_start_row + i + ChunkLength = RowsInArray
    BY <1>7, ChunkBounds DEF ReadChunk, Inv
  <2>2. file_offset = cur_start_row + i
    BY <1>7, <2>1 DEF ReadChunk, Inv, TypeOK, Saved
  <2>3. TypeOK'
    BY <1>7, <2>1, <2>2 DEF ReadChunk, NextChunk, Inv, TypeOK, window, Row
  <2>4. WindowFits' /\ HeldInWindow' /\ AccessInHand'
    BY <1>7 DEF ReadChunk, Inv, WindowFits, HeldInWindow, AccessInHand,
       BadAccess, InWindow, window
  <2>5. ASSUME NEW k \in 0 .. rows_in_mem' - 1, k < i' PROVE Same(k)'
    <3>1. CASE k < i
      BY <1>7, <2>1, <2>2, <2>5, <3>1
      DEF ReadChunk, Inv, TypeOK, WindowFits, Saved, Same, Row, window
    <3>2. CASE k >= i /\ k < i + ChunkLength
      BY <1>7, <2>1, <2>2, <2>5, <3>2
      DEF ReadChunk, Inv, TypeOK, Same, Row, window
    <3>3. CASE k >= i + ChunkLength
      BY <1>7, <2>1, <2>5, <3>3
      DEF ReadChunk, NextChunk, Inv, TypeOK, WindowFits, Same, window
    <3> QED BY <2>1, <2>5, <3>1, <3>2, <3>3 DEF Inv, TypeOK
  <2>6. \/ file_offset' = cur_start_row' + i'
        \/ first_undef_row' <= cur_start_row' + i'
        \/ rows_in_mem' <= i'
    BY <1>7, <2>1, <2>2 DEF ReadChunk, NextChunk, Inv, TypeOK, window
  <2>7. Saved'
    BY <1>7, <2>5, <2>6 DEF ReadChunk, Inv, AccessInHand, Saved, Same, window
  <2> QED BY <2>3, <2>4, <2>7 DEF Inv
<1>8. CASE Loaded
  <2>1. i < rows_in_mem => \/ first_undef_row <= cur_start_row + i
                          \/ RowsInArray <= cur_start_row + i
    BY <1>8 DEF Loaded, MoreChunks, ChunkLength, Lesser, Inv, TypeOK, WindowFits,
       AccessInHand, BadAccess
  <2>2. \A k \in 0 .. rows_in_mem - 1 : Same(k)
    BY <1>8, <2>1 DEF Loaded, Inv, TypeOK, Saved, Same
  <2> QED BY <1>8, <2>2 DEF Loaded, Inv, TypeOK, WindowFits, HeldInWindow,
          AccessInHand, Saved, Same, BadAccess, InWindow, window, loop
<1>9. CASE RefuseAccess
  BY <1>9 DEF RefuseAccess, Inv, TypeOK, WindowFits, HeldInWindow, AccessInHand,
     Saved, Same, BadAccess, InWindow, window, loop
<1>10. CASE GiveAccess
  <2>1. /\ first_undef_row' \in 0 .. RowsInArray
        /\ first_undef_row' >= first_undef_row
        /\ req.writable => req.end <= first_undef_row'
        /\ ~req.writable => first_undef_row' = first_undef_row
    BY <1>10 DEF GiveAccess, Inv, TypeOK, AccessInHand, BadAccess, Undefined
  <2>2. TypeOK'
    BY <1>10, <2>1 DEF GiveAccess, Inv, TypeOK, window, loop
  <2>3. WindowFits' /\ HeldInWindow' /\ AccessInHand'
    BY <1>10, <2>1 DEF GiveAccess, Inv, TypeOK, WindowFits, HeldInWindow,
       AccessInHand, BadAccess, InWindow, window, loop
  <2>4. ASSUME NEW k \in 0 .. rows_in_mem - 1, ~dirty', b_s_open' PROVE Same(k)'
    <3>1. ~dirty /\ ~req.writable /\ b_s_open
      BY <1>10, <2>4 DEF GiveAccess, window, Inv, TypeOK
    <3>2. Same(k)
      BY <1>10, <3>1 DEF GiveAccess, Inv, Saved
    <3>3. cur_start_row + k < first_undef_row => k \notin Zeroed
      BY <1>10 DEF GiveAccess, Zeroed, UndefRow, Inv, TypeOK
    <3> QED BY <1>10, <2>1, <3>1, <3>2, <3>3 DEF GiveAccess, Same, window, Inv, TypeOK
  <2>5. Saved'
    BY <1>10, <2>4 DEF GiveAccess, Saved, window
  <2> QED BY <2>2, <2>3, <2>5 DEF Inv
<1>11. ASSUME NEW r \in Row, NEW v \in Value, StoreRow(r, v) PROVE Inv'
  <2>1. r - cur_start_row \in 0 .. rows_in_mem - 1
    BY <1>11 DEF StoreRow, Inv, TypeOK, HeldInWindow, Row
  <2>2. TypeOK'
    BY <1>11, <2>1 DEF StoreRow, Inv, TypeOK, window, loop
  <2>3. WindowFits' /\ HeldInWindow' /\ AccessInHand'
    BY <1>11 DEF StoreRow, Inv, WindowFits, HeldInWindow, AccessInHand,
       BadAccess, InWindow, window
  <2>4. Saved'
    BY <1>11 DEF StoreRow, Inv, AccessInHand, Saved, window
  <2> QED BY <2>2, <2>3, <2>4 DEF Inv
<1>12. CASE FreePool
  <2>1. 0 .. rows_in_mem' - 1 = {}
    BY <1>12 DEF FreePool
  <2>2. mem' \in [0 .. rows_in_mem' - 1 -> Value] /\ file' \in [Row -> Value]
    BY <1>12, <2>1 DEF FreePool
  <2>3. TypeOK'
    <3>1. /\ pc' = "idle" /\ rows_in_mem' \in Nat /\ rowsperchunk' \in Nat
          /\ cur_start_row' \in Nat /\ first_undef_row' \in 0 .. RowsInArray
          /\ i' \in Nat /\ file_offset' \in Nat
      BY <1>12 DEF FreePool
    <3>2. b_s_open' \in BOOLEAN /\ dirty' \in BOOLEAN /\ held' \in BOOLEAN
      BY <1>12 DEF FreePool
    <3>3. req' \in [start : Nat, end : Nat, writable : BOOLEAN]
      BY <1>12 DEF FreePool, Inv, TypeOK
    <3>4. pre_zero' \in BOOLEAN
      BY <1>12 DEF FreePool, Inv, TypeOK
    <3> QED BY <2>2, <3>1, <3>2, <3>3, <3>4 DEF TypeOK
  <2>4. WindowFits' /\ HeldInWindow' /\ AccessInHand' /\ Saved'
    BY <1>12 DEF FreePool, Inv, WindowFits, HeldInWindow, AccessInHand, Saved
  <2> QED BY <2>3, <2>4 DEF Inv
<1>13. CASE UNCHANGED vars
  BY <1>13 DEF vars, Inv, TypeOK, WindowFits, HeldInWindow, AccessInHand, Saved,
     Same, BadAccess, InWindow, window, loop
<1>14. CASE \E s \in 0 .. RowsInArray, n \in 0 .. MaxAccess + 1, w \in BOOLEAN :
               AccessVirtArray(s, n, w)
  BY <1>2, <1>14
<1>15. CASE \E r \in Row, v \in Value : StoreRow(r, v)
  BY <1>11, <1>15
<1> QED
  BY <1>1, <1>3, <1>4, <1>5, <1>6, <1>7, <1>8, <1>9, <1>10, <1>12, <1>13, <1>14,
     <1>15 DEF Next

(* The invariant of the window holds for every height, chunk and memory.    *)
THEOREM Invariant == Spec => []Inv
BY InitInv, NextInv, PTL DEF Spec

(* A strip in hand lies in the window.                                      *)
THEOREM HeldInWindowAlways == Spec => []HeldInWindow
<1>1. Inv => HeldInWindow
  BY DEF Inv
<1> QED BY Invariant, <1>1, PTL

(* JERR_VIRTUAL_BUG is never reported: without a backing store the window   *)
(* is the array.                                                            *)
LEMMA BugFree == Inv /\ NoVirtualBug /\ [Next]_vars => NoVirtualBug'
<1> SUFFICES ASSUME Inv, NoVirtualBug, [Next]_vars PROVE NoVirtualBug'
  OBVIOUS
<1>1. CASE Check
  <2>1. ~BadAccess /\ ~b_s_open => InWindow
    BY DEF Inv, TypeOK, WindowFits, AccessInHand, BadAccess, InWindow
  <2> QED BY <1>1, <2>1 DEF Check, NoVirtualBug
<1>2. CASE ~Check
  BY <1>2 DEF NoVirtualBug, Next, vars, RealizeVirtArrays, AccessVirtArray,
     WriteChunk, Flushed, PlaceWindow, ReadChunk, Loaded, RefuseAccess,
     GiveAccess, StoreRow, FreePool
<1> QED BY <1>1, <1>2

THEOREM NoVirtualBugAlways == Spec => []NoVirtualBug
<1>1. Init => NoVirtualBug
  BY DEF Init, NoVirtualBug
<1> QED BY Invariant, BugFree, <1>1, PTL DEF Spec

-----------------------------------------------------------------------------
(* The rows outside the loop of do_sarray_io hold what they did.            *)
LEMMA RowOfWindow ==
  ASSUME TypeOK, NEW r \in Row
  PROVE  r \in cur_start_row .. cur_start_row + rows_in_mem - 1
           <=> r - cur_start_row \in 0 .. rows_in_mem - 1
BY ArrayAssumption DEF ArrayAssumption, TypeOK, Row

LEMMA MovesKeepContent ==
  ASSUME Inv, Flushed \/ WriteChunk \/ PlaceWindow \/ ReadChunk \/ Loaded,
         NEW r \in Row
  PROVE  Content(r)' = Content(r)
<1> USE ArrayAssumption DEF ArrayAssumption
<1>1. r \in Nat /\ TypeOK
  BY DEF Inv, Row
<1>2. CASE WriteChunk
  <2>1. /\ ChunkLength \in Nat \ {0}
        /\ i + ChunkLength <= rows_in_mem
        /\ cur_start_row + i + ChunkLength <= first_undef_row
    BY <1>2, ChunkBounds DEF WriteChunk, Inv
  <2>2. file_offset = cur_start_row + i
    BY <1>2, <2>1 DEF WriteChunk, Inv, TypeOK, Saved
  <2>3. r \notin cur_start_row .. cur_start_row + rows_in_mem - 1 =>
          file'[r] = file[r]
    BY <1>1, <1>2, <2>1, <2>2 DEF WriteChunk, TypeOK
  <2> QED BY <1>2, <2>3 DEF WriteChunk, Content, window
<1>3. CASE Flushed
  BY <1>3 DEF Flushed, Content, window
<1>4. CASE PlaceWindow
  <2>1. \A k \in 0 .. rows_in_mem - 1 : Same(k)
    BY <1>4 DEF PlaceWindow, Inv, AccessInHand, Saved
  <2>2. r \in cur_start_row .. cur_start_row + rows_in_mem - 1
          /\ r < first_undef_row => mem[r - cur_start_row] = file[r]
    BY <1>1, <2>1 DEF Same, TypeOK
  <2>3. pc = "place" /\ pc' = "load"
        /\ first_undef_row' = first_undef_row /\ file' = file
    BY <1>4 DEF PlaceWindow
  <2>4. Content(r) = IF r >= first_undef_row THEN Zero ELSE file[r]
    BY <1>1, <2>2, <2>3 DEF Content, TypeOK
  <2>5. Content(r)' = IF r >= first_undef_row THEN Zero ELSE file[r]
    BY <2>3 DEF Content
  <2> QED BY <2>4, <2>5
<1>5. CASE ReadChunk
  BY <1>5 DEF ReadChunk, Content, window
<1>6. CASE Loaded
  <2>1. i < rows_in_mem => \/ first_undef_row <= cur_start_row + i
                          \/ RowsInArray <= cur_start_row + i
    BY <1>6 DEF Loaded, MoreChunks, ChunkLength, Lesser, Inv, TypeOK, WindowFits,
       AccessInHand, BadAccess
  <2>2. \A k \in 0 .. rows_in_mem - 1 : Same(k)
    BY <1>6, <2>1 DEF Loaded, Inv, TypeOK, Saved, Same
  <2>3. r \in cur_start_row .. cur_start_row + rows_in_mem - 1
          /\ r < first_undef_row => mem[r - cur_start_row] = file[r]
    BY <1>1, <2>2 DEF Same, TypeOK
  <2>4. pc = "load" /\ pc' = "define"
        /\ UNCHANGED <<first_undef_row, file, mem, cur_start_row, rows_in_mem>>
    BY <1>6 DEF Loaded, window
  <2>5. Content(r) = IF r >= first_undef_row THEN Zero ELSE file[r]
    BY <2>4 DEF Content
  <2>6. Content(r)' = IF r >= first_undef_row THEN Zero ELSE file[r]
    BY <1>1, <2>3, <2>4 DEF Content, TypeOK
  <2> QED BY <2>5, <2>6
<1> QED BY <1>2, <1>3, <1>4, <1>5, <1>6

(* The plain array of the first state.                                      *)
LEMMA InitPlain == Init => Plain!Init
<1> SUFFICES ASSUME Init PROVE Plain!Init
  OBVIOUS
<1>1. PlainContent = [r \in Row |-> Zero]
  BY DEF Init, PlainContent, Content
<1>2. PlainView = [r \in {} |-> Zero]
  BY DEF Init, PlainView, HeldRows
<1>3. pre_zero \in BOOLEAN
  BY DEF Init
<1> QED
  BY <1>1, <1>2, <1>3 DEF Init, Plain!Init, Plain!Row, Plain!NoRows, Row, PlainStatus

(* A step that moves nothing the caller sees.                               *)
LEMMA Stutters ==
  ASSUME PlainContent' = PlainContent, PlainStatus' = PlainStatus,
         UNCHANGED <<rows_in_mem, pre_zero, first_undef_row, req>>, ~held, ~held'
  PROVE  UNCHANGED Plain!vars
<1>1. PlainView' = PlainView
  BY DEF PlainView, HeldRows
<1> QED BY <1>1 DEF Plain!vars

(* Every step of the window is a step of the plain array, or none.          *)
LEMMA StepPlain == Inv /\ NoVirtualBug /\ [Next]_vars => [Plain!Next]_(Plain!vars)
<1> USE ArrayAssumption DEF ArrayAssumption
<1> SUFFICES ASSUME Inv, NoVirtualBug, [Next]_vars
             PROVE  Plain!Next \/ UNCHANGED Plain!vars
  OBVIOUS
<1>0. TypeOK /\ WindowFits /\ HeldInWindow /\ AccessInHand /\ Saved
  BY DEF Inv
<1>1. CASE RealizeVirtArrays
  <2>1. first_undef_row = 0 /\ first_undef_row' = 0 /\ ~held /\ ~held'
    BY <1>0, <1>1 DEF RealizeVirtArrays, WindowFits
  <2>2. PlainContent' = PlainContent
    BY <2>1 DEF PlainContent, Content, Row
  <2>3. PlainView' = PlainView
    BY <2>1 DEF PlainView, HeldRows
  <2>4. rows_in_mem = 0 /\ rows_in_mem' > 0 /\ req' = req
    <3>1. PICK avail \in Available : rows_in_mem' = WindowRows(avail)
      BY <1>1 DEF RealizeVirtArrays
    <3>2. WindowRows(avail) \in 1 .. RowsInArray
      BY WindowHeight
    <3> QED BY <1>1, <3>1, <3>2 DEF RealizeVirtArrays
  <2>5. PlainStatus = "idle" /\ PlainStatus' = "idle"
    BY <1>1 DEF RealizeVirtArrays, PlainStatus
  <2>6. pre_zero' \in BOOLEAN
    BY <1>1 DEF RealizeVirtArrays
  <2> QED BY <2>1, <2>2, <2>3, <2>4, <2>5, <2>6 DEF Plain!Realize, Plain!Next
<1>2. ASSUME NEW s \in 0 .. RowsInArray, NEW n \in 0 .. MaxAccess + 1,
             NEW w \in BOOLEAN, AccessVirtArray(s, n, w)
      PROVE  Plain!Ask
  <2>1. PlainContent' = PlainContent
    BY <1>2 DEF AccessVirtArray, PlainContent, Content, window
  <2>2. PlainStatus = "idle" /\ PlainStatus' = "asked"
    BY <1>2 DEF AccessVirtArray, PlainStatus
  <2>3. req' \in Plain!Requests
    BY <1>2 DEF AccessVirtArray, Plain!Requests
  <2>4. PlainView' = Plain!NoRows
    BY <1>2 DEF AccessVirtArray, PlainView, HeldRows, Plain!NoRows
  <2> QED BY <1>2, <2>1, <2>2, <2>3, <2>4 DEF AccessVirtArray, window, Plain!Ask
<1>3. CASE Check
  <2>1. PlainContent' = PlainContent
    BY <1>3 DEF Check, PlainContent, Content, window
  <2>2. ~held /\ ~held'
    BY <1>0, <1>3 DEF Check, AccessInHand
  <2>3. CASE BadAccess
    <3>1. PlainStatus = "asked" /\ PlainStatus' = "refused"
      BY <1>3, <2>3 DEF Check, PlainStatus
    <3>2. ~Plain!Legal(req)
      BY <1>0, <2>3 DEF BadAccess, Plain!Legal, TypeOK
    <3>3. PlainView' = PlainView
      BY <2>2 DEF PlainView, HeldRows
    <3> QED BY <1>3, <2>1, <3>1, <3>2, <3>3
            DEF Check, window, Plain!Refuse, Plain!Next
  <2>4. CASE ~BadAccess
    <3>1. NoVirtualBug'
      BY <1>3, BugFree
    <3>2. PlainStatus' = PlainStatus
      BY <1>3, <2>4, <3>1 DEF Check, PlainStatus, NoVirtualBug
    <3> QED BY <1>3, <2>1, <2>2, <3>2, Stutters DEF Check, window
  <2> QED BY <2>3, <2>4
<1>4. CASE Flushed \/ WriteChunk \/ PlaceWindow \/ ReadChunk \/ Loaded
  <2>1. PlainContent' = PlainContent
    BY <1>4, MovesKeepContent DEF PlainContent
  <2>2. ~held /\ ~held'
    BY <1>0, <1>4 DEF Flushed, WriteChunk, PlaceWindow, ReadChunk, Loaded,
       AccessInHand
  <2>3. PlainStatus' = PlainStatus
    BY <1>4 DEF Flushed, WriteChunk, PlaceWindow, ReadChunk, Loaded, PlainStatus
  <2>4. UNCHANGED <<rows_in_mem, pre_zero, first_undef_row, req>>
    BY <1>4 DEF Flushed, WriteChunk, PlaceWindow, ReadChunk, Loaded, window
  <2> QED BY <2>1, <2>2, <2>3, <2>4, Stutters
<1>5. CASE RefuseAccess
  <2>1. PlainContent' = PlainContent
    BY <1>5 DEF RefuseAccess, PlainContent, Content, window
  <2>2. ~held /\ ~held'
    BY <1>0, <1>5 DEF RefuseAccess, AccessInHand
  <2>3. PlainView' = PlainView
    BY <2>2 DEF PlainView, HeldRows
  <2>4. PlainStatus = "asked" /\ PlainStatus' = "refused"
    BY <1>5 DEF RefuseAccess, PlainStatus
  <2>5. ~Plain!Legal(req)
    BY <1>0, <1>5 DEF RefuseAccess, RefusedLate, Undefined, Plain!Legal, TypeOK
  <2> QED BY <1>5, <2>1, <2>3, <2>4, <2>5
          DEF RefuseAccess, window, Plain!Refuse, Plain!Next
<1>6. CASE GiveAccess
  <2>1. /\ pc = "define" /\ pc' = "idle" /\ held'
        /\ UNCHANGED <<rows_in_mem, cur_start_row, file, req>>
    BY <1>6 DEF GiveAccess, window
  <2>2. /\ ~held /\ rows_in_mem > 0 /\ InWindow /\ ~BadAccess
        /\ req.start \in Nat /\ req.end \in Nat /\ req.start <= req.end
        /\ cur_start_row \in Nat /\ rows_in_mem \in Nat
        /\ first_undef_row \in Nat
    BY <1>0, <2>1 DEF AccessInHand, WindowFits, TypeOK
  <2>3. Plain!Legal(req)
    BY <1>6, <2>2 DEF GiveAccess, RefusedLate, Undefined, Plain!Legal, BadAccess
  <2>4. PlainStatus = "asked" /\ PlainStatus' = "idle"
    BY <2>1 DEF PlainStatus
  <2>5. PlainView' = [r \in Plain!Strip(req) |-> mem'[r - cur_start_row]]
    BY <2>1 DEF PlainView, HeldRows, Plain!Strip
  <2>6. ASSUME NEW r \in Plain!Strip(req)
        PROVE  /\ r \in Nat /\ r \in Row
               /\ r - cur_start_row \in 0 .. rows_in_mem - 1
    BY <2>2 DEF Plain!Strip, InWindow, BadAccess, Row
  <2>7. PlainView' \in [Plain!Strip(req) -> Value]
    <3>1. mem' \in [0 .. rows_in_mem - 1 -> Value]
      BY <1>0, <1>6, <2>1, NextInv DEF Inv, TypeOK
    <3> QED BY <2>5, <2>6, <3>1
  <2>8. ASSUME NEW k \in 0 .. rows_in_mem - 1
        PROVE  /\ k \in Zeroed => mem'[k] = Zero
               /\ k \notin Zeroed => mem'[k] = mem[k]
    BY <1>6 DEF GiveAccess
  <2>9. ASSUME NEW r \in Nat
        PROVE  r - cur_start_row \in Zeroed
                 <=> pre_zero /\ r \in Plain!Strip(req) /\ r >= first_undef_row
    BY <2>2 DEF Zeroed, Undefined, UndefRow, Plain!Strip
  <2>10. ASSUME NEW r \in Row, r < first_undef_row
         PROVE  IF r - cur_start_row \in 0 .. rows_in_mem - 1
                  THEN Content(r) = mem'[r - cur_start_row]
                  ELSE Content(r) = file[r]
    BY <2>1, <2>2, <2>8, <2>9, <2>10 DEF Content, Row
  <2>11. \A r \in Plain!Strip(req) :
           IF r < first_undef_row THEN PlainView'[r] = PlainContent[r]
           ELSE pre_zero => PlainView'[r] = Zero
    <3> SUFFICES ASSUME NEW r \in Plain!Strip(req)
                 PROVE  IF r < first_undef_row THEN PlainView'[r] = PlainContent[r]
                        ELSE pre_zero => PlainView'[r] = Zero
      OBVIOUS
    <3>1. r \in Nat /\ r \in Row /\ r - cur_start_row \in 0 .. rows_in_mem - 1
      BY <2>6
    <3>2. PlainView'[r] = mem'[r - cur_start_row]
      BY <2>5
    <3>3. PlainContent[r] = Content(r)
      BY <3>1 DEF PlainContent
    <3>4. CASE r < first_undef_row
      BY <2>10, <3>1, <3>2, <3>3, <3>4
    <3>5. CASE ~(r < first_undef_row)
      <4>1. pre_zero => r - cur_start_row \in Zeroed
        BY <2>2, <2>9, <3>1, <3>5
      <4> QED BY <2>8, <3>1, <3>2, <3>5, <4>1
    <3> QED BY <3>4, <3>5
  <2>12. first_undef_row' = IF req.writable /\ first_undef_row < req.end
                            THEN req.end ELSE first_undef_row
    BY <1>6 DEF GiveAccess, Undefined
  <2>13. ASSUME NEW r \in Row
         PROVE  Content(r)' = IF req.writable /\ r \in Plain!Strip(req)
                              THEN PlainView'[r] ELSE Content(r)
    <3>1. r \in Nat
      BY DEF Row
    <3>2. Content(r)' = IF r >= first_undef_row' THEN Zero
                        ELSE IF r - cur_start_row \in 0 .. rows_in_mem - 1
                        THEN mem'[r - cur_start_row] ELSE file[r]
      BY <2>1, <2>2, <3>1 DEF Content
    <3>3. CASE req.writable /\ r \in Plain!Strip(req)
      <4>1. r < first_undef_row'
        BY <2>2, <2>12, <3>3 DEF Plain!Strip
      <4> QED BY <2>2, <2>5, <2>6, <2>12, <3>1, <3>2, <3>3, <4>1
    <3>4. CASE ~(req.writable /\ r \in Plain!Strip(req)) /\ r < first_undef_row
      <4>1. r < first_undef_row'
        BY <2>2, <2>12, <3>1, <3>4
      <4> QED BY <2>2, <2>10, <2>12, <3>1, <3>2, <3>4, <4>1
    <3>5. CASE ~(req.writable /\ r \in Plain!Strip(req)) /\ r >= first_undef_row
      <4>1. r >= first_undef_row'
        BY <1>6, <2>2, <2>12, <3>1, <3>5
        DEF GiveAccess, RefusedLate, Undefined, Plain!Strip
      <4> QED BY <3>2, <3>5, <4>1 DEF Content
    <3> QED BY <2>2, <3>1, <3>3, <3>4, <3>5
  <2>14. req.writable =>
           PlainContent' = [r \in Plain!Row |-> IF r \in Plain!Strip(req)
                                                THEN PlainView'[r]
                                                ELSE PlainContent[r]]
    BY <2>13 DEF PlainContent, Plain!Row, Row
  <2>15. ~req.writable => PlainContent' = PlainContent
    BY <2>13 DEF PlainContent
  <2>16. ~req.writable => first_undef_row' = first_undef_row
    BY <2>12
  <2>17. req.writable => first_undef_row' = IF first_undef_row < req.end
                                            THEN req.end ELSE first_undef_row
    BY <2>12
  <2>18. (rows_in_mem > 0)' = (rows_in_mem > 0) /\ UNCHANGED <<pre_zero, req>>
    BY <1>6, <2>1 DEF GiveAccess, window
  <2>19. Plain!Give
    BY <2>3, <2>4, <2>7, <2>11, <2>14, <2>15, <2>16, <2>17, <2>18 DEF Plain!Give
  <2> QED BY <2>19 DEF Plain!Next
<1>7. ASSUME NEW r \in Row, NEW v \in Value, StoreRow(r, v) PROVE Plain!Store
  <2>1. /\ pc = "idle" /\ pc' = "idle" /\ held /\ held' /\ req.writable
        /\ r \in HeldRows /\ mem' = [mem EXCEPT ![r - cur_start_row] = v]
        /\ UNCHANGED <<rows_in_mem, pre_zero, first_undef_row, cur_start_row,
                      file, req>>
    BY <1>7 DEF StoreRow, window, HeldRows
  <2>2. /\ cur_start_row \in Nat /\ rows_in_mem \in Nat
        /\ req.start \in Nat /\ req.end \in Nat
        /\ first_undef_row \in Nat /\ r \in Nat
    BY <1>0 DEF TypeOK, Row
  <2>3. HeldRows' = HeldRows /\ HeldRows = req.start .. req.end - 1
    BY <2>1 DEF HeldRows
  <2>4. \A q \in HeldRows : q \in Nat /\ q - cur_start_row \in 0 .. rows_in_mem - 1
    BY <1>0, <2>1, <2>2, <2>3 DEF HeldInWindow
  <2>5. DOMAIN mem = 0 .. rows_in_mem - 1
    BY <1>0 DEF TypeOK
  <2>6. PlainView' = [PlainView EXCEPT ![r] = v]
    <3>1. ASSUME NEW q \in HeldRows
          PROVE  mem'[q - cur_start_row] = IF q = r THEN v ELSE mem[q - cur_start_row]
      BY <2>1, <2>2, <2>4, <2>5
    <3> QED BY <2>1, <2>3, <3>1 DEF PlainView
  <2>7. r < first_undef_row /\ r - cur_start_row \in 0 .. rows_in_mem - 1
    BY <1>0, <2>1, <2>2, <2>3, <2>4 DEF AccessInHand
  <2>8. ASSUME NEW q \in Row PROVE Content(q)' = IF q = r THEN v ELSE Content(q)
    <3>1. q \in Nat
      BY DEF Row
    <3>2. CASE q = r
      BY <2>1, <2>2, <2>5, <2>7, <3>2 DEF Content
    <3>3. CASE q # r
      BY <2>1, <2>2, <2>5, <2>7, <3>1, <3>3 DEF Content
    <3> QED BY <3>2, <3>3
  <2>9. PlainContent' = [PlainContent EXCEPT ![r] = v]
    BY <2>8 DEF PlainContent
  <2>10. PlainStatus = "idle" /\ PlainStatus' = "idle"
    BY <2>1 DEF PlainStatus
  <2>11. r \in DOMAIN PlainView
    BY <2>1 DEF PlainView
  <2>12. (rows_in_mem > 0)' = (rows_in_mem > 0)
    BY <2>1
  <2> QED BY <2>1, <2>6, <2>9, <2>10, <2>11, <2>12 DEF Plain!Store
<1>8. CASE FreePool
  <2>1. /\ first_undef_row' = 0 /\ ~held' /\ rows_in_mem' = 0
        /\ UNCHANGED <<pre_zero, req>>
    BY <1>8 DEF FreePool
  <2>2. PlainContent' = [r \in Row |-> Zero]
    BY <2>1 DEF PlainContent, Content, Row
  <2>3. PlainView' = Plain!NoRows
    BY <2>1 DEF PlainView, HeldRows, Plain!NoRows
  <2>4. PlainStatus # "asked" /\ PlainStatus' = "idle"
    BY <1>8 DEF FreePool, PlainStatus
  <2> QED BY <2>1, <2>2, <2>3, <2>4 DEF Plain!Discard, Plain!Next, Plain!Row, Row
<1>9. CASE UNCHANGED vars
  BY <1>9 DEF vars, window, loop, Plain!vars, PlainContent, Content, PlainStatus,
     PlainView, HeldRows
<1>10. CASE \E s \in 0 .. RowsInArray, n \in 0 .. MaxAccess + 1, w \in BOOLEAN :
               AccessVirtArray(s, n, w)
  BY <1>2, <1>10 DEF Plain!Next
<1>11. CASE \E r \in Row, v \in Value : StoreRow(r, v)
  BY <1>7, <1>11 DEF Plain!Next
<1> QED
  BY <1>1, <1>3, <1>4, <1>5, <1>6, <1>8, <1>9, <1>10, <1>11 DEF Next

(* A virtual array is a plain array: what is in memory and what is in the   *)
(* backing store cannot be told from the outside.                           *)
THEOREM PlainArrayImplemented == Spec => IsPlainArray
<1>1. Init /\ [][Next]_vars => [](Inv /\ NoVirtualBug)
  BY Invariant, NoVirtualBugAlways, PTL DEF Spec
<1> QED BY <1>1, InitPlain, StepPlain, PTL DEF Spec, IsPlainArray, Plain!Spec
=============================================================================
