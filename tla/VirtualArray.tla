---------------------------- MODULE VirtualArray ----------------------------
(***************************************************************************)
(* A virtual array as jmemmgr.c keeps it: a window of rows_in_mem rows in  *)
(* memory, the rest in a backing store.  The window is moved when the      *)
(* strip asked for is not in it: what was written is flushed chunk by      *)
(* chunk, the window is placed and loaded.  The code exists twice, for     *)
(* arrays of samples and of coefficient blocks; the two differ in the      *)
(* size of a row only, which is the unit of every count here.              *)
(***************************************************************************)
EXTENDS Integers

CONSTANTS
  RowsInArray,   \* height asked for in request_virt_sarray
  MaxAccess,     \* the most rows one access may ask for
  ChunkRows,     \* rows that fit in MAX_ALLOC_CHUNK bytes
  Available,     \* what jpeg_mem_available may answer, in rows
  Value, Zero, Junk

ASSUME ArrayAssumption ==
  /\ RowsInArray \in Nat \ {0}
  /\ MaxAccess \in Nat \ {0}
  /\ ChunkRows \in Nat \ {0}
  /\ Available \subseteq Nat
  /\ Zero \in Value /\ Junk \in Value

Row == 0 .. RowsInArray - 1

Lesser(a, b) == IF a < b THEN a ELSE b

VARIABLES
  pc,               \* where the call under way stands; "idle" between calls
  rows_in_mem,      \* height of the window; 0 before realize_virt_arrays
  rowsperchunk,     \* rows allocated, and transferred, together
  cur_start_row,    \* the row the window starts with
  first_undef_row,
  dirty,
  b_s_open,
  pre_zero,         \* undefined rows read as zeros
  mem,              \* mem_buffer
  file,             \* the backing store
  req,              \* start_row, end_row and writable of the access
  held,             \* the caller holds the pointer the access returned
  i, file_offset    \* of the loop in do_sarray_io

window == <<rows_in_mem, rowsperchunk, b_s_open, pre_zero>>
loop == <<i, file_offset>>
vars == <<pc, window, cur_start_row, first_undef_row, dirty, mem, file,
          req, held, loop>>

Init ==
  /\ pc = "idle"
  /\ rows_in_mem = 0 /\ rowsperchunk = 0 /\ b_s_open = FALSE
  /\ pre_zero = FALSE
  /\ cur_start_row = 0 /\ first_undef_row = 0 /\ dirty = FALSE
  /\ mem = [k \in {} |-> Zero]
  /\ file = [r \in Row |-> Junk]
  /\ req = [start |-> 0, end |-> 0, writable |-> FALSE]
  /\ held = FALSE
  /\ i = 0 /\ file_offset = 0

-----------------------------------------------------------------------------
(* The window gets as many times maxaccess rows as there is room for, and   *)
(* at least once.                                                           *)
MaxMinheights(avail) ==
  IF avail \div MaxAccess <= 0 THEN 1 ELSE avail \div MaxAccess

Minheights == ((RowsInArray - 1) \div MaxAccess) + 1

Fits(avail) ==
  avail >= RowsInArray \/ Minheights <= MaxMinheights(avail)

WindowRows(avail) ==
  IF Fits(avail) THEN RowsInArray ELSE MaxMinheights(avail) * MaxAccess

(* request_virt_sarray and realize_virt_arrays.  What malloc returns holds anything.                *)
RealizeVirtArrays ==
  /\ pc = "idle" /\ rows_in_mem = 0
  /\ \E avail \in Available :
       /\ rows_in_mem' = WindowRows(avail)
       /\ b_s_open' = ~Fits(avail)
       /\ rowsperchunk' = Lesser(ChunkRows, WindowRows(avail))
       /\ mem' = [k \in 0 .. WindowRows(avail) - 1 |-> Junk]
  /\ pre_zero' \in BOOLEAN
  /\ cur_start_row' = 0 /\ first_undef_row' = 0 /\ dirty' = FALSE
  /\ UNCHANGED <<pc, file, req, held, loop>>

-----------------------------------------------------------------------------
(* access_virt_sarray *)
AccessVirtArray(start_row, num_rows, writable) ==
  /\ pc = "idle"
  /\ req' = [start |-> start_row, end |-> start_row + num_rows,
             writable |-> writable]
  /\ held' = FALSE
  /\ pc' = "check"
  /\ UNCHANGED <<window, cur_start_row, first_undef_row, dirty, mem, file, loop>>

BadAccess ==
  \/ req.end > RowsInArray
  \/ req.end - req.start > MaxAccess
  \/ rows_in_mem = 0

(* Mutant: the last row of the window is forgotten.                         *)
InAllButLastRow ==
  req.start >= cur_start_row /\ req.end < cur_start_row + rows_in_mem

InWindow ==
  req.start >= cur_start_row /\ req.end <= cur_start_row + rows_in_mem

Check ==
  /\ pc = "check"
  /\ pc' = CASE BadAccess -> "refused"
             [] ~BadAccess /\ InWindow -> "define"
             [] ~BadAccess /\ ~InWindow /\ ~b_s_open -> "virtual_bug"
             [] ~BadAccess /\ ~InWindow /\ b_s_open /\ dirty -> "flush"
             [] ~BadAccess /\ ~InWindow /\ b_s_open /\ ~dirty -> "place"
  /\ i' = 0 /\ file_offset' = cur_start_row
  /\ UNCHANGED <<window, cur_start_row, first_undef_row, dirty, mem, file,
                 req, held>>

(* do_sarray_io: the rows of the chunk at i that are transferred.           *)
ChunkLength ==
  Lesser(Lesser(rowsperchunk, rows_in_mem - i),
         Lesser(first_undef_row - (cur_start_row + i),
                RowsInArray - (cur_start_row + i)))

MoreChunks == i < rows_in_mem /\ ChunkLength > 0

NextChunk == i' = i + rowsperchunk /\ file_offset' = file_offset + ChunkLength

WriteChunk ==
  /\ pc = "flush" /\ MoreChunks
  /\ file' = [r \in Row |->
                IF r \in file_offset .. file_offset + ChunkLength - 1
                THEN mem[r - file_offset + i] ELSE file[r]]
  /\ NextChunk
  /\ UNCHANGED <<pc, window, cur_start_row, first_undef_row, dirty, mem, req, held>>

Flushed ==
  /\ pc = "flush" /\ ~MoreChunks
  /\ dirty' = FALSE
  /\ pc' = "place"
  /\ UNCHANGED <<window, cur_start_row, first_undef_row, mem, file, req, held, loop>>

(* A forward scan starts the window at the strip; a backward one ends it    *)
(* there.                                                                   *)
WindowStart ==
  IF req.start > cur_start_row THEN req.start
  ELSE IF req.end < rows_in_mem THEN 0 ELSE req.end - rows_in_mem

PlaceWindow ==
  /\ pc = "place"
  /\ cur_start_row' = WindowStart
  /\ i' = 0 /\ file_offset' = WindowStart
  /\ pc' = "load"
  /\ UNCHANGED <<window, first_undef_row, dirty, mem, file, req, held>>

ReadChunk ==
  /\ pc = "load" /\ MoreChunks
  /\ mem' = [k \in 0 .. rows_in_mem - 1 |->
               IF k \in i .. i + ChunkLength - 1
               THEN file[file_offset + k - i] ELSE mem[k]]
  /\ NextChunk
  /\ UNCHANGED <<pc, window, cur_start_row, first_undef_row, dirty, file, req, held>>

Loaded ==
  /\ pc = "load" /\ ~MoreChunks
  /\ pc' = "define"
  /\ UNCHANGED <<window, cur_start_row, first_undef_row, dirty, mem, file,
                 req, held, loop>>

(* The end of access_virt_sarray: undefined rows of the strip are zeroed,   *)
(* or the access is refused; a writer defines the strip.                    *)
Undefined == first_undef_row < req.end

RefusedLate ==
  /\ Undefined
  /\ IF req.writable THEN first_undef_row < req.start ELSE ~pre_zero

(* The part of the strip that is zeroed starts at its first undefined row.  *)
UndefRow == IF first_undef_row < req.start THEN req.start ELSE first_undef_row

(* Mutant: the whole strip is zeroed.                                       *)
ZeroedFromStart ==
  IF Undefined /\ pre_zero
  THEN req.start - cur_start_row .. (req.end - cur_start_row) - 1
  ELSE {}

Zeroed ==
  IF Undefined /\ pre_zero
  THEN UndefRow - cur_start_row .. (req.end - cur_start_row) - 1
  ELSE {}

RefuseAccess ==
  /\ pc = "define" /\ RefusedLate
  /\ pc' = "refused"
  /\ UNCHANGED <<window, cur_start_row, first_undef_row, dirty, mem, file,
                 req, held, loop>>

(* Mutant: what was written before is taken for saved.                      *)
GiveAccessClean ==
  /\ pc = "define" /\ ~RefusedLate
  /\ first_undef_row' = IF Undefined /\ req.writable THEN req.end
                        ELSE first_undef_row
  /\ mem' = [k \in 0 .. rows_in_mem - 1 |-> IF k \in Zeroed THEN Zero ELSE mem[k]]
  /\ dirty' = req.writable
  /\ held' = TRUE
  /\ pc' = "idle"
  /\ UNCHANGED <<window, cur_start_row, file, req, loop>>

GiveAccess ==
  /\ pc = "define" /\ ~RefusedLate
  /\ first_undef_row' = IF Undefined /\ req.writable THEN req.end
                        ELSE first_undef_row
  /\ mem' = [k \in 0 .. rows_in_mem - 1 |-> IF k \in Zeroed THEN Zero ELSE mem[k]]
  /\ dirty' = (dirty \/ req.writable)
  /\ held' = TRUE
  /\ pc' = "idle"
  /\ UNCHANGED <<window, cur_start_row, file, req, loop>>

-----------------------------------------------------------------------------
(* The caller stores in a row of the strip it holds.                        *)
StoreRow(r, v) ==
  /\ pc = "idle" /\ held /\ req.writable
  /\ r \in req.start .. req.end - 1
  /\ mem' = [mem EXCEPT ![r - cur_start_row] = v]
  /\ UNCHANGED <<pc, window, cur_start_row, first_undef_row, dirty, file,
                 req, held, loop>>

(* free_pool(JPOOL_IMAGE), at the end of an image or after an error: the    *)
(* backing store is closed and the lists are emptied.                       *)
FreePool ==
  /\ pc \in {"idle", "refused", "virtual_bug"}
  /\ pc' = "idle"
  /\ rows_in_mem' = 0 /\ rowsperchunk' = 0 /\ b_s_open' = FALSE
  /\ mem' = [k \in {} |-> Zero]
  /\ file' = [r \in Row |-> Junk]
  /\ cur_start_row' = 0 /\ first_undef_row' = 0 /\ dirty' = FALSE
  /\ held' = FALSE
  /\ i' = 0 /\ file_offset' = 0
  /\ UNCHANGED <<pre_zero, req>>

(* Strips up to one row too far and one row too high are asked for.         *)
Next ==
  \/ RealizeVirtArrays
  \/ \E s \in 0 .. RowsInArray, n \in 0 .. MaxAccess + 1, w \in BOOLEAN :
       AccessVirtArray(s, n, w)
  \/ Check \/ WriteChunk \/ Flushed \/ PlaceWindow \/ ReadChunk \/ Loaded
  \/ RefuseAccess \/ GiveAccess
  \/ \E r \in Row, v \in Value : StoreRow(r, v)
  \/ FreePool

Spec == Init /\ [][Next]_vars

-----------------------------------------------------------------------------
TypeOK ==
  /\ pc \in {"idle", "check", "flush", "place", "load", "define", "refused",
             "virtual_bug"}
  /\ rows_in_mem \in Nat /\ rowsperchunk \in Nat
  /\ cur_start_row \in Nat /\ first_undef_row \in 0 .. RowsInArray
  /\ dirty \in BOOLEAN /\ b_s_open \in BOOLEAN
  /\ pre_zero \in BOOLEAN /\ held \in BOOLEAN
  /\ mem \in [0 .. rows_in_mem - 1 -> Value]
  /\ file \in [Row -> Value]
  /\ req \in [start : Nat, end : Nat, writable : BOOLEAN]
  /\ i \in Nat /\ file_offset \in Nat

(* The strip a caller holds lies in the window: the pointer it was given    *)
(* never reaches past mem_buffer, whichever way the window was moved.       *)
HeldInWindow ==
  held => /\ req.start >= cur_start_row
          /\ req.end <= cur_start_row + rows_in_mem

(* JERR_VIRTUAL_BUG, "Virtual array controller messed up", is not reported. *)
NoVirtualBug == pc # "virtual_bug"

(* Why the two above hold, and what the refinement below rests on: the      *)
(* window is high enough for a strip and lies on the array, all of it when  *)
(* there is no backing store; the rows of the window that are defined and   *)
(* not dirty, or already transferred, are the same in memory and in the     *)
(* backing store; and the offset in the file keeps up with the rows until   *)
(* a chunk cut short ends the loop.                                         *)
WindowFits ==
  /\ rows_in_mem <= RowsInArray /\ cur_start_row <= RowsInArray
  /\ rows_in_mem > 0 =>
       /\ rowsperchunk > 0
       /\ IF b_s_open THEN rows_in_mem >= MaxAccess
                      ELSE rows_in_mem = RowsInArray /\ cur_start_row = 0
  /\ rows_in_mem = 0 =>
       /\ pc \in {"idle", "check", "refused"}
       /\ ~held /\ ~dirty /\ ~b_s_open
       /\ first_undef_row = 0 /\ cur_start_row = 0

AccessInHand ==
  /\ req.start <= req.end
  /\ held => /\ pc = "idle"
             /\ req.end <= RowsInArray
             /\ req.writable => req.end <= first_undef_row /\ dirty
  /\ pc \in {"flush", "place", "load", "define"} => ~BadAccess
  /\ pc \in {"flush", "place", "load"} => b_s_open
  /\ pc \in {"place", "load"} => ~dirty
  /\ pc = "flush" => dirty
  /\ pc \in {"load", "define"} => InWindow

(* Row k of the window is the same in the backing store.                    *)
Same(k) ==
  cur_start_row + k < first_undef_row => mem[k] = file[cur_start_row + k]

Saved ==
  /\ b_s_open /\ ~dirty /\ pc # "load" => \A k \in 0 .. rows_in_mem - 1 : Same(k)
  /\ pc \in {"flush", "load"} =>
       /\ \A k \in 0 .. rows_in_mem - 1 : k < i => Same(k)
       /\ \/ file_offset = cur_start_row + i
          \/ first_undef_row <= cur_start_row + i
          \/ rows_in_mem <= i

Inv == TypeOK /\ WindowFits /\ HeldInWindow /\ AccessInHand /\ Saved

(* What a row holds, wherever it is.                                        *)
Content(r) ==
  IF r >= first_undef_row THEN Zero
  ELSE IF pc # "load" /\ r \in cur_start_row .. cur_start_row + rows_in_mem - 1
       THEN mem[r - cur_start_row] ELSE file[r]

PlainContent == [r \in Row |-> Content(r)]

PlainStatus ==
  IF pc = "idle" THEN "idle"
  ELSE IF pc \in {"refused", "virtual_bug"} THEN "refused" ELSE "asked"

HeldRows == IF held THEN req.start .. req.end - 1 ELSE {}

PlainView == [r \in HeldRows |-> mem[r - cur_start_row]]

Plain ==
  INSTANCE PlainArray WITH
    ready <- rows_in_mem > 0, content <- PlainContent,
    defined <- first_undef_row, status <- PlainStatus, wanted <- req,
    view <- PlainView

(* Whatever the memory available, the chunks and the order of the strips    *)
(* asked for, the array is a plain array: a reader sees what was stored     *)
(* last, and an access is refused only when it is not a legal one.          *)
IsPlainArray == Plain!Spec
=============================================================================
