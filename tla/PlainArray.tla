----------------------------- MODULE PlainArray -----------------------------
(***************************************************************************)
(* What a virtual array of libjpeg's memory manager promises to the code   *)
(* that uses it: a plain array of rows.  Rows are defined from the top     *)
(* down by writers; a reader sees in a row what was last stored there, or  *)
(* zeros in a row not yet defined when the array was requested with        *)
(* pre_zero.  How much of the array is in memory is not visible.           *)
(***************************************************************************)
EXTENDS Integers

CONSTANTS RowsInArray, MaxAccess, Value, Zero

Row == 0 .. RowsInArray - 1

VARIABLES
  ready,      \* the array has been realized
  pre_zero,   \* ... and undefined rows read as zeros
  content,    \* what each defined row holds
  defined,    \* rows 0 .. defined - 1 are defined
  status,     \* of the request: "idle", "asked" or "refused"
  wanted,     \* the last request: rows start .. end - 1, for writing or not
  view        \* the rows handed to the caller, by number

vars == <<ready, pre_zero, content, defined, status, wanted, view>>

NoRows == [r \in {} |-> Zero]

Requests == [start : Nat, end : Nat, writable : BOOLEAN]

Strip(q) == q.start .. q.end - 1

(* Writers go on where the last one ended or above, and readers read below  *)
(* what is defined unless the array is zeroed.                              *)
Legal(q) ==
  /\ ready
  /\ q.end <= RowsInArray
  /\ q.end - q.start <= MaxAccess
  /\ defined < q.end => IF q.writable THEN q.start <= defined ELSE pre_zero

Init ==
  /\ ready = FALSE
  /\ pre_zero \in BOOLEAN
  /\ content = [r \in Row |-> Zero]
  /\ defined = 0
  /\ status = "idle"
  /\ wanted = [start |-> 0, end |-> 0, writable |-> FALSE]
  /\ view = NoRows

Realize ==
  /\ status = "idle" /\ ~ready
  /\ ready' = TRUE
  /\ pre_zero' \in BOOLEAN
  /\ UNCHANGED <<content, defined, status, wanted, view>>

Ask ==
  /\ status = "idle"
  /\ wanted' \in Requests
  /\ status' = "asked"
  /\ view' = NoRows
  /\ UNCHANGED <<ready, pre_zero, content, defined>>

Give ==
  /\ status = "asked" /\ Legal(wanted)
  /\ status' = "idle"
  /\ view' \in [Strip(wanted) -> Value]
  /\ \A r \in Strip(wanted) :
       IF r < defined THEN view'[r] = content[r] ELSE pre_zero => view'[r] = Zero
  /\ IF wanted.writable
       THEN /\ defined' = IF defined < wanted.end THEN wanted.end ELSE defined
            /\ content' = [r \in Row |-> IF r \in Strip(wanted) THEN view'[r]
                                                                 ELSE content[r]]
       ELSE UNCHANGED <<defined, content>>
  /\ UNCHANGED <<ready, pre_zero, wanted>>

Refuse ==
  /\ status = "asked" /\ ~Legal(wanted)
  /\ status' = "refused"
  /\ UNCHANGED <<ready, pre_zero, content, defined, wanted, view>>

(* The holder of a strip for writing changes one of its rows.               *)
Store ==
  /\ status = "idle" /\ wanted.writable
  /\ \E r \in DOMAIN view, v \in Value :
       /\ view' = [view EXCEPT ![r] = v]
       /\ content' = [content EXCEPT ![r] = v]
  /\ UNCHANGED <<ready, pre_zero, defined, status, wanted>>

(* The image is done or given up: the next one starts with a new array.     *)
Discard ==
  /\ status # "asked"
  /\ ready' = FALSE
  /\ content' = [r \in Row |-> Zero]
  /\ defined' = 0
  /\ status' = "idle"
  /\ view' = NoRows
  /\ UNCHANGED <<pre_zero, wanted>>

Next == Realize \/ Ask \/ Give \/ Refuse \/ Store \/ Discard

Spec == Init /\ [][Next]_vars
=============================================================================
