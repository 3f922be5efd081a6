----------------------- MODULE MjpegInputStreamDefault -----------------------
(***************************************************************************)
(* MjpegInputStreamDefault.java: cutting a multipart camera stream into    *)
(* JPEG frames. One caller reads at a time (ReadersExclude in              *)
(* MjpegViewDefault), so a call of readMjpegFrame is run step by step with *)
(* nothing in between.                                                     *)
(*                                                                         *)
(* The camera sends parts: a head (boundary and header lines) and a body   *)
(* (a JPEG image, if nothing went wrong). A cell of the stream is a byte,  *)
(* or a whole "Content-Length: n" line, which only its number tells apart. *)
(* After the last part the connection ends.                                *)
(***************************************************************************)
EXTENDS Integers, Sequences, SequencesExt, FiniteSetsExt

CONSTANTS
  Cell,
  FRAME_MAX_LENGTH,   (* of one search, of the mark and of the buffer      *)
  ContentLength,      (* the number in each Content-Length line            *)
  NotANumber,         (* instead of one; also when there is no such line   *)
  Malformed,          (* a cell Properties.load refuses: \u and no number  *)
  Sent                (* what a camera may send: sequences of parts        *)

StreamAssumption ==
  /\ FRAME_MAX_LENGTH \in Nat \ {0}
  /\ NotANumber \notin Int
  /\ \A camera \in Sent : camera \in Seq([head : Seq(Cell), body : Seq(Cell)])
  /\ \A line \in DOMAIN ContentLength :
       ContentLength[line] \in Int \cup {NotANumber}

VARIABLES
  parts,            (* what this camera sends                              *)
  data,             (* the same, as one sequence of cells                  *)
  pos,              (* how many cells have been read                       *)
  mark,             (* the position readMjpegFrame marked                  *)
  step,             (* where it stands, "idle" between two calls           *)
  headerLen,
  mContentLength,
  frames,           (* the bodies returned: first and last cell            *)
  outcome           (* how the last call ended                             *)

vars == <<parts, data, pos, mark, step, headerLen, mContentLength,
          frames, outcome>>
-----------------------------------------------------------------------------
SOI_MARKER == <<"FF", "D8">>
EOF_MARKER == <<"FF", "D9">>

Cells(p) == p.head \o p.body

(* getEndOfSeqeunce. After a cell that does not fit, seqIndex starts again *)
(* at the next cell: the one that did not fit is not tried as a beginning. *)
SeqIndex(sequence, cells) ==
  LET seqIndex[i \in 0..Len(cells)] ==
        IF i = 0 THEN 0
        ELSE LET before == seqIndex[i - 1] IN
               IF cells[i] = sequence[before + 1]
               THEN (before + 1) % Len(sequence)
               ELSE 0
  IN seqIndex

(* What a search beginning after `from' cells and giving up after `limit'  *)
(* cells finds, and how many it reads.                                     *)
SearchUpTo(sequence, from, limit) ==
  LET cells == SubSeq(data, from + 1, Len(data))
      seqIndex == SeqIndex(sequence, cells)
      ends == {i \in 1..Len(cells) :
                 /\ i <= limit
                 /\ seqIndex[i - 1] = Len(sequence) - 1
                 /\ cells[i] = Last(sequence)}
  IN CASE ends # {} -> [result |-> "found", read |-> Min(ends)]
       [] ends = {} /\ Len(cells) < limit
            -> [result |-> "EOFException", read |-> Len(cells)]
       [] OTHER -> [result |-> "-1", read |-> limit]

Search(sequence, from) == SearchUpTo(sequence, from, FRAME_MAX_LENGTH)

(* getStartOfSequence.                                                     *)
Start(end) == end - Len(SOI_MARKER)

(* BufferedInputStream forgets a mark when more than its limit is read:    *)
(* the limit is the size of the buffer here.                               *)
MarkedAt(position) == position - mark <= FRAME_MAX_LENGTH

(* parseContentLength: of several lines Properties keeps the last. (The    *)
(* first of the two keeps the first.)                                      *)
Announcements(header) == {i \in DOMAIN header : header[i] \in DOMAIN ContentLength}

FirstLength(header) ==
  IF Announcements(header) = {} THEN NotANumber
  ELSE ContentLength[header[Min(Announcements(header))]]

ParseContentLength(header) ==
  IF Announcements(header) = {} THEN NotANumber
  ELSE ContentLength[header[Max(Announcements(header))]]
-----------------------------------------------------------------------------
Init ==
  /\ parts \in Sent
  /\ data = FlattenSeq([i \in DOMAIN parts |-> Cells(parts[i])])
  /\ pos = 0
  /\ mark = 0
  /\ step = "idle"
  /\ headerLen = 0
  /\ mContentLength = -1
  /\ frames = <<>>
  /\ outcome = "none"

(* The call ends without a frame, leaving `position' cells read.           *)
FailKnowing(exception, position, length) ==
  /\ step' = "idle"
  /\ outcome' = exception
  /\ pos' = position
  /\ mContentLength' = length
  /\ UNCHANGED <<parts, data, headerLen, frames>>

FailResetting(exception, position) == FailKnowing(exception, mark, mContentLength)
Fail(exception, position) == FailKnowing(exception, position, mContentLength)

(* mark, and the search for the start of the image.                        *)
FindStart ==
  /\ step = "idle"
  /\ outcome # "crash"
  /\ mark' = pos
  /\ LET soi == Search(SOI_MARKER, pos) IN
       \/ /\ soi.result = "found"
          /\ headerLen' = Start(soi.read)
          /\ step' = "header"
          /\ UNCHANGED <<parts, data, pos, mContentLength, frames, outcome>>
       \/ soi.result = "EOFException" /\ Fail("IOException", pos + soi.read)
       \/ soi.result = "-1" /\ Fail("crash", pos)   (* new byte[-1]        *)

(* reset, and the header read into its own array. Of what parsing it may   *)
(* throw only the NumberFormatException is caught.                         *)
ReadHeader ==
  /\ step = "header"
  /\ LET end == mark + headerLen
         header == SubSeq(data, mark + 1, end)
         length == ParseContentLength(header)
         malformed == \E i \in DOMAIN header : header[i] = Malformed
     IN
       \/ malformed /\ Fail("crash", end)
       \/ /\ ~malformed
          /\ IF length = NotANumber
             THEN step' = "length" /\ UNCHANGED mContentLength
             ELSE step' = "frame" /\ mContentLength' = length
          /\ pos' = end
          /\ UNCHANGED <<parts, data, headerLen, frames, outcome>>
  /\ UNCHANGED mark

(* NumberFormatException: the length is how far the end marker is. It is   *)
(* kept when the reset() that follows throws.                              *)
FindEnd ==
  /\ step = "length"
  /\ LET eof == Search(EOF_MARKER, pos)
         end == pos + eof.read
         length == IF eof.result = "found" THEN eof.read ELSE -1
     IN
       \/ /\ eof.result = "found" /\ MarkedAt(end)
          /\ mContentLength' = length /\ step' = "frame"
          /\ UNCHANGED <<parts, data, pos, headerLen, frames, outcome>>
       \/ eof.result = "EOFException" /\ Fail("IOException", end)
       \/ /\ eof.result # "EOFException" /\ ~MarkedAt(end)
          /\ FailKnowing("IOException", end, length)
       \/ /\ eof.result = "-1" /\ MarkedAt(end)
          /\ FailKnowing("crash", mark, length)     (* new byte[-1]        *)
  /\ UNCHANGED mark

(* reset, skip the header, and read the frame. (The first form forgets to  *)
(* skip.)                                                                  *)
ReadFrameNotSkipping ==
  /\ step = "frame"
  /\ LET end == mark + mContentLength IN
       \/ /\ mContentLength >= 0
          /\ end <= Len(data)
          /\ frames' = Append(frames, [first |-> mark + 1, last |-> end])
          /\ pos' = end
          /\ step' = "idle"
          /\ outcome' = "frame"
          /\ UNCHANGED <<parts, data, headerLen, mContentLength>>
       \/ mContentLength >= 0 /\ end > Len(data) /\ Fail("IOException", Len(data))
       \/ mContentLength < 0 /\ Fail("crash", mark)
  /\ UNCHANGED mark

ReadFrame ==
  /\ step = "frame"
  /\ LET start == mark + headerLen
         end == start + mContentLength
     IN
       \/ /\ mContentLength >= 0
          /\ end <= Len(data)
          /\ frames' = Append(frames, [first |-> start + 1, last |-> end])
          /\ pos' = end
          /\ step' = "idle"
          /\ outcome' = "frame"
          /\ UNCHANGED <<parts, data, headerLen, mContentLength>>
       \/ mContentLength >= 0 /\ end > Len(data) /\ Fail("IOException", Len(data))
       \/ mContentLength < 0 /\ Fail("crash", mark)
  /\ UNCHANGED mark

Next == FindStart \/ ReadHeader \/ FindEnd \/ ReadFrame

Spec == Init /\ [][Next]_vars

(* The drawing loop calls again whatever the last call returned.           *)
FairSpec == Spec /\ WF_vars(Next)
-----------------------------------------------------------------------------
TypeOK ==
  /\ parts \in Sent
  /\ pos \in 0..Len(data)
  /\ mark \in 0..pos
  /\ step \in {"idle", "header", "length", "frame"}
  /\ headerLen \in 0..FRAME_MAX_LENGTH
  /\ mContentLength \in Int
  /\ \A i \in DOMAIN frames : {frames[i].first, frames[i].last} \subseteq Nat
  /\ outcome \in {"none", "frame", "IOException", "crash"}

(* Where the body of parts[i] lies in the stream.                          *)
Body(i) ==
  LET end[j \in 0..Len(parts)] ==
        IF j = 0 THEN 0 ELSE end[j - 1] + Len(Cells(parts[j]))
      start == end[i - 1] + Len(parts[i].head)
  IN [first |-> start + 1, last |-> start + Len(parts[i].body)]

(* Where `pair' is found in `cells', by its definition.                    *)
Occurrences(pair, cells) ==
  {i \in 1..(Len(cells) - 1) : SubSeq(cells, i, i + 1) = pair}

Announces(p) == ParseContentLength(p.head) # NotANumber

Fits(p) == Len(Cells(p)) <= FRAME_MAX_LENGTH

(* A head is text, which has no byte FF. The start of a body that follows  *)
(* one would not be seen.                                                  *)
IsImage(p) ==
  /\ Occurrences(SOI_MARKER, p.body) = {1}
  /\ Occurrences(EOF_MARKER, p.body) = {Len(p.body) - 1}
  /\ \A i \in DOMAIN p.head : p.head[i] \notin {"FF", Malformed}

(* The search does not see the end of FF FF D9.                            *)
HasNoFill(p) == Occurrences(<<"FF", "FF">>, p.body) = {}

(* A part the reader is made for. It need not announce its length, but if  *)
(* it does the length is right, and if not its body has no fill byte.      *)
IsSound(p) ==
  /\ IsImage(p)
  /\ Fits(p)
  /\ IF Announces(p) THEN ParseContentLength(p.head) = Len(p.body) ELSE HasNoFill(p)

(* From a camera that sends sound parts every image is returned, in order, *)
(* exactly as it was sent, and nothing fails before the connection ends    *)
(* (59-75; the lengths of the marker search and of the two resets).        *)
ExactlyTheImages ==
  (\A i \in DOMAIN parts : IsSound(parts[i])) =>
    /\ frames = [i \in 1..Len(frames) |-> Body(i)]
    /\ outcome = "IOException" => Len(frames) = Len(parts)
    /\ outcome # "crash"

(* Whatever the camera sends, what is handed to the decoder begins with a  *)
(* start marker (61-63, 72-73).                                            *)
FramesStartAtMarker ==
  \A i \in DOMAIN frames :
    SubSeq(data, frames[i].first, frames[i].first + 1) = SOI_MARKER

(* A sound part that announces its length is never cut short once its     *)
(* start is found, and without a fill byte it is not run together with the *)
(* next one either, whatever was left of damaged parts before it and is    *)
(* now taken for its header, and though they may have swallowed the line   *)
(* that announces it (51-56).                                              *)
AnnouncedFramesAreWhole ==
  \A i \in DOMAIN parts, j \in DOMAIN frames :
    IsSound(parts[i]) /\ Announces(parts[i])
      /\ frames[j].first = Body(i).first
      => /\ frames[j].last >= Body(i).last
         /\ HasNoFill(parts[i]) => frames[j] = Body(i)

(* A part whose announced length is short, and whose body is taken for     *)
(* nothing else when the rest of it is parsed as a header.                 *)
IsShort(p) ==
  /\ IsImage(p)
  /\ Fits(p)
  /\ \A i \in DOMAIN p.body : p.body[i] # Malformed
  /\ Announcements(p.body) = {}
  /\ Announces(p)
  /\ ParseContentLength(p.head) \in 2..(Len(p.body) - 1)

(* The rest of a short part and the part after it fit in the mark.         *)
RestFits(k) ==
  Len(parts[k].body) - ParseContentLength(parts[k].head)
    + Len(Cells(parts[k + 1])) <= FRAME_MAX_LENGTH

(* Parts whose announced length is short, all of the others being sound:   *)
(* the rest of such a body is skipped as header, no other image is lost,   *)
(* and nothing fails before the connection ends (61, 72; 71 with a length  *)
(* below the true one).                                                    *)
ShortLengthLosesOneImage ==
  /\ \A i \in DOMAIN parts : IsSound(parts[i]) \/ IsShort(parts[i])
  /\ \A k \in DOMAIN parts : IsShort(parts[k]) /\ k < Len(parts) => RestFits(k)
  => /\ outcome # "crash"
     /\ outcome = "IOException" =>
          \A i \in DOMAIN parts :
            IsSound(parts[i]) => \E j \in DOMAIN frames : frames[j] = Body(i)

(* However damaged the stream is, the reader gets through it: calling      *)
(* again after an IOException never reads the same cells for ever (60-75,  *)
(* MjpegViewDefault 147).                                                  *)
ReadsToTheEnd == <>(pos = Len(data) \/ outcome = "crash")
==============================================================================
