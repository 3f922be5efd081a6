----------------------- MODULE MjpegInputStreamNative -----------------------
(***************************************************************************)
(* MjpegInputStreamNative.java: the frame reader of the native view. It is *)
(* MjpegInputStreamDefault but for two things: the end of the connection   *)
(* is the result -1, and where a part does not announce its length the end *)
(* marker is first looked for around the length of the last frame, and     *)
(* only then from the mark, that is, from the start of the header.         *)
(*                                                                         *)
(* One thread reads. It calls again after a frame and after an IOException *)
(* and ends with -1.                                                       *)
(***************************************************************************)
EXTENDS Integers, Sequences, SequencesExt, FiniteSetsExt

CONSTANTS Cell, FRAME_MAX_LENGTH, ContentLength, NotANumber, Malformed, Sent

VARIABLES parts, data, pos, mark, step, headerLen, mContentLength, frames, outcome

Default == INSTANCE MjpegInputStreamDefault

vars == <<parts, data, pos, mark, step, headerLen, mContentLength, frames, outcome>>

Init == Default!Init

Fail(exception, position) == Default!Fail(exception, position)
FailKnowing(exception, position, length) ==
  Default!FailKnowing(exception, position, length)

(* At the end of the connection the call is taken back to the mark and     *)
(* returns -1.                                                             *)
FindStart ==
  /\ step = "idle" /\ outcome \notin {"crash", "-1"}
  /\ mark' = pos
  /\ LET soi == Default!Search(Default!SOI_MARKER, pos) IN
       \/ /\ soi.result = "found"
          /\ headerLen' = Default!Start(soi.read)
          /\ step' = "header"
          /\ UNCHANGED <<parts, data, pos, mContentLength, frames, outcome>>
       \/ soi.result = "EOFException" /\ Fail("-1", pos)
       \/ soi.result = "-1" /\ Fail("crash", pos)   (* new byte[-1]        *)

(* What cannot be parsed is no announcement either.                        *)
ReadHeader ==
  /\ step = "header"
  /\ LET header == SubSeq(data, mark + 1, mark + headerLen)
         length == Default!ParseContentLength(header)
         none == length = NotANumber \/ \E i \in DOMAIN header : header[i] = Malformed
     IN /\ step' = (IF none THEN "nearby" ELSE "frame")
        /\ mContentLength' = (IF none THEN mContentLength ELSE length)
  /\ pos' = mark + headerLen
  /\ UNCHANGED <<parts, data, mark, headerLen, frames, outcome>>

startPos == IF mContentLength < 0 THEN 0 ELSE mContentLength \div 2
endPos == (3 * mContentLength) \div 2

(* skipBytes with the field headerLen, which the local variable of that    *)
(* name hides: it is -1 for ever, here and in the length that is returned. *)
(* (LengthNearbyOff leaves out the last byte.)                             *)
HeaderLenField == -1
Skipped == Min({Max({HeaderLenField + startPos, 0}), Len(data) - pos})
LengthNearbyOff(read) == HeaderLenField + startPos + read - 1
LengthNearby(read) == HeaderLenField + startPos + read

(* getEndOfSeqeunceSimplified: between half and one and a half times the   *)
(* length of the last frame.                                               *)
EndNearby ==
  Default!SearchUpTo(Default!EOF_MARKER, pos + Skipped, Max({endPos - startPos, 0}))

(* If the end marker is not there, reset. If it is, but too far for the    *)
(* mark, mContentLength is assigned all the same before reset throws.      *)
FindEndNearby ==
  /\ step = "nearby"
  /\ LET eof == EndNearby
         end == pos + Skipped + eof.read
     IN
       \/ /\ eof.result = "found" /\ Default!MarkedAt(end)
          /\ mContentLength' = LengthNearby(eof.read) /\ step' = "frame"
          /\ UNCHANGED <<parts, data, pos, headerLen, frames, outcome>>
       \/ /\ eof.result = "found" /\ ~Default!MarkedAt(end)
          /\ FailKnowing("IOException", end, LengthNearby(eof.read))
       \/ /\ eof.result = "-1" /\ Default!MarkedAt(end)
          /\ pos' = mark /\ step' = "anywhere"
          /\ UNCHANGED <<parts, data, headerLen, mContentLength, frames, outcome>>
       \/ /\ \/ eof.result = "EOFException"
             \/ eof.result = "-1" /\ ~Default!MarkedAt(end)
          /\ Fail("IOException", end)
  /\ UNCHANGED mark

(* getEndOfSeqeunce from the mark: the length found includes the header.   *)
(* Not found, it is -1, of which readFully makes an exception.             *)
FindEndFromMark ==
  /\ step = "anywhere"
  /\ LET eof == Default!Search(Default!EOF_MARKER, pos)
         end == pos + eof.read
     IN
       \/ /\ eof.result = "found"
          /\ mContentLength' = eof.read /\ step' = "frame"
          /\ UNCHANGED <<parts, data, pos, headerLen, frames, outcome>>
       \/ eof.result = "EOFException" /\ Fail("IOException", end)
       \/ eof.result = "-1" /\ FailKnowing("crash", mark, -1)
  /\ UNCHANGED mark

ReadFrame == Default!ReadFrame

Next == FindStart \/ ReadHeader \/ FindEndNearby \/ FindEndFromMark \/ ReadFrame

Spec == Init /\ [][Next]_vars

(* The drawing loop calls again until the result is -1.                    *)
FairSpec == Spec /\ WF_vars(Next)
-----------------------------------------------------------------------------
TypeOK ==
  /\ parts \in Sent
  /\ pos \in 0..Len(data) /\ mark \in 0..pos
  /\ step \in {"idle", "header", "nearby", "anywhere", "frame"}
  /\ headerLen \in 0..FRAME_MAX_LENGTH /\ mContentLength \in Int
  /\ outcome \in {"none", "frame", "IOException", "crash", "-1"}

Sound == \A i \in DOMAIN parts : Default!IsSound(parts[i])
Announced == \A i \in DOMAIN parts : Default!Announces(parts[i])
Unannounced == \A i \in DOMAIN parts : ~Default!Announces(parts[i])
Body(i) == Default!Body(i)
Size(i) == Len(parts[i].body)

(* From a camera that announces the lengths of sound parts every image is  *)
(* returned as it was sent, in order, and the connection ends with -1 and  *)
(* no part left unread.                                                    *)
AnnouncedAreExact ==
  Sound /\ Announced =>
    /\ frames = [i \in 1..Len(frames) |-> Body(i)]
    /\ outcome = "-1" => Len(frames) = Len(parts)
    /\ outcome \notin {"crash", "IOException"}

(* Whatever the camera sends, a frame begins with a start marker.          *)
FramesStartAtMarker ==
  \A i \in DOMAIN frames :
    SubSeq(data, frames[i].first, frames[i].first + 1) = Default!SOI_MARKER

SameHeads == \A i \in DOMAIN parts : Len(parts[i].head) = Len(parts[1].head)

Similar ==
  \A i \in DOMAIN parts :
    LET before == IF i = 2 THEN Size(1) + Len(parts[1].head) ELSE Size(i - 1)
    IN i > 1 => before \div 2 < Size(i) /\ Size(i) < (3 * before) \div 2

(* The search around the last length finds what a search of the whole body *)
(* would have found, in spite of the hidden field, as long as each body is *)
(* between half and one and a half times as long as the frame before: of a *)
(* camera that announces nothing, whose heads are all as long, the first   *)
(* frame takes in the head of the second part, because its length counts   *)
(* the head, and all others are exact.                                     *)
UnannouncedAreExactButFirst ==
  Sound /\ Unannounced /\ SameHeads /\ Similar =>
    \A j \in DOMAIN frames :
      /\ frames[j].first = Body(j).first
      /\ frames[j].last = Body(j).last + (IF j = 1 THEN Len(parts[1].head) ELSE 0)

NoLines ==
  \A i \in DOMAIN parts : Default!Announcements(parts[i].body) = {}

(* From such a camera a frame is never cut off before the end of its       *)
(* image, however the lengths change: a length that is not announced may   *)
(* be found too long, but never too short. (A search that gives up beyond  *)
(* the mark leaves the stream within a body, and a line in the rest of it  *)
(* would be taken for an announcement.)                                    *)
NeverTooShort ==
  Sound /\ Unannounced /\ SameHeads /\ NoLines =>
    \A j \in DOMAIN frames, i \in DOMAIN parts :
      frames[j].first = Body(i).first => frames[j].last >= Body(i).last

(* The reader gets through the stream, or stops with -1.                   *)
ReadsToTheEnd == <>(pos = Len(data) \/ outcome \in {"crash", "-1"})
=============================================================================
