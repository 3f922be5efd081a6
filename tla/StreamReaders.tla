--------------------------- MODULE StreamReaders ---------------------------
(***************************************************************************)
(* The two frame readers, each before its own cameras. They have the same  *)
(* variables; `reader' says which of them reads.                           *)
(***************************************************************************)
EXTENDS Integers, Sequences

CONSTANTS
  Cell, ContentLength, NotANumber, Malformed,
  DefaultMaxLength, NativeMaxLength,  (* FRAME_MAX_LENGTH of each          *)
  DefaultCameras, NativeCameras       (* what the cameras of each may send *)

VARIABLES
  reader, parts, data, pos, mark, step, headerLen, mContentLength, frames, outcome

Default == INSTANCE MjpegInputStreamDefault WITH
  FRAME_MAX_LENGTH <- DefaultMaxLength, Sent <- DefaultCameras
Native == INSTANCE MjpegInputStreamNative WITH
  FRAME_MAX_LENGTH <- NativeMaxLength, Sent <- NativeCameras

ASSUME ReadersAssumption ==
  Default!StreamAssumption /\ Native!Default!StreamAssumption

vars == <<reader, parts, data, pos, mark, step, headerLen, mContentLength, frames,
          outcome>>

Init ==
  \/ reader = "default" /\ Default!Init
  \/ reader = "native" /\ Native!Init

Next ==
  /\ UNCHANGED reader
  /\ \/ reader = "default" /\ Default!Next
     \/ reader = "native" /\ Native!Next

(* The drawing loops call again.                                           *)
Spec == Init /\ [][Next]_vars /\ WF_vars(Next)

(* The default reader returns every image of a camera that sends sound     *)
(* parts, as it was sent (MjpegInputStreamDefault.java:59-75).             *)
ExactlyTheImages == reader = "default" => Default!TypeOK /\ Default!ExactlyTheImages

(* Whatever the camera sends, frames begin with a start marker, those that *)
(* announce their length are whole, and a length that is short costs one   *)
(* image only (MjpegInputStreamDefault.java:51-56, 61-72).                 *)
DamageIsConfined ==
  /\ Default!FramesStartAtMarker
  /\ reader = "default" =>
       Default!AnnouncedFramesAreWhole /\ Default!ShortLengthLosesOneImage

(* The native reader returns every image of a camera that announces its    *)
(* lengths, and all but the first of one that does not while they change   *)
(* little; none is cut short (MjpegInputStreamNative.java:79-249).         *)
NativeImages ==
  reader = "native" =>
    /\ Native!TypeOK
    /\ Native!AnnouncedAreExact
    /\ Native!UnannouncedAreExactButFirst
    /\ Native!NeverTooShort

(* Both get through every stream, or stop.                                 *)
ReadsToTheEnd ==
  <>(pos = Len(data) \/ outcome \in {"crash", "-1"})
==============================================================================
