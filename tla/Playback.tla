------------------------------ MODULE Playback ------------------------------
(***************************************************************************)
(* What a MjpegView (MjpegView.java) promises to the screen that hosts it: *)
(* it has at most one source, and whatever reaches the display is a frame  *)
(* of the source it has at that moment.                                    *)
(*                                                                         *)
(* A frame is told from the frame before it by one alternating bit, so     *)
(* that posting a frame of a stream never looks like doing nothing.        *)
(***************************************************************************)
EXTENDS Integers

CONSTANTS
  Streams,    (* the MJPEG connections a view may be given                 *)
  NoStream,   (* the null source                                           *)
  MayGlitch   (* the view may post a canvas it has not painted             *)

VARIABLES
  playing,    (* the current source, or NoStream                           *)
  screen      (* what the display shows: whose frame, and its bit          *)

vars == <<playing, screen>>

(* A display content. Nothing painted on it: from = NoStream.              *)
Content == [from : Streams \cup {NoStream}, bit : {0, 1}]

(* The canvas of `s' (NoStream: an unpainted one) posted over `before'.    *)
Posted(before, s) == [from |-> s, bit |-> 1 - before.bit]

Init ==
  /\ playing = NoStream
  /\ screen = [from |-> NoStream, bit |-> 0]

(* setSource: the view plays s from now on.                                *)
Play(s) ==
  /\ playing # s
  /\ playing' = s
  /\ UNCHANGED screen

(* A frame of the current source, and of no other, is displayed.           *)
Show ==
  /\ playing # NoStream
  /\ screen' = Posted(screen, playing)
  /\ UNCHANGED playing

(* A canvas nobody painted is displayed while a source is playing.         *)
Glitch ==
  /\ MayGlitch
  /\ playing # NoStream
  /\ screen' = Posted(screen, NoStream)
  /\ UNCHANGED playing

(* stopPlayback has dropped the source: the display stays as it is.        *)
Stop ==
  /\ playing # NoStream
  /\ playing' = NoStream
  /\ UNCHANGED screen

Next ==
  \/ \E s \in Streams : Play(s)
  \/ Show
  \/ Glitch
  \/ Stop

Spec == Init /\ [][Next]_vars
=============================================================================
