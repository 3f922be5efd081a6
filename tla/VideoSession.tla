---------------------------- MODULE VideoSession ----------------------------
(***************************************************************************)
(* MainActivity.java as the host of a view, and Mjpeg.java, which opens    *)
(* the connections it is given. An opening lives on three threads:         *)
(*                                                                         *)
(*   - an I/O thread is blocked in getInputStream for as long as the       *)
(*     camera likes;                                                       *)
(*   - the timer of the operator `timeout' gives the opening up after a    *)
(*     while, without ending that call;                                    *)
(*   - what comes of it, a stream or an error, is queued to the UI thread  *)
(*     (observeOn), which takes it between two callbacks of the activity.  *)
(*                                                                         *)
(* The view is MjpegViewDefault seen from outside: a source, and whether   *)
(* it streams. A source that is replaced is not closed.                    *)
(***************************************************************************)
EXTENDS Integers

CONSTANTS
  Addresses,          (* what the camera may announce as its link          *)
  Openings,           (* calls of Mjpeg.open: bounds their number          *)
  NoOpening,          (* mIn == null                                       *)
  NoAddress,          (* the empty link                                    *)
  OneAddressAtATime   (* a link is announced when no opening is in flight  *)

SessionAssumption ==
  /\ NoOpening \notin Openings
  /\ NoAddress \notin Addresses
  /\ OneAddressAtATime \in BOOLEAN

VARIABLES
  stage,       (* of the activity: "stopped", "paused" or "resumed"        *)
  Videolink,   (* the last link announced                                  *)
  link,        (* the link each opening was made for                       *)
  io,          (* the I/O thread of each opening                           *)
  timedOut,    (* its timer has gone off                                   *)
  queued,      (* what waits for the UI thread                             *)
  mIn,         (* the opening whose stream the view has                    *)
  mRun,        (* isStreaming()                                            *)
  conn,        (* the connection of each opening                           *)
  toast        (* the last opening to end has ended in "Error"             *)

opening == <<link, io, timedOut, queued>>
view == <<mIn, mRun>>
vars == <<stage, Videolink, opening, view, conn, toast>>

TypeOK ==
  /\ stage \in {"stopped", "paused", "resumed"}
  /\ Videolink \in Addresses \cup {NoAddress}
  /\ link \in [Openings -> Addresses \cup {NoAddress}]
  /\ io \in [Openings -> {"unused", "connecting", "done"}]
  /\ timedOut \in [Openings -> BOOLEAN]
  /\ queued \in [Openings -> {"nothing", "stream", "error"}]
  /\ mIn \in Openings \cup {NoOpening}
  /\ mRun \in BOOLEAN
  /\ conn \in [Openings -> {"none", "open", "closed"}]
  /\ toast \in BOOLEAN

Init ==
  /\ stage = "stopped"
  /\ Videolink = NoAddress
  /\ link = [o \in Openings |-> NoAddress]
  /\ io = [o \in Openings |-> "unused"]
  /\ timedOut = [o \in Openings |-> FALSE]
  /\ queued = [o \in Openings |-> "nothing"]
  /\ mIn = NoOpening
  /\ mRun = FALSE
  /\ conn = [o \in Openings |-> "none"]
  /\ toast = FALSE

(* An opening that may still give the UI thread something to do.           *)
InFlight(o) ==
  \/ queued[o] # "nothing"
  \/ io[o] = "connecting" /\ ~timedOut[o]
-----------------------------------------------------------------------------
(* The activity, on the UI thread. A variant that stands before an action, *)
(* here and below, has one mistake in it and is no part of Next: it shows  *)
(* that a property notices.                                                *)

(* loadIpCam: nothing without a link, else one more call of Mjpeg.open.    *)
LoadIpCam(a) ==
  IF a = NoAddress
  THEN UNCHANGED opening
  ELSE \E o \in Openings :
         /\ io[o] = "unused"
         /\ link' = [link EXCEPT ![o] = a]
         /\ io' = [io EXCEPT ![o] = "connecting"]
         /\ UNCHANGED <<timedOut, queued>>

(* onMessageArrived on the topic of links, once it is run on the UI        *)
(* thread; it may have been posted before the activity was stopped.        *)
AddressArrivesLoadingFirst(a) ==
  /\ OneAddressAtATime => \A o \in Openings : ~InFlight(o)
  /\ Videolink' = a
  /\ LoadIpCam(Videolink)
  /\ UNCHANGED <<stage, view, conn, toast>>

AddressArrives(a) ==
  /\ OneAddressAtATime => \A o \in Openings : ~InFlight(o)
  /\ Videolink' = a
  /\ LoadIpCam(a)
  /\ UNCHANGED <<stage, view, conn, toast>>

OnResume ==
  /\ stage # "resumed"
  /\ stage' = "resumed"
  /\ LoadIpCam(Videolink)
  /\ UNCHANGED <<Videolink, view, conn, toast>>

(* stopPlayback of the view.                                               *)
StopPlayback ==
  /\ mIn' = NoOpening
  /\ mRun' = FALSE
  /\ conn' = IF mIn = NoOpening THEN conn ELSE [conn EXCEPT ![mIn] = "closed"]

OnPause ==
  /\ stage = "resumed"
  /\ stage' = "paused"
  /\ IF mRun THEN StopPlayback ELSE UNCHANGED <<view, conn>>
  /\ UNCHANGED <<Videolink, opening, toast>>

(* onStop takes the surface with it: surfaceDestroyed stops the view.      *)
OnStop ==
  /\ stage = "paused"
  /\ stage' = "stopped"
  /\ StopPlayback
  /\ UNCHANGED <<Videolink, opening, toast>>

(* subscribe's first lambda: setSource.                                    *)
Connected(o) ==
  /\ queued[o] = "stream"
  /\ queued' = [queued EXCEPT ![o] = "nothing"]
  /\ mIn' = o
  /\ mRun' = TRUE
  /\ toast' = FALSE
  /\ UNCHANGED <<stage, Videolink, link, io, timedOut, conn>>

(* subscribe's second lambda: the toast.                                   *)
Failed(o) ==
  /\ queued[o] = "error"
  /\ queued' = [queued EXCEPT ![o] = "nothing"]
  /\ toast' = TRUE
  /\ UNCHANGED <<stage, Videolink, link, io, timedOut, view, conn>>
-----------------------------------------------------------------------------
(* Mjpeg.connect on its I/O thread, and the timer. After the timer has     *)
(* gone off whatever comes is dropped: a stream with its socket open.      *)
ConnectAnyway(o) ==
  /\ io[o] = "connecting"
  /\ io' = [io EXCEPT ![o] = "done"]
  /\ conn' = [conn EXCEPT ![o] = "open"]
  /\ queued' = [queued EXCEPT ![o] = "stream"]
  /\ UNCHANGED <<stage, Videolink, link, timedOut, view, toast>>

Connect(o) ==
  /\ io[o] = "connecting"
  /\ io' = [io EXCEPT ![o] = "done"]
  /\ conn' = [conn EXCEPT ![o] = "open"]
  /\ queued' = IF timedOut[o] THEN queued ELSE [queued EXCEPT ![o] = "stream"]
  /\ UNCHANGED <<stage, Videolink, link, timedOut, view, toast>>

ConnectFails(o) ==
  /\ io[o] = "connecting"
  /\ io' = [io EXCEPT ![o] = "done"]
  /\ queued' = IF timedOut[o] THEN queued ELSE [queued EXCEPT ![o] = "error"]
  /\ UNCHANGED <<stage, Videolink, link, timedOut, view, conn, toast>>

(* The timer as a message of its own, and open(url), which has none.       *)
TimeoutNever(o) == FALSE /\ UNCHANGED vars

Timeout(o) ==
  /\ io[o] = "connecting"
  /\ ~timedOut[o]
  /\ timedOut' = [timedOut EXCEPT ![o] = TRUE]
  /\ queued' = [queued EXCEPT ![o] = "error"]
  /\ UNCHANGED <<stage, Videolink, link, io, view, conn, toast>>
-----------------------------------------------------------------------------
Next ==
  \/ \E a \in Addresses : AddressArrives(a)
  \/ OnResume
  \/ OnPause
  \/ OnStop
  \/ \E o \in Openings :
       \/ Connected(o)
       \/ Failed(o)
       \/ Connect(o)
       \/ ConnectFails(o)
       \/ Timeout(o)

Spec == Init /\ [][Next]_vars

(* The timer goes off, and the UI thread takes what is queued. Nothing     *)
(* makes a camera answer.                                                  *)
Fairness ==
  \A o \in Openings : WF_vars(Timeout(o)) /\ WF_vars(Connected(o)) /\ WF_vars(Failed(o))
-----------------------------------------------------------------------------
(* Properties.                                                             *)

(* A connection that comes after its timeout has been reported is never    *)
(* given to the view: the toast is the last word (Mjpeg.java:120-125).     *)
TimedOutNeverPlays == \A o \in Openings : timedOut[o] => mIn # o

(* If links do not overtake each other, what plays once every opening has  *)
(* ended is the last link announced, across pauses, resumes and openings   *)
(* of the same link that cross; or its opening has failed, and the user    *)
(* has been told (MainActivity.java:165-183, 203-213).                     *)
LatestAddressPlays ==
  mRun /\ (\A o \in Openings : ~InFlight(o)) =>
    link[mIn] = Videolink \/ toast

(* The view streams only what is open, also when an opening that was made  *)
(* before a pause ends after the resume (MainActivity.java:175, 211).      *)
PlaysOpenConnection == mRun => mIn # NoOpening /\ conn[mIn] = "open"

(* A user who looks at the activity and has a link sees video or an error, *)
(* even if the camera never answers (120-125, 179-182).                    *)
ResumedEndsSomewhere ==
  stage = "resumed" /\ Videolink # NoAddress
    ~> mRun \/ toast \/ stage # "resumed"

(* Together, with any camera: after its timeout an opening never plays,    *)
(* and what plays is open (Mjpeg.java:120-125; MainActivity.java:175).     *)
OnlyOpenVideoPlays == TypeOK /\ TimedOutNeverPlays /\ PlaysOpenConnection
=============================================================================
