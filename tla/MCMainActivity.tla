--------------------------- MODULE MCMainActivity ---------------------------
(***************************************************************************)
(* MainActivity for TLC: its video, its subscriptions and its snapshots    *)
(* share no state, and a behaviour is one of them alone, `part', while the *)
(* others rest in their initial states. The video and the subscriptions    *)
(* come twice: with any camera, and with one whose links do not overtake   *)
(* each other; with any system, and with one that does not destroy an      *)
(* activity while the manager's thread subscribes it.                      *)
(***************************************************************************)
EXTENDS Integers

CONSTANTS
  Addresses, Openings, NoOpening, NoAddress,
  Activities, None, App, Losses,
  Names, NoName, MaxDownloads

VARIABLES
  part,
  stage, Videolink, link, io, timedOut, queued, mIn, mRun, conn, toast,
  connected, mActivity, listener, life, ui, current, mqtt, target, crashed,
  services, losses,
  snapShotPath, begun, name, state, file, shown

Video == INSTANCE VideoSession WITH OneAddressAtATime <- FALSE
VideoInTurn == INSTANCE VideoSession WITH OneAddressAtATime <- TRUE
CamIot == INSTANCE CamIotSession WITH NoOvertaking <- FALSE
CamIotInTurn == INSTANCE CamIotSession WITH NoOvertaking <- TRUE
Snapshot == INSTANCE Snapshots WITH OneAtATime <- TRUE

ASSUME MainActivityAssumption ==
  Video!SessionAssumption /\ CamIot!CamIotAssumption /\ Snapshot!SnapshotsAssumption

video == <<stage, Videolink, link, io, timedOut, queued, mIn, mRun, conn, toast>>
subscriptions ==
  <<connected, mActivity, listener, life, ui, current, mqtt, target, crashed,
    services, losses>>
snapshots == <<snapShotPath, begun, name, state, file, shown>>
vars == <<part, video, subscriptions, snapshots>>

Init ==
  /\ part \in {"video", "video in turn", "subscriptions", "subscriptions in turn",
               "snapshots"}
  /\ Video!Init /\ CamIot!Init /\ Snapshot!Init

Next ==
  /\ UNCHANGED part
  /\ \/ /\ \/ part = "video" /\ Video!Next
           \/ part = "video in turn" /\ VideoInTurn!Next
        /\ UNCHANGED <<subscriptions, snapshots>>
     \/ /\ \/ part = "subscriptions" /\ CamIot!Next
           \/ part = "subscriptions in turn" /\ CamIotInTurn!Next
        /\ UNCHANGED <<video, snapshots>>
     \/ /\ part = "snapshots" /\ Snapshot!Next
        /\ UNCHANGED <<video, subscriptions>>

Spec == Init /\ [][Next]_vars /\ Video!Fairness

(* With any camera: after its timeout an opening never plays, and what     *)
(* plays is open (Mjpeg.java:120-125; MainActivity.java:175, 211).         *)
OnlyOpenVideoPlays == Video!OnlyOpenVideoPlays

(* With links in turn, the last one plays, or the user has been told       *)
(* (MainActivity.java:165-183, 203-213).                                   *)
LatestAddressPlays == part = "video in turn" => VideoInTurn!LatestAddressPlays

(* A user with a link sees video or an error, even if the camera never     *)
(* answers (Mjpeg.java:120-125; MainActivity.java:179-182).                *)
ResumedEndsSomewhere == Video!ResumedEndsSomewhere

(* However onCreate and onStatusChanged interleave, the activity gets its  *)
(* topics (MainActivity.java:61, 80-81; CamIOT.java:88-91).                *)
CreatedIsSubscribed ==
  part = "subscriptions in turn" => CamIotInTurn!CreatedIsSubscribed

(* Whatever the system destroys and when: the intruder is reported, no     *)
(* destroyed instance is called, and the process dies of onStop only       *)
(* (CamIOT.java:88-91; MainActivity.java:256-261).                         *)
CallbacksFindTheActivity == CamIot!CallbacksFindTheActivity

(* What is shown is whole, and is the last snapshot that came              *)
(* (MainActivity.java:193, 279-289).                                       *)
ShowsTheLastSnapshot == Snapshot!ShowsTheLastSnapshot
=============================================================================
