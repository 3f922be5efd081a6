----------------------------- MODULE Snapshots -----------------------------
(***************************************************************************)
(* MainActivity.beginDownload and its DownloadListener: the path of the    *)
(* snapshot is one field, whatever the number of downloads, and each one   *)
(* that completes shows the file the field names, then empties it. The     *)
(* transfer manager writes the files on threads of its own and calls the   *)
(* listener on the UI thread, later; a download may also fail, without a   *)
(* call that does anything.                                                *)
(***************************************************************************)
EXTENDS Naturals

CONSTANTS
  Names,         (* of snapshots; the camera may use one again             *)
  NoName,        (* snapShotPath = ""                                      *)
  MaxDownloads,  (* bounds the number of snapshots announced               *)
  OneAtATime     (* the camera announces one when no download is under way *)

SnapshotsAssumption ==
  /\ NoName \notin Names
  /\ MaxDownloads \in Nat
  /\ OneAtATime \in BOOLEAN

Downloads == 1..MaxDownloads

VARIABLES
  snapShotPath, (* the field                                               *)
  begun,        (* downloads begun                                         *)
  name,         (* the file each of them writes                            *)
  state,        (* of each download                                        *)
  file,         (* of each name: the download whose bytes it holds, 0 when *)
                (* there is no file, and whether it is whole               *)
  shown         (* the bytes on the screen, and whether they are whole     *)

vars == <<snapShotPath, begun, name, state, file, shown>>

Content == [of : 0..MaxDownloads, whole : BOOLEAN]
Nothing == [of |-> 0, whole |-> TRUE]

TypeOK ==
  /\ snapShotPath \in Names \cup {NoName}
  /\ begun \in 0..MaxDownloads
  /\ name \in [Downloads -> Names \cup {NoName}]
  /\ state \in [Downloads -> {"none", "waiting", "writing", "written",
                              "completed", "failed"}]
  /\ file \in [Names -> Content]
  /\ shown \in Content

Init ==
  /\ snapShotPath = NoName
  /\ begun = 0
  /\ name = [d \in Downloads |-> NoName]
  /\ state = [d \in Downloads |-> "none"]
  /\ file = [n \in Names |-> Nothing]
  /\ shown = Nothing

UnderWay(d) == state[d] \in {"waiting", "writing", "written"}
-----------------------------------------------------------------------------
(* A variant that stands before an action has one mistake in it and is no  *)
(* part of Next: it shows that a property notices.                         *)

(* onMessageArrived on the topic of snapshots, and beginDownload.          *)
BeginDownload(n) ==
  /\ begun < MaxDownloads
  /\ OneAtATime => \A d \in Downloads : ~UnderWay(d)
  /\ begun' = begun + 1
  /\ name' = [name EXCEPT ![begun'] = n]
  /\ state' = [state EXCEPT ![begun'] = "waiting"]
  /\ snapShotPath' = n
  /\ UNCHANGED <<file, shown>>

(* The transfer manager opens the file, fills it, or gives up on it.       *)
OpenFile(d) ==
  /\ state[d] = "waiting"
  /\ state' = [state EXCEPT ![d] = "writing"]
  /\ file' = [file EXCEPT ![name[d]] = [of |-> d, whole |-> FALSE]]
  /\ UNCHANGED <<snapShotPath, begun, name, shown>>

FillFile(d) ==
  /\ state[d] = "writing"
  /\ state' = [state EXCEPT ![d] = "written"]
  /\ file' = [file EXCEPT ![name[d]] = [of |-> d, whole |-> TRUE]]
  /\ UNCHANGED <<snapShotPath, begun, name, shown>>

FailDownload(d) ==
  /\ state[d] \in {"waiting", "writing"}
  /\ state' = [state EXCEPT ![d] = "failed"]
  /\ UNCHANGED <<snapShotPath, begun, name, file, shown>>

(* What onStateChanged does for COMPLETED; there is no file named "".      *)
ShowFile ==
  IF snapShotPath # NoName /\ file[snapShotPath].of # 0
  THEN shown' = file[snapShotPath] /\ snapShotPath' = NoName
  ELSE UNCHANGED <<shown, snapShotPath>>

OnAnyState(d) ==
  /\ state[d] \in {"writing", "written"}
  /\ state' = [state EXCEPT ![d] = IF state[d] = "written" THEN "completed" ELSE "writing"]
  /\ ShowFile
  /\ UNCHANGED <<begun, name, file>>

OnCompleted(d) ==
  /\ state[d] = "written"
  /\ state' = [state EXCEPT ![d] = "completed"]
  /\ ShowFile
  /\ UNCHANGED <<begun, name, file>>

Next ==
  \/ \E n \in Names : BeginDownload(n)
  \/ \E d \in Downloads : OpenFile(d) \/ FillFile(d) \/ FailDownload(d)
                          \/ OnCompleted(d)

Spec == Init /\ [][Next]_vars
-----------------------------------------------------------------------------
(* Properties, for a camera that announces one snapshot at a time; with    *)
(* two at a time the first to complete shows the other's file as far as it *)
(* is written, and the other shows nothing.                                *)

(* What is on the screen is a whole picture, also when a name is used      *)
(* again and after downloads that failed half way (MainActivity.java:279). *)
ShownIsWhole == shown.whole

(* What is on the screen is the last download that completed: a field left *)
(* over by one that failed does not keep it away (MainActivity.java:193,   *)
(* 280-289).                                                               *)
LastIsShown ==
  \A d \in Downloads :
    state[d] = "completed" /\ (\A later \in d+1..MaxDownloads : state[later] # "completed")
      => shown.of = d

(* Together: what is shown is whole, and is the last snapshot that came.   *)
ShowsTheLastSnapshot == TypeOK /\ ShownIsWhole /\ LastIsShown
=============================================================================
