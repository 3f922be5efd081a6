--------------------------- MODULE CamIotSession ---------------------------
(***************************************************************************)
(* CamIOT.java and MainActivity.java as clients of the MQTT manager: who   *)
(* listens to which topic. Two threads share plain fields, without a lock: *)
(*                                                                         *)
(*   - the manager's thread, in onStatusChanged: connected = true, the     *)
(*     topic of notifications, then mActivity, read twice;                 *)
(*   - the UI thread, in onCreate: mActivity = this, the layout, then      *)
(*     connected; and in onStop: connected, the unsubscription,            *)
(*     mActivity = null.                                                   *)
(*                                                                         *)
(* Each thread writes its field before it reads the other's, so that one   *)
(* of them subscribes the activity. Steps are sequentially consistent.     *)
(* A connection that is lost takes the subscriptions along, or the manager *)
(* restores them: both happen.                                             *)
(***************************************************************************)
EXTENDS Naturals

CONSTANTS
  Activities,   (* instances of MainActivity: bounds how many there are    *)
  None,         (* mActivity == null, or nobody listens                    *)
  App,          (* the application object, as a listener                   *)
  Losses,       (* bounds the number of lost connections                   *)
  NoOvertaking  (* no instance is destroyed while the manager's thread is  *)
                (* still subscribing it                                    *)

CamIotAssumption ==
  /\ None \notin Activities
  /\ App \notin Activities
  /\ Losses \in Nat
  /\ NoOvertaking \in BOOLEAN

Topics == {"ip", "snap", "notification"}

VARIABLES
  connected,    (* CamIOT.connected                                        *)
  mActivity,    (* CamIOT.mActivity                                        *)
  listener,     (* the object whose callback each topic has                *)
  life,         (* of each activity                                        *)
  ui,           (* where the UI thread is in onCreate or onStop            *)
  current,      (* the activity it is there for                            *)
  mqtt,         (* where the manager's thread is in onStatusChanged        *)
  target,       (* the object on which it calls subscribe                  *)
  crashed,      (* a NullPointerException on the manager's thread          *)
  services,     (* a start of NotificationService waits for the UI thread  *)
  losses

threads == <<ui, current, mqtt, target>>
vars == <<connected, mActivity, listener, life, threads, crashed, services,
          losses>>

TypeOK ==
  /\ connected \in BOOLEAN
  /\ mActivity \in Activities \cup {None}
  /\ listener \in [Topics -> Activities \cup {None, App}]
  /\ life \in [Activities -> {"new", "created", "stopped", "restarted",
                              "destroyed"}]
  /\ ui \in {"idle", "layout", "subscribe ip", "subscribe snap",
             "unsubscribe", "forget"}
  /\ current \in Activities \cup {None}
  /\ mqtt \in {"idle", "notification", "test", "call", "subscribe ip",
               "subscribe snap"}
  /\ target \in Activities \cup {None}
  /\ crashed \in BOOLEAN
  /\ services \in BOOLEAN
  /\ losses \in 0..Losses

Init ==
  /\ connected = FALSE
  /\ mActivity = None
  /\ listener = [t \in Topics |-> None]
  /\ life = [a \in Activities |-> "new"]
  /\ ui = "idle"
  /\ current = None
  /\ mqtt = "idle"
  /\ target = None
  /\ crashed = FALSE
  /\ services = FALSE
  /\ losses = 0

(* An activity on the screen or behind others, not yet destroyed.          *)
Alive(a) == life[a] \in {"created", "stopped", "restarted"}
-----------------------------------------------------------------------------
(* The UI thread. The system destroys one instance before it creates the   *)
(* next (a rotation, a return after Back). A variant that stands before an *)
(* action has one mistake in it and is no part of Next: it shows that a    *)
(* property notices.                                                       *)

OnCreateUnregistered(a) ==
  /\ ui = "idle"
  /\ life[a] = "new"
  /\ \A b \in Activities : ~Alive(b)
  /\ current' = a
  /\ ui' = "layout"
  /\ UNCHANGED <<connected, mActivity, listener, life, mqtt, target, crashed,
                 services, losses>>

OnCreate(a) ==
  /\ ui = "idle"
  /\ life[a] = "new"
  /\ \A b \in Activities : ~Alive(b)
  /\ current' = a
  /\ mActivity' = a
  /\ ui' = "layout"
  /\ UNCHANGED <<connected, listener, life, mqtt, target, crashed, services,
                 losses>>

(* if(mCamIOT.connected) subscribe(), once the views are found.            *)
TestConnected ==
  /\ ui = "layout"
  /\ IF connected
     THEN ui' = "subscribe ip" /\ UNCHANGED life
     ELSE ui' = "idle" /\ life' = [life EXCEPT ![current] = "created"]
  /\ UNCHANGED <<connected, mActivity, listener, current, mqtt, target,
                 crashed, services, losses>>

(* subscribe, called by onCreate: one topic, the other, the service.       *)
SubscribeIp ==
  /\ ui = "subscribe ip"
  /\ ui' = "subscribe snap"
  /\ listener' = [listener EXCEPT !["ip"] = current]
  /\ UNCHANGED <<connected, mActivity, life, current, mqtt, target, crashed,
                 services, losses>>

SubscribeSnap ==
  /\ ui = "subscribe snap"
  /\ ui' = "idle"
  /\ listener' = [listener EXCEPT !["snap"] = current]
  /\ services' = TRUE
  /\ life' = [life EXCEPT ![current] = "created"]
  /\ UNCHANGED <<connected, mActivity, current, mqtt, target, crashed, losses>>

(* NotificationService.onStartCommand, in its turn on the UI thread.       *)
OnStartCommand ==
  /\ ui = "idle"
  /\ services
  /\ services' = FALSE
  /\ listener' = IF connected THEN [listener EXCEPT !["notification"] = App]
                              ELSE listener
  /\ UNCHANGED <<connected, mActivity, life, threads, crashed, losses>>

OnStop(a) ==
  /\ ui = "idle"
  /\ life[a] \in {"created", "restarted"}
  /\ current' = a
  /\ ui' = IF connected THEN "unsubscribe" ELSE "forget"
  /\ UNCHANGED <<connected, mActivity, listener, life, mqtt, target, crashed,
                 services, losses>>

(* publishString("STOP"), then unsubscribeTopic of links only.             *)
Unsubscribe ==
  /\ ui = "unsubscribe"
  /\ ui' = "forget"
  /\ listener' = [listener EXCEPT !["ip"] = None]
  /\ UNCHANGED <<connected, mActivity, life, current, mqtt, target, crashed,
                 services, losses>>

ForgetActivityNot ==
  /\ ui = "forget"
  /\ ui' = "idle"
  /\ life' = [life EXCEPT ![current] = "stopped"]
  /\ UNCHANGED <<connected, mActivity, listener, current, mqtt, target,
                 crashed, services, losses>>

ForgetActivity ==
  /\ ui = "forget"
  /\ ui' = "idle"
  /\ mActivity' = None
  /\ life' = [life EXCEPT ![current] = "stopped"]
  /\ UNCHANGED <<connected, listener, current, mqtt, target, crashed,
                 services, losses>>

(* A stopped activity comes back without onCreate, or is destroyed.        *)
Restart(a) ==
  /\ ui = "idle"
  /\ life[a] = "stopped"
  /\ \/ life' = [life EXCEPT ![a] = "restarted"]
     \/ /\ NoOvertaking => mqtt = "idle"
        /\ life' = [life EXCEPT ![a] = "destroyed"]
  /\ UNCHANGED <<connected, mActivity, listener, threads, crashed, services,
                 losses>>
-----------------------------------------------------------------------------
(* The manager's thread: onStatusChanged.                                  *)
Connected ==
  /\ mqtt = "idle"
  /\ ~connected
  /\ connected' = TRUE
  /\ mqtt' = "notification"
  /\ UNCHANGED <<mActivity, listener, life, ui, current, target, crashed,
                 services, losses>>

SubscribeNotif ==
  /\ mqtt = "notification"
  /\ mqtt' = "test"
  /\ listener' = [listener EXCEPT !["notification"] = App]
  /\ UNCHANGED <<connected, mActivity, life, ui, current, target, crashed,
                 services, losses>>

(* if(mActivity!=null) ...                                                 *)
TestActivity ==
  /\ mqtt = "test"
  /\ mqtt' = IF mActivity = None THEN "idle" ELSE "call"
  /\ UNCHANGED <<connected, mActivity, listener, life, ui, current, target,
                 crashed, services, losses>>

(* ... mActivity.subscribe(): the field is read again.                     *)
CallActivity ==
  /\ mqtt = "call"
  /\ target' = mActivity
  /\ IF mActivity = None
     THEN mqtt' = "idle" /\ crashed' = TRUE
     ELSE mqtt' = "subscribe ip" /\ UNCHANGED crashed
  /\ UNCHANGED <<connected, mActivity, listener, life, ui, current, services,
                 losses>>

CallbackSubscribesIp ==
  /\ mqtt = "subscribe ip"
  /\ mqtt' = "subscribe snap"
  /\ listener' = [listener EXCEPT !["ip"] = target]
  /\ UNCHANGED <<connected, mActivity, life, ui, current, target, crashed,
                 services, losses>>

CallbackSubscribesSnap ==
  /\ mqtt = "subscribe snap"
  /\ mqtt' = "idle"
  /\ listener' = [listener EXCEPT !["snap"] = target]
  /\ services' = TRUE
  /\ UNCHANGED <<connected, mActivity, life, ui, current, target, crashed,
                 losses>>

(* Reconnecting and ConnectionLost.                                        *)
ConnectionLost ==
  /\ mqtt = "idle"
  /\ connected
  /\ losses < Losses
  /\ losses' = losses + 1
  /\ connected' = FALSE
  /\ listener' \in {listener, [t \in Topics |-> None]}
  /\ UNCHANGED <<mActivity, life, threads, crashed, services>>
-----------------------------------------------------------------------------
UIStep ==
  \/ \E a \in Activities : OnCreate(a) \/ OnStop(a) \/ Restart(a)
  \/ TestConnected \/ SubscribeIp \/ SubscribeSnap
  \/ OnStartCommand
  \/ Unsubscribe \/ ForgetActivity

MqttStep ==
  \/ Connected \/ SubscribeNotif \/ TestActivity \/ CallActivity
  \/ CallbackSubscribesIp \/ CallbackSubscribesSnap
  \/ ConnectionLost

(* A crash ends the process, and the story.                                *)
Next == ~crashed /\ (UIStep \/ MqttStep)

Spec == Init /\ [][Next]_vars

Quiet == ui = "idle" /\ mqtt = "idle"
-----------------------------------------------------------------------------
(* Properties.                                                             *)

(* Whichever of onCreate and onStatusChanged comes first, and however they *)
(* interleave, an activity that has not been stopped since it was created  *)
(* gets the links and the snapshots once both are done. It takes           *)
(* NoOvertaking: a callback that is slower than a rotation subscribes the  *)
(* old instance last (MainActivity.java:61, 80-81; CamIOT.java:88-91).     *)
CreatedIsSubscribed ==
  \A a \in Activities :
    Quiet /\ connected /\ life[a] = "created"
      => listener["ip"] = a /\ listener["snap"] = a

(* The intruder is reported whether or not an activity exists: no stop,    *)
(* restart or destruction takes the topic of notifications away            *)
(* (CamIOT.java:89; MainActivity.java:256-258).                            *)
AlwaysNotified ==
  connected /\ mqtt # "notification" => listener["notification"] = App

(* The manager's thread never subscribes an instance that another has      *)
(* replaced: what it calls is what was on the screen at the call           *)
(* (CamIOT.java:90-91; MainActivity.java:261).                             *)
NeverSubscribesTheDead ==
  \A a \in Activities : mqtt = "call" /\ mActivity = a => life[a] # "destroyed"

(* The callback finds the field null, between its test and its call, only  *)
(* when an activity has been stopped: onStop alone can kill the process,   *)
(* never the start of the application (CamIOT.java:90-91).                 *)
CrashNeedsStop ==
  crashed => \E a \in Activities : life[a] \in {"stopped", "restarted", "destroyed"}

(* Together, whatever the system destroys and when: the intruder is        *)
(* reported, no destroyed instance is called, and the process dies of      *)
(* onStop only (CamIOT.java:88-91; MainActivity.java:256-261).             *)
CallbacksFindTheActivity ==
  TypeOK /\ AlwaysNotified /\ NeverSubscribesTheDead /\ CrashNeedsStop
=============================================================================
