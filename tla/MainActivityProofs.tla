------------------------- MODULE MainActivityProofs -------------------------
(***************************************************************************)
(* What the three sessions of MainActivity keep, of the specification that *)
(* TLC checks: each part of MCMainActivity takes the steps of its session, *)
(* so that what is proved of the session holds of the whole, for every     *)
(* value of its constants.                                                 *)
(***************************************************************************)
EXTENDS MCMainActivity, TLAPS

-----------------------------------------------------------------------------
(* The video. Type correctness, with any camera (MainActivity.java,        *)
(* Mjpeg.java).                                                            *)
LEMMA VideoTypeCorrect ==
  ASSUME Video!SessionAssumption
  PROVE  Video!Spec => []Video!TypeOK
<1> USE Video!SessionAssumption DEF Video!SessionAssumption, Video!TypeOK
<1>1. Video!Init => Video!TypeOK
  BY DEF Video!Init
<1>2. Video!TypeOK /\ [Video!Next]_(Video!vars) => Video!TypeOK'
  <2> SUFFICES ASSUME Video!TypeOK, [Video!Next]_(Video!vars)
               PROVE  Video!TypeOK'
    OBVIOUS
  <2>1. ASSUME NEW a \in Addresses, Video!AddressArrives(a) PROVE Video!TypeOK'
    BY <2>1 DEF Video!AddressArrives, Video!LoadIpCam, Video!view
  <2>2. ASSUME Video!OnResume PROVE Video!TypeOK'
    BY <2>2 DEF Video!OnResume, Video!LoadIpCam, Video!opening, Video!view
  <2>3. ASSUME Video!OnPause PROVE Video!TypeOK'
    BY <2>3 DEF Video!OnPause, Video!StopPlayback, Video!opening, Video!view
  <2>4. ASSUME Video!OnStop PROVE Video!TypeOK'
    BY <2>4 DEF Video!OnStop, Video!StopPlayback, Video!opening, Video!view
  <2>5. ASSUME NEW o \in Openings, Video!Connected(o) PROVE Video!TypeOK'
    BY <2>5 DEF Video!Connected
  <2>6. ASSUME NEW o \in Openings, Video!Failed(o) PROVE Video!TypeOK'
    BY <2>6 DEF Video!Failed, Video!view
  <2>7. ASSUME NEW o \in Openings, Video!Connect(o) PROVE Video!TypeOK'
    BY <2>7 DEF Video!Connect, Video!view
  <2>8. ASSUME NEW o \in Openings, Video!ConnectFails(o) PROVE Video!TypeOK'
    BY <2>8 DEF Video!ConnectFails, Video!view
  <2>9. ASSUME NEW o \in Openings, Video!Timeout(o) PROVE Video!TypeOK'
    BY <2>9 DEF Video!Timeout, Video!view
  <2>10. CASE UNCHANGED Video!vars
    BY <2>10 DEF Video!vars, Video!opening, Video!view
  <2> QED
    BY <2>1, <2>2, <2>3, <2>4, <2>5, <2>6, <2>7, <2>8, <2>9, <2>10
    DEF Video!Next
<1> QED
  BY <1>1, <1>2, PTL DEF Video!Spec

(* An opening goes one way: unused, connecting, then queued unless its     *)
(* timer has gone off, then the view's, once. No step goes back to it.     *)
OpeningInv ==
  /\ \A o \in Openings :
       /\ io[o] = "unused" => queued[o] = "nothing" /\ ~timedOut[o]
       /\ queued[o] = "stream"
            => io[o] = "done" /\ ~timedOut[o] /\ conn[o] = "open"
       /\ mIn = o
            => io[o] = "done" /\ ~timedOut[o] /\ queued[o] = "nothing"
  /\ Video!PlaysOpenConnection

(* OpeningInv is inductive with TypeOK, with any camera, and whatever the  *)
(* activity does.                                                          *)
LEMMA OpeningInvAlways ==
  ASSUME Video!SessionAssumption
  PROVE  Video!Spec => []OpeningInv
<1> USE Video!SessionAssumption
    DEF Video!SessionAssumption, OpeningInv, Video!PlaysOpenConnection
<1>1. Video!Init => OpeningInv
  BY DEF Video!Init
<1>2. Video!TypeOK /\ OpeningInv /\ [Video!Next]_(Video!vars) => OpeningInv'
  <2> SUFFICES ASSUME Video!TypeOK, OpeningInv, [Video!Next]_(Video!vars)
               PROVE  OpeningInv'
    OBVIOUS
  <2> USE DEF Video!TypeOK
  <2>1. ASSUME NEW a \in Addresses, Video!AddressArrives(a) PROVE OpeningInv'
    BY <2>1 DEF Video!AddressArrives, Video!LoadIpCam, Video!view
  <2>2. ASSUME Video!OnResume PROVE OpeningInv'
    BY <2>2 DEF Video!OnResume, Video!LoadIpCam, Video!opening, Video!view
  <2>3. ASSUME Video!OnPause PROVE OpeningInv'
    BY <2>3 DEF Video!OnPause, Video!StopPlayback, Video!opening, Video!view
  <2>4. ASSUME Video!OnStop PROVE OpeningInv'
    BY <2>4 DEF Video!OnStop, Video!StopPlayback, Video!opening, Video!view
  <2>5. ASSUME NEW o \in Openings, Video!Connected(o) PROVE OpeningInv'
    BY <2>5 DEF Video!Connected
  <2>6. ASSUME NEW o \in Openings, Video!Failed(o) PROVE OpeningInv'
    BY <2>6 DEF Video!Failed, Video!view
  <2>7. ASSUME NEW o \in Openings, Video!Connect(o) PROVE OpeningInv'
    BY <2>7 DEF Video!Connect, Video!view
  <2>8. ASSUME NEW o \in Openings, Video!ConnectFails(o) PROVE OpeningInv'
    BY <2>8 DEF Video!ConnectFails, Video!view
  <2>9. ASSUME NEW o \in Openings, Video!Timeout(o) PROVE OpeningInv'
    BY <2>9 DEF Video!Timeout, Video!view
  <2>10. CASE UNCHANGED Video!vars
    BY <2>10 DEF Video!vars, Video!opening, Video!view
  <2> QED
    BY <2>1, <2>2, <2>3, <2>4, <2>5, <2>6, <2>7, <2>8, <2>9, <2>10
    DEF Video!Next
<1> QED
  BY <1>1, <1>2, VideoTypeCorrect, PTL DEF Video!Spec

(* A camera that announces its links in turn is one of the cameras.        *)
LEMMA InTurnIsVideo == VideoInTurn!Next => Video!Next
  BY DEF VideoInTurn!Next, Video!Next, VideoInTurn!AddressArrives,
      Video!AddressArrives, VideoInTurn!LoadIpCam, Video!LoadIpCam,
      VideoInTurn!OnResume, Video!OnResume, VideoInTurn!OnPause, Video!OnPause,
      VideoInTurn!OnStop, Video!OnStop, VideoInTurn!StopPlayback,
      Video!StopPlayback, VideoInTurn!Connected, Video!Connected,
      VideoInTurn!Failed, Video!Failed, VideoInTurn!Connect, Video!Connect,
      VideoInTurn!ConnectFails, Video!ConnectFails, VideoInTurn!Timeout,
      Video!Timeout, VideoInTurn!view, Video!view, VideoInTurn!opening,
      Video!opening, VideoInTurn!InFlight, Video!InFlight

(* Links in turn: whatever is in flight is for the last link, and until it *)
(* has ended something is.                                                 *)
LatestInv ==
  /\ \A o \in Openings : VideoInTurn!InFlight(o) => link[o] = Videolink
  /\ mRun => \/ link[mIn] = Videolink
             \/ toast
             \/ \E o \in Openings : VideoInTurn!InFlight(o)

(* LatestInv is inductive relative to OpeningInv for such a camera.        *)
LEMMA LatestInvAlways ==
  ASSUME Video!SessionAssumption
  PROVE  VideoInTurn!Spec => []LatestInv
<1> USE Video!SessionAssumption
    DEF Video!SessionAssumption, LatestInv, VideoInTurn!InFlight
<1>1. VideoInTurn!Init => LatestInv /\ Video!Init
  BY DEF VideoInTurn!Init, Video!Init
<1>2. [VideoInTurn!Next]_(VideoInTurn!vars) => [Video!Next]_(Video!vars)
  BY InTurnIsVideo
  DEF VideoInTurn!vars, Video!vars, VideoInTurn!opening, Video!opening,
      VideoInTurn!view, Video!view
<1>3. /\ Video!TypeOK /\ OpeningInv /\ LatestInv
      /\ [VideoInTurn!Next]_(VideoInTurn!vars)
      => LatestInv'
  <2> SUFFICES ASSUME Video!TypeOK, OpeningInv, LatestInv,
                      [VideoInTurn!Next]_(VideoInTurn!vars)
               PROVE  LatestInv'
    OBVIOUS
  <2> USE DEF Video!TypeOK, OpeningInv, Video!PlaysOpenConnection
  <2>1. ASSUME NEW a \in Addresses, VideoInTurn!AddressArrives(a)
        PROVE  LatestInv'
    BY <2>1 DEF VideoInTurn!AddressArrives, VideoInTurn!LoadIpCam,
        VideoInTurn!view
  <2>2. ASSUME VideoInTurn!OnResume PROVE LatestInv'
    BY <2>2 DEF VideoInTurn!OnResume, VideoInTurn!LoadIpCam,
        VideoInTurn!opening, VideoInTurn!view
  <2>3. ASSUME VideoInTurn!OnPause PROVE LatestInv'
    BY <2>3 DEF VideoInTurn!OnPause, VideoInTurn!StopPlayback,
        VideoInTurn!opening, VideoInTurn!view
  <2>4. ASSUME VideoInTurn!OnStop PROVE LatestInv'
    BY <2>4 DEF VideoInTurn!OnStop, VideoInTurn!StopPlayback,
        VideoInTurn!opening, VideoInTurn!view
  <2>5. ASSUME NEW o \in Openings, VideoInTurn!Connected(o) PROVE LatestInv'
    BY <2>5 DEF VideoInTurn!Connected
  <2>6. ASSUME NEW o \in Openings, VideoInTurn!Failed(o) PROVE LatestInv'
    BY <2>6 DEF VideoInTurn!Failed, VideoInTurn!view
  <2>7. ASSUME NEW o \in Openings, VideoInTurn!Connect(o) PROVE LatestInv'
    BY <2>7 DEF VideoInTurn!Connect, VideoInTurn!view
  <2>8. ASSUME NEW o \in Openings, VideoInTurn!ConnectFails(o) PROVE LatestInv'
    BY <2>8 DEF VideoInTurn!ConnectFails, VideoInTurn!view
  <2>9. ASSUME NEW o \in Openings, VideoInTurn!Timeout(o) PROVE LatestInv'
    BY <2>9 DEF VideoInTurn!Timeout, VideoInTurn!view
  <2>10. CASE UNCHANGED VideoInTurn!vars
    BY <2>10 DEF VideoInTurn!vars, VideoInTurn!opening, VideoInTurn!view
  <2> QED
    BY <2>1, <2>2, <2>3, <2>4, <2>5, <2>6, <2>7, <2>8, <2>9, <2>10
    DEF VideoInTurn!Next
<1> QED
  BY <1>1, <1>2, <1>3, VideoTypeCorrect, OpeningInvAlways, PTL
  DEF VideoInTurn!Spec, Video!Spec

(* With any camera: an opening that has been reported as timed out never   *)
(* plays, and what plays is open (Mjpeg.java:120-125; MainActivity.java:   *)
(* 175, 211).                                                              *)
THEOREM OnlyOpenVideoPlaysAlways == Spec => []OnlyOpenVideoPlays
<1>1. Init => Video!Init
  BY DEF Init
<1>2. [Next]_vars => [Video!Next]_(Video!vars)
  BY InTurnIsVideo
  DEF Next, vars, video, Video!vars, Video!view, Video!opening
<1>3. Video!SessionAssumption
  BY MainActivityAssumption DEF MainActivityAssumption
<1>4. Video!Spec => []Video!TypeOK /\ []OpeningInv
  BY <1>3, VideoTypeCorrect, OpeningInvAlways, PTL
<1>5. Video!TypeOK /\ OpeningInv => OnlyOpenVideoPlays
  BY DEF OnlyOpenVideoPlays, Video!OnlyOpenVideoPlays, OpeningInv,
      Video!TimedOutNeverPlays
<1> QED
  BY <1>1, <1>2, <1>4, <1>5, PTL DEF Spec, Video!Spec

(* With links in turn, what plays when every opening has ended is the last *)
(* link, or the user has been told (MainActivity.java:165-183, 203-213).   *)
THEOREM LatestAddressPlaysAlways == Spec => []LatestAddressPlays
<1> DEFINE Here == part = "video in turn"
<1>1. Init => VideoInTurn!Init
  BY DEF Init, Video!Init, VideoInTurn!Init
<1>2. Here /\ [Next]_vars => [VideoInTurn!Next]_(VideoInTurn!vars)
  BY DEF Next, vars, video, VideoInTurn!vars, VideoInTurn!view,
      VideoInTurn!opening
<1>3. Video!SessionAssumption
  BY MainActivityAssumption DEF MainActivityAssumption
<1>4. VideoInTurn!Spec => []LatestInv
  BY <1>3, LatestInvAlways
<1>5. LatestInv => LatestAddressPlays
  BY DEF LatestInv, LatestAddressPlays, VideoInTurn!LatestAddressPlays
<1>6. [Next]_vars => (Here <=> Here')
  BY DEF Next, vars
<1>7. ~Here => LatestAddressPlays
  BY DEF LatestAddressPlays
<1> HIDE DEF Here
<1> QED
  BY <1>1, <1>2, <1>4, <1>5, <1>6, <1>7, PTL DEF Spec, VideoInTurn!Spec
-----------------------------------------------------------------------------
(* The bound on lost connections, apart from everything else.              *)
LEMMA LossBounds ==
  ASSUME NEW n \in Nat
  PROVE  /\ 0 \in 0..n
         /\ \A k \in 0..n : k < n => k + 1 \in 0..n
OBVIOUS

(* The subscriptions. Type correctness (CamIOT.java, MainActivity.java).   *)
LEMMA SubscriptionsTypeCorrect ==
  ASSUME CamIot!CamIotAssumption
  PROVE  CamIot!Spec => []CamIot!TypeOK
<1> USE CamIot!CamIotAssumption DEF CamIot!CamIotAssumption, CamIot!TypeOK,
    CamIot!Topics
<1>1. CamIot!Init => CamIot!TypeOK
  <2> SUFFICES ASSUME CamIot!Init PROVE CamIot!TypeOK
    OBVIOUS
  <2>1. /\ listener \in [CamIot!Topics -> Activities \cup {None, App}]
        /\ life \in [Activities -> {"new", "created", "stopped", "restarted",
                                   "destroyed"}]
    BY DEF CamIot!Init
  <2>2. losses \in 0..Losses
    BY LossBounds DEF CamIot!Init
  <2> QED
    BY <2>1, <2>2 DEF CamIot!Init
<1>2. CamIot!TypeOK /\ [CamIot!Next]_(CamIot!vars) => CamIot!TypeOK'
  <2> SUFFICES ASSUME CamIot!TypeOK, [CamIot!Next]_(CamIot!vars)
               PROVE  CamIot!TypeOK'
    OBVIOUS
  <2>1. ASSUME NEW a \in Activities, CamIot!OnCreate(a) PROVE CamIot!TypeOK'
    BY <2>1 DEF CamIot!OnCreate
  <2>2. ASSUME NEW a \in Activities, CamIot!OnStop(a) PROVE CamIot!TypeOK'
    BY <2>2 DEF CamIot!OnStop
  <2>3. ASSUME NEW a \in Activities, CamIot!Restart(a) PROVE CamIot!TypeOK'
    BY <2>3 DEF CamIot!Restart, CamIot!threads
  <2>4. ASSUME CamIot!TestConnected PROVE CamIot!TypeOK'
    BY <2>4 DEF CamIot!TestConnected
  <2>5. ASSUME CamIot!SubscribeIp PROVE CamIot!TypeOK'
    BY <2>5 DEF CamIot!SubscribeIp
  <2>6. ASSUME CamIot!SubscribeSnap PROVE CamIot!TypeOK'
    BY <2>6 DEF CamIot!SubscribeSnap
  <2>7. ASSUME CamIot!OnStartCommand PROVE CamIot!TypeOK'
    BY <2>7 DEF CamIot!OnStartCommand, CamIot!threads
  <2>8. ASSUME CamIot!Unsubscribe PROVE CamIot!TypeOK'
    BY <2>8 DEF CamIot!Unsubscribe
  <2>9. ASSUME CamIot!ForgetActivity PROVE CamIot!TypeOK'
    BY <2>9 DEF CamIot!ForgetActivity
  <2>10. ASSUME CamIot!Connected PROVE CamIot!TypeOK'
    BY <2>10 DEF CamIot!Connected
  <2>11. ASSUME CamIot!SubscribeNotif PROVE CamIot!TypeOK'
    BY <2>11 DEF CamIot!SubscribeNotif
  <2>12. ASSUME CamIot!TestActivity PROVE CamIot!TypeOK'
    BY <2>12 DEF CamIot!TestActivity
  <2>13. ASSUME CamIot!CallActivity PROVE CamIot!TypeOK'
    BY <2>13 DEF CamIot!CallActivity
  <2>14. ASSUME CamIot!CallbackSubscribesIp PROVE CamIot!TypeOK'
    BY <2>14 DEF CamIot!CallbackSubscribesIp
  <2>15. ASSUME CamIot!CallbackSubscribesSnap PROVE CamIot!TypeOK'
    BY <2>15 DEF CamIot!CallbackSubscribesSnap
  <2>16. ASSUME CamIot!ConnectionLost PROVE CamIot!TypeOK'
    <3>1. losses' \in 0..Losses
      <4>1. losses < Losses /\ losses' = losses + 1
        BY <2>16 DEF CamIot!ConnectionLost
      <4> QED
        BY <4>1, LossBounds
    <3>2. listener' \in [CamIot!Topics -> Activities \cup {None, App}]
      BY <2>16 DEF CamIot!ConnectionLost
    <3> QED
      BY <2>16, <3>1, <3>2 DEF CamIot!ConnectionLost, CamIot!threads
  <2>17. CASE UNCHANGED CamIot!vars
    BY <2>17, ZenonT(60) DEF CamIot!vars, CamIot!threads
  <2> QED
    BY <2>1, <2>2, <2>3, <2>4, <2>5, <2>6, <2>7, <2>8, <2>9, <2>10, <2>11,
       <2>12, <2>13, <2>14, <2>15, <2>16, <2>17
    DEF CamIot!Next, CamIot!UIStep, CamIot!MqttStep
<1> QED
  BY <1>1, <1>2, PTL DEF CamIot!Spec

(* In onCreate, between mActivity = this and the end.                      *)
Creating == ui \in {"layout", "subscribe ip", "subscribe snap"}

(* What the field mActivity says of the activities: it names the one that  *)
(* is being created, or has not been stopped since; null, after its test,  *)
(* means that one has been.                                                *)
ActivityInv ==
  /\ ui # "idle" => current \in Activities
  /\ Creating => /\ mActivity = current
                 /\ life[current] = "new"
                 /\ \A a \in Activities : ~CamIot!Alive(a)
  /\ ui \in {"unsubscribe", "forget"} => CamIot!Alive(current)
  /\ \A a \in Activities :
       mActivity = a => \/ life[a] \in {"created", "restarted"}
                        \/ Creating /\ current = a
  /\ \A a \in Activities : life[a] = "created" => mActivity = a
  /\ \A a, b \in Activities : CamIot!Alive(a) /\ CamIot!Alive(b) => a = b
  /\ mqtt = "call" /\ mActivity = None
       => \E a \in Activities : life[a] \in {"stopped", "restarted", "destroyed"}
  /\ CamIot!AlwaysNotified
  /\ CamIot!CrashNeedsStop

(* Whatever the system destroys, and when (CamIOT.java:88-91).             *)
LEMMA ActivityInvAlways ==
  ASSUME CamIot!CamIotAssumption
  PROVE  CamIot!Spec => []ActivityInv
<1> USE CamIot!CamIotAssumption
    DEF CamIot!CamIotAssumption, ActivityInv, Creating, CamIot!Alive,
        CamIot!AlwaysNotified,
        CamIot!CrashNeedsStop
<1>1. CamIot!Init => ActivityInv
  BY DEF CamIot!Init
<1>2. CamIot!TypeOK /\ ActivityInv /\ [CamIot!Next]_(CamIot!vars)
      => ActivityInv'
  <2> SUFFICES ASSUME CamIot!TypeOK, ActivityInv, [CamIot!Next]_(CamIot!vars)
               PROVE  ActivityInv'
    OBVIOUS
  <2> USE DEF CamIot!TypeOK, CamIot!Topics
  <2>1. ASSUME NEW a \in Activities, CamIot!OnCreate(a) PROVE ActivityInv'
    BY <2>1 DEF CamIot!OnCreate
  <2>2. ASSUME NEW a \in Activities, CamIot!OnStop(a) PROVE ActivityInv'
    BY <2>2 DEF CamIot!OnStop
  <2>3. ASSUME NEW a \in Activities, CamIot!Restart(a) PROVE ActivityInv'
    BY <2>3, ZenonT(60) DEF CamIot!Restart, CamIot!threads
  <2>4. ASSUME CamIot!TestConnected PROVE ActivityInv'
    <3>1. CASE connected
      BY <2>4, <3>1 DEF CamIot!TestConnected
    <3>2. CASE ~connected
      <4>1. /\ ui = "layout" /\ ui' = "idle"
            /\ current \in Activities
            /\ life' = [life EXCEPT ![current] = "created"]
            /\ UNCHANGED <<connected, mActivity, listener, current, mqtt, crashed>>
        BY <2>4, <3>2 DEF CamIot!TestConnected
      <4>2. /\ mActivity = current /\ life[current] = "new"
            /\ \A a \in Activities : a # current => ~CamIot!Alive(a)
        BY <4>1
      <4>3. /\ life'[current] = "created"
            /\ \A a \in Activities : a # current => life'[a] = life[a]
        BY <4>1
      <4>4. mqtt' = "call" /\ mActivity' = None => FALSE
        BY <4>1, <4>2
      <4>5. CamIot!AlwaysNotified'
        BY <4>1
      <4>6. CamIot!CrashNeedsStop'
        BY <4>1, <4>2, <4>3
      <4> QED
        BY <4>1, <4>2, <4>3, <4>4, <4>5, <4>6
    <3> QED
      BY <3>1, <3>2
  <2>5. ASSUME CamIot!SubscribeIp PROVE ActivityInv'
    BY <2>5 DEF CamIot!SubscribeIp
  <2>6. ASSUME CamIot!SubscribeSnap PROVE ActivityInv'
    BY <2>6 DEF CamIot!SubscribeSnap
  <2>7. ASSUME CamIot!OnStartCommand PROVE ActivityInv'
    BY <2>7 DEF CamIot!OnStartCommand, CamIot!threads
  <2>8. ASSUME CamIot!Unsubscribe PROVE ActivityInv'
    BY <2>8 DEF CamIot!Unsubscribe
  <2>9. ASSUME CamIot!ForgetActivity PROVE ActivityInv'
    BY <2>9, ZenonT(60) DEF CamIot!ForgetActivity
  <2>10. ASSUME CamIot!Connected PROVE ActivityInv'
    BY <2>10 DEF CamIot!Connected
  <2>11. ASSUME CamIot!SubscribeNotif PROVE ActivityInv'
    BY <2>11 DEF CamIot!SubscribeNotif
  <2>12. ASSUME CamIot!TestActivity PROVE ActivityInv'
    BY <2>12 DEF CamIot!TestActivity
  <2>13. ASSUME CamIot!CallActivity PROVE ActivityInv'
    BY <2>13 DEF CamIot!CallActivity
  <2>14. ASSUME CamIot!CallbackSubscribesIp PROVE ActivityInv'
    BY <2>14 DEF CamIot!CallbackSubscribesIp
  <2>15. ASSUME CamIot!CallbackSubscribesSnap PROVE ActivityInv'
    BY <2>15 DEF CamIot!CallbackSubscribesSnap
  <2>16. ASSUME CamIot!ConnectionLost PROVE ActivityInv'
    BY <2>16 DEF CamIot!ConnectionLost, CamIot!threads
  <2>17. CASE UNCHANGED CamIot!vars
    BY <2>17 DEF CamIot!vars, CamIot!threads
  <2> QED
    BY <2>1, <2>2, <2>3, <2>4, <2>5, <2>6, <2>7, <2>8, <2>9, <2>10, <2>11,
       <2>12, <2>13, <2>14, <2>15, <2>16, <2>17
    DEF CamIot!Next, CamIot!UIStep, CamIot!MqttStep
<1> QED
  BY <1>1, <1>2, SubscriptionsTypeCorrect, PTL DEF CamIot!Spec

(* A system that does not overtake the manager's thread is one of the      *)
(* systems.                                                                *)
LEMMA InTurnIsCamIot == CamIotInTurn!Next => CamIot!Next
  BY DEF CamIotInTurn!Next, CamIot!Next, CamIotInTurn!UIStep, CamIot!UIStep,
      CamIotInTurn!MqttStep, CamIot!MqttStep, CamIotInTurn!threads,
      CamIot!threads, CamIotInTurn!Alive, CamIot!Alive, CamIotInTurn!OnCreate,
      CamIot!OnCreate, CamIotInTurn!OnStop, CamIot!OnStop,
      CamIotInTurn!Restart, CamIot!Restart, CamIotInTurn!TestConnected,
      CamIot!TestConnected, CamIotInTurn!SubscribeIp, CamIot!SubscribeIp,
      CamIotInTurn!SubscribeSnap, CamIot!SubscribeSnap,
      CamIotInTurn!OnStartCommand, CamIot!OnStartCommand,
      CamIotInTurn!Unsubscribe, CamIot!Unsubscribe,
      CamIotInTurn!ForgetActivity, CamIot!ForgetActivity,
      CamIotInTurn!Connected, CamIot!Connected, CamIotInTurn!SubscribeNotif,
      CamIot!SubscribeNotif, CamIotInTurn!TestActivity, CamIot!TestActivity,
      CamIotInTurn!CallActivity, CamIot!CallActivity,
      CamIotInTurn!CallbackSubscribesIp, CamIot!CallbackSubscribesIp,
      CamIotInTurn!CallbackSubscribesSnap, CamIot!CallbackSubscribesSnap,
      CamIotInTurn!ConnectionLost, CamIot!ConnectionLost, CamIotInTurn!Topics,
      CamIot!Topics

(* The manager's thread is still to read the field.                        *)
WillCall == mqtt \in {"notification", "test", "call"}

(* The manager's thread subscribes an instance that has not been           *)
(* destroyed; and whatever topic the instance in the field lacks, one of   *)
(* the two threads is about to give it.                                    *)
SubscribedInv ==
  /\ mqtt # "idle" => connected
  /\ mqtt \in {"subscribe ip", "subscribe snap"}
       => \/ target \in Activities /\ CamIot!Alive(target)
          \/ Creating /\ target = current
  /\ connected /\ ui = "subscribe snap"
       => \/ WillCall
          \/ mqtt = "subscribe ip"
          \/ listener["ip"] = current
  /\ \A a \in Activities :
       connected /\ life[a] = "created" /\ ui \notin {"unsubscribe", "forget"}
         => \/ WillCall
            \/ mqtt = "subscribe ip"
            \/ mqtt = "subscribe snap" /\ listener["ip"] = a
            \/ mqtt = "idle" /\ listener["ip"] = a /\ listener["snap"] = a

(* Under a system that does not overtake the manager's thread.             *)
LEMMA SubscribedInvAlways ==
  ASSUME CamIot!CamIotAssumption
  PROVE  CamIotInTurn!Spec => []SubscribedInv
<1> USE CamIot!CamIotAssumption
    DEF CamIot!CamIotAssumption, SubscribedInv, WillCall, Creating,
        CamIot!Alive,
        CamIotInTurn!Alive
<1>1. CamIotInTurn!Init => SubscribedInv /\ CamIot!Init
  BY DEF CamIotInTurn!Init, CamIot!Init, CamIot!Topics, CamIotInTurn!Topics
<1>2. [CamIotInTurn!Next]_(CamIotInTurn!vars) => [CamIot!Next]_(CamIot!vars)
  BY InTurnIsCamIot
  DEF CamIotInTurn!vars, CamIot!vars, CamIotInTurn!threads, CamIot!threads
<1>3. /\ CamIot!TypeOK /\ ActivityInv /\ SubscribedInv
      /\ [CamIotInTurn!Next]_(CamIotInTurn!vars)
      => SubscribedInv'
  <2> SUFFICES ASSUME CamIot!TypeOK, ActivityInv, SubscribedInv,
                      [CamIotInTurn!Next]_(CamIotInTurn!vars)
               PROVE  SubscribedInv'
    OBVIOUS
  <2> USE DEF CamIot!TypeOK, CamIot!Topics, CamIotInTurn!Topics, ActivityInv
  <2>1. ASSUME NEW a \in Activities, CamIotInTurn!OnCreate(a)
        PROVE  SubscribedInv'
    BY <2>1 DEF CamIotInTurn!OnCreate
  <2>2. ASSUME NEW a \in Activities, CamIotInTurn!OnStop(a) PROVE SubscribedInv'
    BY <2>2 DEF CamIotInTurn!OnStop
  <2>3. ASSUME NEW a \in Activities, CamIotInTurn!Restart(a)
        PROVE  SubscribedInv'
    BY <2>3, ZenonT(60) DEF CamIotInTurn!Restart, CamIotInTurn!threads
  <2>4. ASSUME CamIotInTurn!TestConnected PROVE SubscribedInv'
    BY <2>4 DEF CamIotInTurn!TestConnected
  <2>5. ASSUME CamIotInTurn!SubscribeIp PROVE SubscribedInv'
    BY <2>5 DEF CamIotInTurn!SubscribeIp
  <2>6. ASSUME CamIotInTurn!SubscribeSnap PROVE SubscribedInv'
    BY <2>6 DEF CamIotInTurn!SubscribeSnap
  <2>7. ASSUME CamIotInTurn!OnStartCommand PROVE SubscribedInv'
    BY <2>7 DEF CamIotInTurn!OnStartCommand, CamIotInTurn!threads
  <2>8. ASSUME CamIotInTurn!Unsubscribe PROVE SubscribedInv'
    BY <2>8 DEF CamIotInTurn!Unsubscribe
  <2>9. ASSUME CamIotInTurn!ForgetActivity PROVE SubscribedInv'
    BY <2>9, ZenonT(60) DEF CamIotInTurn!ForgetActivity
  <2>10. ASSUME CamIotInTurn!Connected PROVE SubscribedInv'
    BY <2>10 DEF CamIotInTurn!Connected
  <2>11. ASSUME CamIotInTurn!SubscribeNotif PROVE SubscribedInv'
    BY <2>11 DEF CamIotInTurn!SubscribeNotif
  <2>12. ASSUME CamIotInTurn!TestActivity PROVE SubscribedInv'
    BY <2>12 DEF CamIotInTurn!TestActivity
  <2>13. ASSUME CamIotInTurn!CallActivity PROVE SubscribedInv'
    BY <2>13 DEF CamIotInTurn!CallActivity
  <2>14. ASSUME CamIotInTurn!CallbackSubscribesIp PROVE SubscribedInv'
    BY <2>14 DEF CamIotInTurn!CallbackSubscribesIp
  <2>15. ASSUME CamIotInTurn!CallbackSubscribesSnap PROVE SubscribedInv'
    BY <2>15 DEF CamIotInTurn!CallbackSubscribesSnap
  <2>16. ASSUME CamIotInTurn!ConnectionLost PROVE SubscribedInv'
    BY <2>16 DEF CamIotInTurn!ConnectionLost, CamIotInTurn!threads
  <2>17. CASE UNCHANGED CamIotInTurn!vars
    BY <2>17 DEF CamIotInTurn!vars, CamIotInTurn!threads
  <2> QED
    BY <2>1, <2>2, <2>3, <2>4, <2>5, <2>6, <2>7, <2>8, <2>9, <2>10, <2>11,
       <2>12, <2>13, <2>14, <2>15, <2>16, <2>17
    DEF CamIotInTurn!Next, CamIotInTurn!UIStep, CamIotInTurn!MqttStep
<1> QED
  BY <1>1, <1>2, <1>3, SubscriptionsTypeCorrect, ActivityInvAlways, PTL
  DEF CamIotInTurn!Spec, CamIot!Spec

(* Whatever the system destroys and when: the intruder is reported, no     *)
(* destroyed instance is called, and the process dies of onStop only       *)
(* (CamIOT.java:88-91; MainActivity.java:256-261).                         *)
THEOREM CallbacksFindTheActivityAlways == Spec => []CallbacksFindTheActivity
<1>1. Init => CamIot!Init
  BY DEF Init
<1>2. [Next]_vars => [CamIot!Next]_(CamIot!vars)
  BY InTurnIsCamIot
  DEF Next, vars, subscriptions, CamIot!vars, CamIot!threads
<1>3. CamIot!CamIotAssumption
  BY MainActivityAssumption DEF MainActivityAssumption
<1>4. CamIot!Spec => []CamIot!TypeOK /\ []ActivityInv
  BY <1>3, SubscriptionsTypeCorrect, ActivityInvAlways, PTL
<1>5. CamIot!TypeOK /\ ActivityInv => CallbacksFindTheActivity
  BY DEF CallbacksFindTheActivity, CamIot!CallbacksFindTheActivity,
      ActivityInv, Creating, CamIot!NeverSubscribesTheDead
<1> QED
  BY <1>1, <1>2, <1>4, <1>5, PTL DEF Spec, CamIot!Spec

(* If the system does not destroy an activity while the manager's thread   *)
(* subscribes it, an activity that has not been stopped gets its topics    *)
(* (MainActivity.java:61, 80-81; CamIOT.java:88-91).                       *)
THEOREM CreatedIsSubscribedAlways == Spec => []CreatedIsSubscribed
<1> DEFINE Here == part = "subscriptions in turn"
<1>1. Init => CamIotInTurn!Init
  BY DEF Init, CamIot!Init, CamIotInTurn!Init, CamIot!Topics,
      CamIotInTurn!Topics
<1>2. Here /\ [Next]_vars => [CamIotInTurn!Next]_(CamIotInTurn!vars)
  BY DEF Next, vars, subscriptions, CamIotInTurn!vars, CamIotInTurn!threads
<1>3. CamIot!CamIotAssumption
  BY MainActivityAssumption DEF MainActivityAssumption
<1>4. CamIotInTurn!Spec => []SubscribedInv
  BY <1>3, SubscribedInvAlways
<1>5. SubscribedInv => CreatedIsSubscribed
  BY DEF SubscribedInv, WillCall, CreatedIsSubscribed,
      CamIotInTurn!CreatedIsSubscribed, CamIotInTurn!Quiet
<1>6. [Next]_vars => (Here <=> Here')
  BY DEF Next, vars
<1>7. ~Here => CreatedIsSubscribed
  BY DEF CreatedIsSubscribed
<1> HIDE DEF Here
<1> QED
  BY <1>1, <1>2, <1>4, <1>5, <1>6, <1>7, PTL DEF Spec, CamIotInTurn!Spec
-----------------------------------------------------------------------------
(* The snapshots, announced one at a time: type correctness                *)
(* (MainActivity.java).                                                    *)
LEMMA SnapshotTypeCorrect ==
  ASSUME Snapshot!SnapshotsAssumption
  PROVE  Snapshot!Spec => []Snapshot!TypeOK
<1> USE Snapshot!SnapshotsAssumption
    DEF Snapshot!SnapshotsAssumption, Snapshot!TypeOK, Snapshot!Downloads,
        Snapshot!Content
<1>1. Snapshot!Init => Snapshot!TypeOK
  BY DEF Snapshot!Init, Snapshot!Nothing
<1>2. Snapshot!TypeOK /\ [Snapshot!Next]_(Snapshot!vars) => Snapshot!TypeOK'
  <2> SUFFICES ASSUME Snapshot!TypeOK, [Snapshot!Next]_(Snapshot!vars)
               PROVE Snapshot!TypeOK'
    OBVIOUS
  <2>1. ASSUME NEW n \in Names, Snapshot!BeginDownload(n) PROVE Snapshot!TypeOK'
    BY <2>1 DEF Snapshot!BeginDownload
  <2>2. ASSUME NEW d \in Snapshot!Downloads, Snapshot!OpenFile(d)
        PROVE Snapshot!TypeOK'
    <3>1. [of |-> d, whole |-> FALSE] \in Snapshot!Content
      OBVIOUS
    <3> QED
      BY <2>2, <3>1 DEF Snapshot!OpenFile
  <2>3. ASSUME NEW d \in Snapshot!Downloads, Snapshot!FillFile(d)
        PROVE Snapshot!TypeOK'
    <3>1. [of |-> d, whole |-> TRUE] \in Snapshot!Content
      OBVIOUS
    <3> QED
      BY <2>3, <3>1 DEF Snapshot!FillFile
  <2>4. ASSUME NEW d \in Snapshot!Downloads, Snapshot!FailDownload(d)
        PROVE Snapshot!TypeOK'
    BY <2>4 DEF Snapshot!FailDownload
  <2>5. ASSUME NEW d \in Snapshot!Downloads, Snapshot!OnCompleted(d)
        PROVE Snapshot!TypeOK'
    BY <2>5 DEF Snapshot!OnCompleted, Snapshot!ShowFile
  <2>6. CASE UNCHANGED Snapshot!vars
    BY <2>6 DEF Snapshot!vars
  <2> QED
    BY <2>1, <2>2, <2>3, <2>4, <2>5, <2>6
    DEF Snapshot!Next
<1> QED
  BY <1>1, <1>2, PTL DEF Snapshot!Spec

(* Only the last download is under way, and until it has ended the field   *)
(* names its file; what it has written nobody has touched.                 *)
SnapshotInv ==
  /\ \A d \in Snapshot!Downloads :
       /\ state[d] # "none" <=> d <= begun
       /\ state[d] # "none" => name[d] \in Names
       /\ Snapshot!UnderWay(d) => d = begun /\ snapShotPath = name[d]
       /\ state[d] = "written" => file[name[d]] = [of |-> d, whole |-> TRUE]
  /\ Snapshot!ShownIsWhole
  /\ Snapshot!LastIsShown

(* SnapshotInv is inductive with TypeOK, for any names and any number of   *)
(* downloads.                                                              *)
LEMMA SnapshotInvAlways ==
  ASSUME Snapshot!SnapshotsAssumption
  PROVE  Snapshot!Spec => []SnapshotInv
<1> USE Snapshot!SnapshotsAssumption
    DEF Snapshot!SnapshotsAssumption, SnapshotInv, Snapshot!Downloads,
        Snapshot!UnderWay, Snapshot!ShownIsWhole,
        Snapshot!LastIsShown
<1>1. Snapshot!Init => SnapshotInv
  BY DEF Snapshot!Init, Snapshot!Nothing
<1>2. Snapshot!TypeOK /\ SnapshotInv /\ [Snapshot!Next]_(Snapshot!vars)
      => SnapshotInv'
  <2> SUFFICES ASSUME Snapshot!TypeOK, SnapshotInv,
                      [Snapshot!Next]_(Snapshot!vars)
               PROVE SnapshotInv'
    OBVIOUS
  <2> USE DEF Snapshot!TypeOK, Snapshot!Content
  <2>1. ASSUME NEW n \in Names, Snapshot!BeginDownload(n) PROVE SnapshotInv'
    BY <2>1 DEF Snapshot!BeginDownload
  <2>2. ASSUME NEW d \in Snapshot!Downloads, Snapshot!OpenFile(d)
        PROVE SnapshotInv'
    <3>1. /\ d = begun
          /\ state' = [state EXCEPT ![d] = "writing"]
          /\ UNCHANGED <<snapShotPath, begun, name, shown>>
      BY <2>2 DEF Snapshot!OpenFile
    <3>2. \A e \in Snapshot!Downloads : state'[e] # "written"
      BY <2>2, <3>1
    <3> QED
      BY <2>2, <3>1, <3>2 DEF Snapshot!OpenFile
  <2>3. ASSUME NEW d \in Snapshot!Downloads, Snapshot!FillFile(d)
        PROVE SnapshotInv'
    <3>1. /\ d = begun
          /\ state' = [state EXCEPT ![d] = "written"]
          /\ UNCHANGED <<snapShotPath, begun, name, shown>>
      BY <2>3 DEF Snapshot!FillFile
    <3>2. /\ \A e \in Snapshot!Downloads : state'[e] = "written" => e = d
          /\ file'[name[d]] = [of |-> d, whole |-> TRUE]
      BY <2>3, <3>1 DEF Snapshot!FillFile
    <3>3. Snapshot!ShownIsWhole' /\ Snapshot!LastIsShown'
      <4>1. \A e \in Snapshot!Downloads :
             state'[e] = "completed" <=> state[e] = "completed"
        BY <2>3, <3>1 DEF Snapshot!FillFile
      <4>2. \A e \in Snapshot!Downloads :
             e+1..MaxDownloads \subseteq Snapshot!Downloads
        OBVIOUS
      <4> QED
        BY <3>1, <4>1, <4>2, SMTT(30)
    <3>4. \A e \in Snapshot!Downloads :
           Snapshot!UnderWay(e)' => e = d /\ Snapshot!UnderWay(e)
      BY <2>3, <3>1 DEF Snapshot!FillFile
    <3> QED
      BY <2>3, <3>1, <3>2, <3>3, <3>4, ZenonT(60)
  <2>4. ASSUME NEW d \in Snapshot!Downloads, Snapshot!FailDownload(d)
        PROVE SnapshotInv'
    BY <2>4 DEF Snapshot!FailDownload
  <2>5. ASSUME NEW d \in Snapshot!Downloads, Snapshot!OnCompleted(d)
        PROVE SnapshotInv'
    <3>1. /\ d = begun
          /\ state' = [state EXCEPT ![d] = "completed"]
          /\ UNCHANGED <<begun, name, file>>
      BY <2>5 DEF Snapshot!OnCompleted
    <3>2. file[snapShotPath] = [of |-> d,
        whole |-> TRUE] /\ snapShotPath # NoName
      BY <2>5 DEF Snapshot!OnCompleted
    <3>3. shown' = [of |-> d, whole |-> TRUE]
      BY <2>5, <3>2 DEF Snapshot!OnCompleted, Snapshot!ShowFile
    <3>4. \A e \in Snapshot!Downloads :
           ~Snapshot!UnderWay(e)' /\ state'[e] # "written"
      BY <3>1
    <3>5. Snapshot!LastIsShown'
      BY <3>1, <3>3
    <3> QED
      BY <3>1, <3>3, <3>4, <3>5
  <2>6. CASE UNCHANGED Snapshot!vars
    BY <2>6 DEF Snapshot!vars
  <2> QED
    BY <2>1, <2>2, <2>3, <2>4, <2>5, <2>6
    DEF Snapshot!Next
<1> QED
  BY <1>1, <1>2, SnapshotTypeCorrect, PTL DEF Snapshot!Spec

(* What is shown is a whole picture, and the last that came, whatever      *)
(* failed before it and whatever names were used again                     *)
(* (MainActivity.java:193, 279-289).                                       *)
THEOREM ShowsTheLastSnapshotAlways == Spec => []ShowsTheLastSnapshot
<1>1. Init => Snapshot!Init
  BY DEF Init
<1>2. [Next]_vars => [Snapshot!Next]_(Snapshot!vars)
  BY DEF Next, vars, snapshots, Snapshot!vars
<1>3. Snapshot!SnapshotsAssumption
  BY MainActivityAssumption DEF MainActivityAssumption
<1>4. Snapshot!Spec => []Snapshot!TypeOK /\ []SnapshotInv
  BY <1>3, SnapshotTypeCorrect, SnapshotInvAlways, PTL
<1>5. Snapshot!TypeOK /\ SnapshotInv => ShowsTheLastSnapshot
  BY DEF ShowsTheLastSnapshot, Snapshot!ShowsTheLastSnapshot, SnapshotInv
<1> QED
  BY <1>1, <1>2, <1>4, <1>5, PTL DEF Spec, Snapshot!Spec
=============================================================================
