----------------------- MODULE MjpegViewNativeProofs -----------------------
(***************************************************************************)
(* What MjpegViewNative keeps for any number of threads and streams.       *)
(*                                                                         *)
(* Under any host TypeOK and ServedInv are inductive, one after the other, *)
(* and AnyHostIsServed follows. AskedInv is inductive relative to them     *)
(* under a host that asks isStreaming() first, and what that host is owed  *)
(* follows, with the refinement of Playback if the frames are sound.       *)
(***************************************************************************)
EXTENDS MjpegViewNative, TLAPS

(* Type correctness, for every set of threads and of streams (22-48).      *)
THEOREM TypeCorrect == Spec => []TypeOK
<1> USE NativeViewAssumption DEF TypeOK, Hosts, UISteps, PlayerSteps, Crashes
<1>1. Init => TypeOK
  <2> SUFFICES ASSUME Init PROVE TypeOK
    OBVIOUS
  <2>1. /\ pc \in [Threads -> PlayerSteps]
        /\ canvas \in [Threads -> BOOLEAN]
        /\ src \in [Threads -> Streams \cup {NoStream}]
        /\ conn \in [Streams -> {"fresh", "open", "ended", "closed"}]
    BY DEF Init
  <2>2. screen \in Picture!Content
    BY DEF Init, Picture!Content
  <2> QED
    BY <2>1, <2>2 DEF Init
<1>2. TypeOK /\ [Next]_called => TypeOK'
  <2> SUFFICES ASSUME TypeOK, [Next]_called PROVE TypeOK'
    OBVIOUS
  <2>0. host' = host
    BY DEF Next, called
  <2> USE <2>0
  <2>1. ASSUME NEW s \in Streams, SetSource(s) PROVE TypeOK'
    BY <2>1 DEF SetSource, player, surface, flags, FreshStream
  <2>2. ASSUME NEW t \in Threads, StartPlayback(t) PROVE TypeOK'
    BY <2>2 DEF StartPlayback, Starts, surface, FreshThread
  <2>3. ASSUME NEW t \in Threads, ResumePlayback(t) PROVE TypeOK'
    BY <2>3 DEF ResumePlayback, Starts, surface, FreshThread
  <2>4. ASSUME StopPlayback PROVE TypeOK'
    BY <2>4 DEF StopPlayback, player, surface
  <2>5. ASSUME JoinThread PROVE TypeOK'
    BY <2>5 DEF JoinThread, player, surface, flags
  <2>6. ASSUME ClearSource PROVE TypeOK'
    BY <2>6 DEF ClearSource, player, surface, flags
  <2>7. ASSUME SurfaceCreated PROVE TypeOK'
    BY <2>7 DEF SurfaceCreated, player
  <2>8. ASSUME HideSurface PROVE TypeOK'
    BY <2>8 DEF HideSurface, player, surface, flags
  <2>9. ASSUME StopDrawing PROVE TypeOK'
    <3>1. /\ ui' \in UISteps /\ drawable' \in BOOLEAN
          /\ pc' = pc /\ canvas' = canvas /\ src' = src /\ bmp' = bmp
          /\ mRun' = mRun /\ surfaceDone' = surfaceDone /\ suspending' = suspending
          /\ mIn' = mIn /\ thread' = thread /\ surfaceLock' = surfaceLock
          /\ monitor' = monitor /\ screen' = screen /\ conn' = conn /\ crash' = crash
      BY <2>9 DEF StopDrawing, player, flags
    <3> QED
      BY <3>1
  <2>10. ASSUME SurfaceDestroyed PROVE TypeOK'
    BY <2>10 DEF SurfaceDestroyed, player, surface
  <2>11. ASSUME SurfaceChanged PROVE TypeOK'
    BY <2>11 DEF SurfaceChanged, player, surface, flags
  <2>12. ASSUME SetSurfaceSize PROVE TypeOK'
    BY <2>12 DEF SetSurfaceSize, player, surface, flags
  <2>13. ASSUME NEW t \in Threads, TestRun(t) PROVE TypeOK'
    BY <2>13 DEF TestRun, Goto, view, flags, surface
  <2>14. ASSUME NEW t \in Threads, TestSurface(t) PROVE TypeOK'
    BY <2>14 DEF TestSurface, Goto, view, flags, surface
  <2>15. ASSUME NEW t \in Threads, LoadSource(t) PROVE TypeOK'
    BY <2>15 DEF LoadSource, Goto, view, flags, surface
  <2>16. ASSUME NEW t \in Threads, ReadFrame(t) PROVE TypeOK'
    BY <2>16 DEF ReadFrame, Goto, view, flags, surface
  <2>17. ASSUME NEW t \in Threads, GiveUp(t) PROVE TypeOK'
    BY <2>17 DEF GiveUp, Goto, view, flags, surface
  <2>18. ASSUME NEW t \in Threads, ReadFails(t) PROVE TypeOK'
    BY <2>18 DEF ReadFails, Goto, view, flags, surface
  <2>19. ASSUME NEW t \in Threads, LockCanvas(t) PROVE TypeOK'
    BY <2>19 DEF LockCanvas, Goto, view, flags
  <2>20. ASSUME NEW t \in Threads, EnterMonitor(t) PROVE TypeOK'
    BY <2>20 DEF EnterMonitor, Goto, view, flags
  <2>21. ASSUME NEW t \in Threads, Draw(t) PROVE TypeOK'
    BY <2>21 DEF Draw, Goto, view, flags
  <2>22. ASSUME NEW t \in Threads, UnlockAndPost(t) PROVE TypeOK'
    <3>1. screen' \in Picture!Content
      BY <2>22 DEF UnlockAndPost, Picture!Posted, Picture!Content
    <3> QED
      BY <2>22, <3>1 DEF UnlockAndPost, Goto, view, flags
  <2>23. ASSUME NEW t \in Threads, Uncaught(t) PROVE TypeOK'
    BY <2>23 DEF Uncaught, view, flags, player, surface
  <2>24. ASSUME NEW s \in Streams, EndStream(s) PROVE TypeOK'
    BY <2>24 DEF EndStream, view, flags, player, surface
  <2>25. ASSUME NEW t \in Threads, BadHeader(t) PROVE TypeOK'
    BY <2>25 DEF BadHeader, view, flags, player, surface
  <2>26. CASE UNCHANGED called
    BY <2>26 DEF called, vars, view, flags, player, surface
  <2> QED
    BY <2>1, <2>2, <2>3, <2>4, <2>5, <2>6, <2>7, <2>8, <2>9, <2>10, <2>11,
       <2>12, <2>13, <2>14, <2>15, <2>16, <2>17, <2>18, <2>19, <2>20, <2>21,
       <2>22, <2>23, <2>24, <2>25, <2>26
    DEF Next, HostCall, UIStep, CameraAnswer, PlayerStep
<1> QED
  BY <1>1, <1>2, PTL DEF Spec
-----------------------------------------------------------------------------
(* The strengthening of AnyHostIsServed. Who is past which step of run()   *)
(* has what: a stream, a canvas with SurfaceView's lock, the monitor.      *)
Holding ==
  /\ \A t \in Threads :
       /\ src[t] # NoStream
            <=> pc[t] \in {"reading", "lock", "enter", "draw", "post"}
       /\ canvas[t] <=> surfaceLock = t
       /\ canvas[t] => pc[t] \in {"enter", "draw", "post"}
       /\ pc[t] = "post" => canvas[t]
       /\ monitor = t <=> pc[t] = "draw"
  /\ surfaceLock # NoThread => drawable

(* A stop forgets the thread before the next start makes another one, and  *)
(* drops the source when that thread has ended.                            *)
OnePlayer ==
  /\ \A t \in Threads :
       Live(t) => t = thread /\ mIn # NoStream /\ ui # "clearing"
  /\ ui = "starting" => mIn # NoStream
  /\ suspending => ui = "joining" \/ thread = NoThread

(* A thread that has seen surfaceDone may find the surface gone until the  *)
(* join of surfaceDestroyed, which waits for it.                           *)
SurfaceLost ==
  /\ surfaceDone => drawable \/ ui = "destroying"
  /\ ui = "destroying" => ~drawable
  /\ \A t \in Threads :
       /\ pc[t] \in {"load", "reading", "lock", "enter", "draw", "post"}
            => drawable \/ ui \in {"destroying", "joining"}
       /\ pc[t] \in {"enter", "draw"} /\ ~canvas[t] => ~drawable

ServedInv ==
  /\ Holding
  /\ OnePlayer
  /\ SurfaceLost
  /\ SourceWhilePlaying
  /\ NullCanvasOnlyOnDestroy

(* Under any host.                                                         *)
LEMMA ServedInvAlways == Spec => []ServedInv
<1> USE NativeViewAssumption DEF ServedInv, Holding, OnePlayer, SurfaceLost,
        SourceWhilePlaying, NullCanvasOnlyOnDestroy, Live
<1>1. Init => ServedInv
  BY DEF Init
<1>2. TypeOK /\ ServedInv /\ [Next]_called => ServedInv'
  <2> SUFFICES ASSUME TypeOK, ServedInv, [Next]_called PROVE ServedInv'
    OBVIOUS
  <2> USE DEF TypeOK, PlayerSteps, UISteps
  <2>0. host' = host
    BY DEF Next, called
  <2> USE <2>0
  <2>1. ASSUME NEW s \in Streams, SetSource(s) PROVE ServedInv'
    BY <2>1 DEF SetSource, player, surface, flags, FreshStream
  <2>2. ASSUME NEW t \in Threads, StartPlayback(t) PROVE ServedInv'
    BY <2>2 DEF StartPlayback, Starts, surface, FreshThread
  <2>3. ASSUME NEW t \in Threads, ResumePlayback(t) PROVE ServedInv'
    BY <2>3 DEF ResumePlayback, Starts, surface, FreshThread
  <2>4. ASSUME StopPlayback PROVE ServedInv'
    BY <2>4 DEF StopPlayback, player, surface
  <2>5. ASSUME JoinThread, crash = "none" PROVE ServedInv'
    <3>1. \A t \in Threads : ~Live(t)
      BY <2>5 DEF JoinThread
    <3>2. /\ Holding'
          /\ SurfaceLost'
      BY <2>5, <3>1 DEF JoinThread, player, surface, flags
    <3>3. OnePlayer'
      BY <2>5, <3>1 DEF JoinThread, player, flags
    <3> QED
      BY <2>5, <3>2, <3>3 DEF JoinThread, player, surface
  <2>6. ASSUME ClearSource PROVE ServedInv'
    BY <2>6 DEF ClearSource, player, surface, flags
  <2>7. ASSUME SurfaceCreated PROVE ServedInv'
    BY <2>7 DEF SurfaceCreated, player
  <2>8. ASSUME HideSurface PROVE ServedInv'
    BY <2>8 DEF HideSurface, player, surface, flags
  <2>9. ASSUME StopDrawing PROVE ServedInv'
    BY <2>9 DEF StopDrawing, player, flags
  <2>10. ASSUME SurfaceDestroyed PROVE ServedInv'
    BY <2>10 DEF SurfaceDestroyed, player, surface
  <2>11. ASSUME SurfaceChanged PROVE ServedInv'
    BY <2>11 DEF SurfaceChanged, player, surface, flags
  <2>12. ASSUME SetSurfaceSize PROVE ServedInv'
    BY <2>12 DEF SetSurfaceSize, player, surface, flags
  <2>13. ASSUME NEW t \in Threads, TestRun(t) PROVE ServedInv'
    BY <2>13 DEF TestRun, Goto, view, flags, surface
  <2>14. ASSUME NEW t \in Threads, TestSurface(t) PROVE ServedInv'
    BY <2>14 DEF TestSurface, Goto, view, flags, surface
  <2>15. ASSUME NEW t \in Threads, LoadSource(t) PROVE ServedInv'
    BY <2>15 DEF LoadSource, Goto, view, flags, surface
  <2>16. ASSUME NEW t \in Threads, ReadFrame(t) PROVE ServedInv'
    BY <2>16 DEF ReadFrame, Goto, view, flags, surface
  <2>17. ASSUME NEW t \in Threads, GiveUp(t) PROVE ServedInv'
    BY <2>17 DEF GiveUp, Goto, view, flags, surface
  <2>18. ASSUME NEW t \in Threads, ReadFails(t) PROVE ServedInv'
    BY <2>18 DEF ReadFails, Goto, view, flags, surface
  <2>19. ASSUME NEW t \in Threads, LockCanvas(t) PROVE ServedInv'
    BY <2>19 DEF LockCanvas, Goto, view, flags
  <2>20. ASSUME NEW t \in Threads, EnterMonitor(t) PROVE ServedInv'
    BY <2>20 DEF EnterMonitor, Goto, view, flags
  <2>21. ASSUME NEW t \in Threads, Draw(t) PROVE ServedInv'
    BY <2>21 DEF Draw, Goto, view, flags
  <2>22. ASSUME NEW t \in Threads, UnlockAndPost(t) PROVE ServedInv'
    BY <2>22 DEF UnlockAndPost, Goto, view, flags, Picture!Posted
  <2>23. ASSUME NEW t \in Threads, Uncaught(t) PROVE ServedInv'
    BY <2>23 DEF Uncaught, view, flags, player, surface
  <2>24. ASSUME NEW s \in Streams, EndStream(s) PROVE ServedInv'
    BY <2>24 DEF EndStream, view, flags, player, surface
  <2>25. ASSUME NEW t \in Threads, BadHeader(t) PROVE ServedInv'
    BY <2>25 DEF BadHeader, view, flags, player, surface
  <2>26. CASE UNCHANGED called
    BY <2>26 DEF called, vars, view, flags, player, surface
  <2> QED
    BY <2>1, <2>2, <2>3, <2>4, <2>5, <2>6, <2>7, <2>8, <2>9, <2>10, <2>11,
       <2>12, <2>13, <2>14, <2>15, <2>16, <2>17, <2>18, <2>19, <2>20, <2>21,
       <2>22, <2>23, <2>24, <2>25, <2>26
    DEF Next, HostCall, UIStep, CameraAnswer, PlayerStep
<1> QED
  BY <1>1, <1>2, TypeCorrect, PTL DEF Spec

(* Whatever the host does, with any camera: one thread at most, the source *)
(* while it plays, a null canvas only on destruction (139, 203-244).       *)
THEOREM AnyHostIsServedAlways == Spec => []AnyHostIsServed
<1>1. TypeOK /\ ServedInv => AnyHostIsServed
  BY DEF AnyHostIsServed, ServedInv, OnePlayer, NoOrphan
<1> QED
  BY <1>1, TypeCorrect, ServedInvAlways, PTL
-----------------------------------------------------------------------------
(* The strengthening for a host that asks isStreaming() first. It sets a   *)
(* source only when there is none, and no thread runs past the join of a   *)
(* stop: a thread that has run is one that a stop has forgotten.           *)
AskedInv == host # "any" =>
  /\ ui = "starting" => ~mRun
  /\ mIn # NoStream => mRun \/ ui \in {"starting", "joining", "clearing"}
  /\ thread # NoThread /\ ~suspending /\ ~mRun => pc[thread] = "new"
  /\ StartsOnce
  /\ \A t \in Threads : Live(t) => mRun \/ ui = "joining"
  /\ \A t \in Threads : src[t] # NoStream => src[t] = mIn
  /\ mIn # NoStream /\ ui # "clearing" => Unclosed(mIn)
  /\ \A s \in Streams : Unclosed(s) => s = mIn /\ ui # "clearing"

(* Under a host that asks first.                                           *)
LEMMA AskedInvAlways == Spec => []AskedInv
<1> USE NativeViewAssumption
    DEF AskedInv, StartsOnce, Unclosed, Live
<1>1. Init => AskedInv
  BY DEF Init
<1>2. TypeOK /\ ServedInv /\ AskedInv /\ [Next]_called => AskedInv'
  <2> SUFFICES ASSUME TypeOK, ServedInv, AskedInv, [Next]_called
               PROVE  AskedInv'
    OBVIOUS
  <2> USE DEF TypeOK, PlayerSteps, UISteps, ServedInv, Holding, OnePlayer
  <2>0. host' = host
    BY DEF Next, called
  <2> USE <2>0
  <2>1. ASSUME NEW s \in Streams, SetSource(s) PROVE AskedInv'
    BY <2>1 DEF SetSource, player, surface, flags, FreshStream
  <2>2. ASSUME NEW t \in Threads, StartPlayback(t) PROVE AskedInv'
    BY <2>2 DEF StartPlayback, Starts, surface, FreshThread
  <2>3. ASSUME NEW t \in Threads, ResumePlayback(t) PROVE AskedInv'
    BY <2>3 DEF ResumePlayback, Starts, surface, FreshThread
  <2>4. ASSUME StopPlayback PROVE AskedInv'
    BY <2>4 DEF StopPlayback, player, surface
  <2>5. ASSUME JoinThread PROVE AskedInv'
    BY <2>5 DEF JoinThread, player, surface, flags
  <2>6. ASSUME ClearSource PROVE AskedInv'
    BY <2>6 DEF ClearSource, player, surface, flags
  <2>7. ASSUME SurfaceCreated PROVE AskedInv'
    BY <2>7 DEF SurfaceCreated, player
  <2>8. ASSUME HideSurface PROVE AskedInv'
    BY <2>8 DEF HideSurface, player, surface, flags
  <2>9. ASSUME StopDrawing PROVE AskedInv'
    BY <2>9 DEF StopDrawing, player, flags
  <2>10. ASSUME SurfaceDestroyed PROVE AskedInv'
    BY <2>10 DEF SurfaceDestroyed, player, surface
  <2>11. ASSUME SurfaceChanged PROVE AskedInv'
    BY <2>11 DEF SurfaceChanged, player, surface, flags
  <2>12. ASSUME SetSurfaceSize PROVE AskedInv'
    BY <2>12 DEF SetSurfaceSize, player, surface, flags
  <2>13. ASSUME NEW t \in Threads, TestRun(t) PROVE AskedInv'
    BY <2>13 DEF TestRun, Goto, view, flags, surface
  <2>14. ASSUME NEW t \in Threads, TestSurface(t) PROVE AskedInv'
    BY <2>14 DEF TestSurface, Goto, view, flags, surface
  <2>15. ASSUME NEW t \in Threads, LoadSource(t) PROVE AskedInv'
    BY <2>15 DEF LoadSource, Goto, view, flags, surface
  <2>16. ASSUME NEW t \in Threads, ReadFrame(t) PROVE AskedInv'
    BY <2>16 DEF ReadFrame, Goto, view, flags, surface
  <2>17. ASSUME NEW t \in Threads, GiveUp(t) PROVE AskedInv'
    BY <2>17 DEF GiveUp, Goto, view, flags, surface
  <2>18. ASSUME NEW t \in Threads, ReadFails(t) PROVE AskedInv'
    BY <2>18 DEF ReadFails, Goto, view, flags, surface
  <2>19. ASSUME NEW t \in Threads, LockCanvas(t) PROVE AskedInv'
    BY <2>19 DEF LockCanvas, Goto, view, flags
  <2>20. ASSUME NEW t \in Threads, EnterMonitor(t) PROVE AskedInv'
    BY <2>20 DEF EnterMonitor, Goto, view, flags
  <2>21. ASSUME NEW t \in Threads, Draw(t) PROVE AskedInv'
    BY <2>21 DEF Draw, Goto, view, flags
  <2>22. ASSUME NEW t \in Threads, UnlockAndPost(t) PROVE AskedInv'
    BY <2>22 DEF UnlockAndPost, Goto, view, flags, Picture!Posted
  <2>23. ASSUME NEW t \in Threads, Uncaught(t) PROVE AskedInv'
    BY <2>23 DEF Uncaught, view, flags, player, surface
  <2>24. ASSUME NEW s \in Streams, EndStream(s) PROVE AskedInv'
    BY <2>24 DEF EndStream, view, flags, player, surface
  <2>25. ASSUME NEW t \in Threads, BadHeader(t) PROVE AskedInv'
    BY <2>25 DEF BadHeader, view, flags, player, surface
  <2>26. CASE UNCHANGED called
    BY <2>26 DEF called, vars, view, flags, player, surface
  <2> QED
    BY <2>1, <2>2, <2>3, <2>4, <2>5, <2>6, <2>7, <2>8, <2>9, <2>10, <2>11,
       <2>12, <2>13, <2>14, <2>15, <2>16, <2>17, <2>18, <2>19, <2>20, <2>21,
       <2>22, <2>23, <2>24, <2>25, <2>26
    DEF Next, HostCall, UIStep, CameraAnswer, PlayerStep
<1> QED
  BY <1>1, <1>2, TypeCorrect, ServedInvAlways, PTL DEF Spec

(* Such a host starts no thread twice, lets no thread read a stream that   *)
(* is closed or replaced, and holds no connection when it has stopped      *)
(* (129, 131-134, 203-206, 241-244).                                       *)
THEOREM AskingHostIsServedAlways == Spec => []AskingHostIsServed
<1>1. ServedInv /\ AskedInv => AskingHostIsServed
  BY NativeViewAssumption
     DEF AskingHostIsServed, ServedInv, Holding, OnePlayer, Live, AskedInv, ReaderOwnsSource,
         StoppedIsClosed
<1> QED
  BY <1>1, ServedInvAlways, AskedInvAlways, PTL
-----------------------------------------------------------------------------
(* A frame that is about to be displayed is still in the bitmap: no other  *)
(* thread has read into it since.                                          *)
BitmapIsFresh == host = "sound" =>
  \A t \in Threads :
    pc[t] \in {"lock", "enter", "draw", "post"} => bmp = src[t]

(* Under such a host, with sound frames.                                   *)
LEMMA BitmapIsFreshAlways == Spec => []BitmapIsFresh
<1> USE NativeViewAssumption DEF BitmapIsFresh
<1>1. Init => BitmapIsFresh
  BY DEF Init
<1>2. TypeOK /\ ServedInv /\ BitmapIsFresh /\ [Next]_called => BitmapIsFresh'
  <2> SUFFICES ASSUME TypeOK, ServedInv, BitmapIsFresh, [Next]_called
               PROVE  BitmapIsFresh'
    OBVIOUS
  <2> USE DEF TypeOK, PlayerSteps, ServedInv, Holding, OnePlayer, Live
  <2>0. host' = host
    BY DEF Next, called
  <2> USE <2>0
  <2>1. ASSUME NEW s \in Streams, SetSource(s) PROVE BitmapIsFresh'
    BY <2>1 DEF SetSource, player, surface, flags, FreshStream
  <2>2. ASSUME NEW t \in Threads, StartPlayback(t) PROVE BitmapIsFresh'
    BY <2>2 DEF StartPlayback, Starts, surface, FreshThread
  <2>3. ASSUME NEW t \in Threads, ResumePlayback(t) PROVE BitmapIsFresh'
    BY <2>3 DEF ResumePlayback, Starts, surface, FreshThread
  <2>4. ASSUME StopPlayback PROVE BitmapIsFresh'
    BY <2>4 DEF StopPlayback, player, surface
  <2>5. ASSUME JoinThread PROVE BitmapIsFresh'
    BY <2>5 DEF JoinThread, player, surface, flags
  <2>6. ASSUME ClearSource PROVE BitmapIsFresh'
    BY <2>6 DEF ClearSource, player, surface, flags
  <2>7. ASSUME SurfaceCreated PROVE BitmapIsFresh'
    BY <2>7 DEF SurfaceCreated, player
  <2>8. ASSUME HideSurface PROVE BitmapIsFresh'
    BY <2>8 DEF HideSurface, player, surface, flags
  <2>9. ASSUME StopDrawing PROVE BitmapIsFresh'
    BY <2>9 DEF StopDrawing, player, flags
  <2>10. ASSUME SurfaceDestroyed PROVE BitmapIsFresh'
    BY <2>10 DEF SurfaceDestroyed, player, surface
  <2>11. ASSUME SurfaceChanged PROVE BitmapIsFresh'
    BY <2>11 DEF SurfaceChanged, player, surface, flags
  <2>12. ASSUME SetSurfaceSize PROVE BitmapIsFresh'
    BY <2>12 DEF SetSurfaceSize, player, surface, flags
  <2>13. ASSUME NEW t \in Threads, TestRun(t) PROVE BitmapIsFresh'
    BY <2>13 DEF TestRun, Goto, view, flags, surface
  <2>14. ASSUME NEW t \in Threads, TestSurface(t) PROVE BitmapIsFresh'
    BY <2>14 DEF TestSurface, Goto, view, flags, surface
  <2>15. ASSUME NEW t \in Threads, LoadSource(t) PROVE BitmapIsFresh'
    BY <2>15 DEF LoadSource, Goto, view, flags, surface
  <2>16. ASSUME NEW t \in Threads, ReadFrame(t) PROVE BitmapIsFresh'
    BY <2>16 DEF ReadFrame, Goto, view, flags, surface
  <2>17. ASSUME NEW t \in Threads, GiveUp(t) PROVE BitmapIsFresh'
    BY <2>17 DEF GiveUp, Goto, view, flags, surface
  <2>18. ASSUME NEW t \in Threads, ReadFails(t) PROVE BitmapIsFresh'
    BY <2>18 DEF ReadFails, Goto, view, flags, surface
  <2>19. ASSUME NEW t \in Threads, LockCanvas(t) PROVE BitmapIsFresh'
    BY <2>19 DEF LockCanvas, Goto, view, flags
  <2>20. ASSUME NEW t \in Threads, EnterMonitor(t) PROVE BitmapIsFresh'
    BY <2>20 DEF EnterMonitor, Goto, view, flags
  <2>21. ASSUME NEW t \in Threads, Draw(t) PROVE BitmapIsFresh'
    BY <2>21 DEF Draw, Goto, view, flags
  <2>22. ASSUME NEW t \in Threads, UnlockAndPost(t) PROVE BitmapIsFresh'
    BY <2>22 DEF UnlockAndPost, Goto, view, flags, Picture!Posted
  <2>23. ASSUME NEW t \in Threads, Uncaught(t) PROVE BitmapIsFresh'
    BY <2>23 DEF Uncaught, view, flags, player, surface
  <2>24. ASSUME NEW s \in Streams, EndStream(s) PROVE BitmapIsFresh'
    BY <2>24 DEF EndStream, view, flags, player, surface
  <2>25. ASSUME NEW t \in Threads, BadHeader(t) PROVE BitmapIsFresh'
    BY <2>25 DEF BadHeader, view, flags, player, surface
  <2>26. CASE UNCHANGED called
    BY <2>26 DEF called, vars, view, flags, player, surface
  <2> QED
    BY <2>1, <2>2, <2>3, <2>4, <2>5, <2>6, <2>7, <2>8, <2>9, <2>10, <2>11,
       <2>12, <2>13, <2>14, <2>15, <2>16, <2>17, <2>18, <2>19, <2>20, <2>21,
       <2>22, <2>23, <2>24, <2>25, <2>26
    DEF Next, HostCall, UIStep, CameraAnswer, PlayerStep
<1> QED
  BY <1>1, <1>2, TypeCorrect, ServedInvAlways, PTL DEF Spec

(* With sound frames such a host sees Playback: every step is one of its   *)
(* steps or leaves the source and the display alone (129-173, 239-244).    *)
THEOREM SoundPlaysAlways == Spec => SoundPlays
<1>1. Init => Picture!Init
  BY DEF Init, Picture!Init
<1>2. TypeOK /\ ServedInv /\ AskedInv /\ BitmapIsFresh /\ [Next]_called
        => [host = "sound" => Picture!Next]_<<mIn, screen>>
  <2> SUFFICES ASSUME TypeOK, ServedInv, AskedInv, BitmapIsFresh,
                      [Next]_called, host = "sound"
               PROVE  Picture!Next \/ UNCHANGED <<mIn, screen>>
    OBVIOUS
  <2> DEFINE Same == UNCHANGED <<mIn, screen>>
  <2>0. host' = host
    BY DEF Next, called
  <2> USE <2>0
  <2>1. ASSUME NEW s \in Streams, SetSource(s) PROVE Picture!Next \/ Same
    BY <2>1 DEF SetSource, FreshStream, surface, Picture!Next, Picture!Play
  <2>2. ASSUME NEW t \in Threads, StartPlayback(t) PROVE Picture!Next \/ Same
    BY <2>2 DEF StartPlayback, Starts, surface, FreshThread
  <2>3. ASSUME NEW t \in Threads, ResumePlayback(t) PROVE Picture!Next \/ Same
    BY <2>3 DEF ResumePlayback, Starts, surface, FreshThread
  <2>4. ASSUME StopPlayback PROVE Picture!Next \/ Same
    BY <2>4 DEF StopPlayback, player, surface
  <2>5. ASSUME JoinThread PROVE Picture!Next \/ Same
    BY <2>5 DEF JoinThread, player, surface, flags
  <2>6. ASSUME ClearSource PROVE Picture!Next \/ Same
    BY <2>6 DEF ClearSource, surface, Picture!Next, Picture!Stop
  <2>7. ASSUME SurfaceCreated PROVE Picture!Next \/ Same
    BY <2>7 DEF SurfaceCreated, player
  <2>8. ASSUME HideSurface PROVE Picture!Next \/ Same
    BY <2>8 DEF HideSurface, player, surface, flags
  <2>9. ASSUME StopDrawing PROVE Picture!Next \/ Same
    BY <2>9 DEF StopDrawing, player, flags
  <2>10. ASSUME SurfaceDestroyed PROVE Picture!Next \/ Same
    BY <2>10 DEF SurfaceDestroyed, player, surface
  <2>11. ASSUME SurfaceChanged PROVE Picture!Next \/ Same
    BY <2>11 DEF SurfaceChanged, player, surface, flags
  <2>12. ASSUME SetSurfaceSize PROVE Picture!Next \/ Same
    BY <2>12 DEF SetSurfaceSize, player, surface, flags
  <2>13. ASSUME NEW t \in Threads, TestRun(t) PROVE Picture!Next \/ Same
    BY <2>13 DEF TestRun, Goto, view, flags, surface
  <2>14. ASSUME NEW t \in Threads, TestSurface(t) PROVE Picture!Next \/ Same
    BY <2>14 DEF TestSurface, Goto, view, flags, surface
  <2>15. ASSUME NEW t \in Threads, LoadSource(t) PROVE Picture!Next \/ Same
    BY <2>15 DEF LoadSource, Goto, view, flags, surface
  <2>16. ASSUME NEW t \in Threads, ReadFrame(t) PROVE Picture!Next \/ Same
    BY <2>16 DEF ReadFrame, Goto, view, flags, surface
  <2>17. ASSUME NEW t \in Threads, GiveUp(t) PROVE Picture!Next \/ Same
    BY <2>17 DEF GiveUp, Goto, view, flags, surface
  <2>18. ASSUME NEW t \in Threads, ReadFails(t) PROVE Picture!Next \/ Same
    BY <2>18 DEF ReadFails, Goto, view, flags, surface
  <2>19. ASSUME NEW t \in Threads, LockCanvas(t) PROVE Picture!Next \/ Same
    BY <2>19 DEF LockCanvas, Goto, view, flags
  <2>20. ASSUME NEW t \in Threads, EnterMonitor(t) PROVE Picture!Next \/ Same
    BY <2>20 DEF EnterMonitor, Goto, view, flags
  <2>21. ASSUME NEW t \in Threads, Draw(t) PROVE Picture!Next \/ Same
    BY <2>21 DEF Draw, Goto, view, flags
  <2>22. ASSUME NEW t \in Threads, UnlockAndPost(t) PROVE Picture!Next \/ Same
    <3>1. mIn # NoStream /\ bmp = mIn
      BY <2>22 DEF UnlockAndPost, TypeOK, BitmapIsFresh, ServedInv, Holding,
               OnePlayer, Live, AskedInv
    <3> QED
      BY <2>22, <3>1 DEF UnlockAndPost, view, Picture!Next, Picture!Show
  <2>23. ASSUME NEW t \in Threads, Uncaught(t) PROVE Picture!Next \/ Same
    BY <2>23 DEF Uncaught, view, flags, player, surface
  <2>24. ASSUME NEW s \in Streams, EndStream(s) PROVE Picture!Next \/ Same
    BY <2>24 DEF EndStream, view, flags, player, surface
  <2>25. ASSUME NEW t \in Threads, BadHeader(t) PROVE Picture!Next \/ Same
    BY <2>25 DEF BadHeader, view, flags, player, surface
  <2>26. CASE UNCHANGED called
    BY <2>26 DEF called, vars, view, flags, player, surface
  <2> QED
    BY <2>1, <2>2, <2>3, <2>4, <2>5, <2>6, <2>7, <2>8, <2>9, <2>10, <2>11,
       <2>12, <2>13, <2>14, <2>15, <2>16, <2>17, <2>18, <2>19, <2>20, <2>21,
       <2>22, <2>23, <2>24, <2>25, <2>26
    DEF Next, HostCall, UIStep, CameraAnswer, PlayerStep
<1> QED
  BY <1>1, <1>2, TypeCorrect, ServedInvAlways, AskedInvAlways,
     BitmapIsFreshAlways, PTL
  DEF Spec, SoundPlays
=============================================================================
