----------------------- MODULE MjpegViewDefaultProofs -----------------------
(***************************************************************************)
(* What MjpegViewDefault keeps for any number of threads and streams.      *)
(*                                                                         *)
(* TypeOK and LocksOwned hold under any host and are inductive together.   *)
(* Under a host that stops one source before it sets the next, PlaybackInv *)
(* is inductive relative to them; every other invariant of that host, and  *)
(* the refinement of Playback, follow from it.                             *)
(***************************************************************************)
EXTENDS MjpegViewDefault, TLAPS

(* Type correctness, for every set of threads and of streams (21-47).      *)
THEOREM TypeCorrect == Spec => []TypeOK
<1> USE ViewAssumption DEF TypeOK, UISteps, PlayerSteps, Crashes,
        Picture!Content
<1>1. Init => TypeOK
  <2> SUFFICES ASSUME Init PROVE TypeOK
    OBVIOUS
  <2>1. /\ pc \in [Threads -> PlayerSteps]
        /\ canvas \in [Threads -> BOOLEAN]
        /\ src \in [Threads -> Streams \cup {NoStream}]
        /\ conn \in [Streams -> {"fresh", "open", "ended", "closed"}]
    BY DEF Init
  <2>2. screen \in Picture!Content
    BY DEF Init
  <2> QED
    BY <2>1, <2>2 DEF Init
<1>2. TypeOK /\ [Next]_vars => TypeOK'
  <2> SUFFICES ASSUME TypeOK, [Next]_vars PROVE TypeOK'
    OBVIOUS
  <2>1. ASSUME NEW s \in Streams, SetSource(s), UNCHANGED crash PROVE TypeOK'
    BY <2>1 DEF SetSource, player, surface, FreshThread, FreshStream
  <2>2. ASSUME StopPlayback, UNCHANGED crash PROVE TypeOK'
    BY <2>2 DEF StopPlayback, player, surface
  <2>3. ASSUME SurfaceCreated, UNCHANGED crash PROVE TypeOK'
    BY <2>3 DEF SurfaceCreated, player
  <2>4. ASSUME HideSurface, UNCHANGED crash PROVE TypeOK'
    BY <2>4 DEF HideSurface, player, surface
  <2>5. ASSUME SurfaceChanged, UNCHANGED crash PROVE TypeOK'
    BY <2>5 DEF SurfaceChanged, player, surface
  <2>6. ASSUME NEW t \in Threads, ResumePlayback(t), UNCHANGED crash
        PROVE TypeOK'
    BY <2>6 DEF ResumePlayback, surface, FreshThread
  <2>7. ASSUME JoinThread, UNCHANGED crash PROVE TypeOK'
    BY <2>7 DEF JoinThread, player, surface
  <2>8. ASSUME ClearSource, UNCHANGED crash PROVE TypeOK'
    BY <2>8 DEF ClearSource, player, surface
  <2>9. ASSUME StopDrawing, UNCHANGED crash PROVE TypeOK'
    BY <2>9 DEF StopDrawing, player
  <2>10. ASSUME SurfaceDestroyed, UNCHANGED crash PROVE TypeOK'
    BY <2>10 DEF SurfaceDestroyed, player, surface
  <2>11. ASSUME SetSurfaceSize, UNCHANGED crash PROVE TypeOK'
    BY <2>11 DEF SetSurfaceSize, player, surface
  <2>12. ASSUME NEW t \in Threads, ReadFrame(t), UNCHANGED crash PROVE TypeOK'
    BY <2>12 DEF ReadFrame, view, surface, Goto
  <2>13. ASSUME NEW t \in Threads, ReadFails(t), UNCHANGED crash PROVE TypeOK'
    BY <2>13 DEF ReadFails, view, Goto
  <2>14. ASSUME NEW t \in Threads, TestRun(t), UNCHANGED crash PROVE TypeOK'
    BY <2>14 DEF TestRun, view, surface, Goto
  <2>15. ASSUME NEW t \in Threads, TestSurface(t), UNCHANGED crash
         PROVE TypeOK'
    BY <2>15 DEF TestSurface, view, surface, Goto
  <2>16. ASSUME NEW t \in Threads, LockCanvas(t), UNCHANGED crash
         PROVE TypeOK'
    BY <2>16 DEF LockCanvas, view, Goto
  <2>17. ASSUME NEW t \in Threads, EnterMonitor(t), UNCHANGED crash
         PROVE TypeOK'
    BY <2>17 DEF EnterMonitor, view, Goto
  <2>18. ASSUME NEW t \in Threads, LoadSource(t), UNCHANGED crash
         PROVE TypeOK'
    BY <2>18 DEF LoadSource, view, surface, Goto
  <2>19. ASSUME NEW t \in Threads, Draw(t), UNCHANGED crash PROVE TypeOK'
    BY <2>19 DEF Draw, view, Goto
  <2>20. ASSUME NEW t \in Threads, UnlockAndPost(t), UNCHANGED crash
         PROVE TypeOK'
    BY <2>20 DEF UnlockAndPost, view, Goto, Picture!Posted
  <2>21. ASSUME NEW s \in Streams, EndStream(s), UNCHANGED crash PROVE TypeOK'
    BY <2>21 DEF EndStream, view, player, surface
  <2>22. ASSUME NEW t \in Threads, NullPointer(t) PROVE TypeOK'
    BY <2>22 DEF NullPointer, view, player, surface
  <2>23. ASSUME NEW t \in Threads, BadFrame(t) PROVE TypeOK'
    BY <2>23 DEF BadFrame, view, player, surface
  <2>24. CASE UNCHANGED vars
    BY <2>24 DEF vars, view, player, surface
  <2> QED
    BY <2>1, <2>2, <2>3, <2>4, <2>5, <2>6, <2>7, <2>8, <2>9, <2>10, <2>11,
       <2>12, <2>13, <2>14, <2>15, <2>16, <2>17, <2>18, <2>19, <2>20, <2>21,
       <2>22, <2>23, <2>24
    DEF Next, HostCall, UIStep, CameraAnswer, PlayerStep
<1> QED
  BY <1>1, <1>2, PTL DEF Spec

(* The locks are owned as run() needs them, whatever the host does.        *)
THEOREM LocksOwnedAlways == Spec => []LocksOwned
<1>1. Init => LocksOwned
  BY ViewAssumption DEF Init, LocksOwned, InMonitor
<1>2. TypeOK /\ LocksOwned /\ [Next]_vars => LocksOwned'
  <2> SUFFICES ASSUME TypeOK, LocksOwned, [Next]_vars PROVE LocksOwned'
    OBVIOUS
  <2> USE ViewAssumption DEF TypeOK, LocksOwned, InMonitor, PlayerSteps
  <2>1. ASSUME NEW s \in Streams, SetSource(s), UNCHANGED crash
        PROVE LocksOwned'
    BY <2>1 DEF SetSource, player, surface, FreshThread, FreshStream
  <2>2. ASSUME StopPlayback, UNCHANGED crash PROVE LocksOwned'
    BY <2>2 DEF StopPlayback, player, surface
  <2>3. ASSUME SurfaceCreated, UNCHANGED crash PROVE LocksOwned'
    BY <2>3 DEF SurfaceCreated, player
  <2>4. ASSUME HideSurface, UNCHANGED crash PROVE LocksOwned'
    BY <2>4 DEF HideSurface, player, surface
  <2>5. ASSUME SurfaceChanged, UNCHANGED crash PROVE LocksOwned'
    BY <2>5 DEF SurfaceChanged, player, surface
  <2>6. ASSUME NEW t \in Threads, ResumePlayback(t), UNCHANGED crash
        PROVE LocksOwned'
    BY <2>6 DEF ResumePlayback, surface, FreshThread, Live
  <2>7. ASSUME JoinThread, UNCHANGED crash PROVE LocksOwned'
    BY <2>7 DEF JoinThread, player, surface
  <2>8. ASSUME ClearSource, UNCHANGED crash PROVE LocksOwned'
    BY <2>8 DEF ClearSource, player, surface
  <2>9. ASSUME StopDrawing, UNCHANGED crash PROVE LocksOwned'
    BY <2>9 DEF StopDrawing, player
  <2>10. ASSUME SurfaceDestroyed, UNCHANGED crash PROVE LocksOwned'
    BY <2>10 DEF SurfaceDestroyed, player, surface
  <2>11. ASSUME SetSurfaceSize, UNCHANGED crash PROVE LocksOwned'
    BY <2>11 DEF SetSurfaceSize, player, surface
  <2>12. ASSUME NEW t \in Threads, ReadFrame(t), UNCHANGED crash
         PROVE LocksOwned'
    BY <2>12 DEF ReadFrame, view, surface, Goto
  <2>13. ASSUME NEW t \in Threads, ReadFails(t), UNCHANGED crash
         PROVE LocksOwned'
    BY <2>13 DEF ReadFails, view, Goto
  <2>14. ASSUME NEW t \in Threads, TestRun(t), UNCHANGED crash
         PROVE LocksOwned'
    BY <2>14 DEF TestRun, view, surface, Goto
  <2>15. ASSUME NEW t \in Threads, TestSurface(t), UNCHANGED crash
         PROVE LocksOwned'
    BY <2>15 DEF TestSurface, view, surface, Goto
  <2>16. ASSUME NEW t \in Threads, LockCanvas(t), UNCHANGED crash
         PROVE LocksOwned'
    BY <2>16 DEF LockCanvas, view, Goto
  <2>17. ASSUME NEW t \in Threads, EnterMonitor(t), UNCHANGED crash
         PROVE LocksOwned'
    BY <2>17 DEF EnterMonitor, view, Goto
  <2>18. ASSUME NEW t \in Threads, LoadSource(t), UNCHANGED crash
         PROVE LocksOwned'
    BY <2>18 DEF LoadSource, view, surface, Goto
  <2>19. ASSUME NEW t \in Threads, Draw(t), UNCHANGED crash PROVE LocksOwned'
    BY <2>19 DEF Draw, view, Goto
  <2>20. ASSUME NEW t \in Threads, UnlockAndPost(t), UNCHANGED crash
         PROVE LocksOwned'
    BY <2>20 DEF UnlockAndPost, view, Goto, Picture!Posted
  <2>21. ASSUME NEW s \in Streams, EndStream(s), UNCHANGED crash
         PROVE LocksOwned'
    BY <2>21 DEF EndStream, view, player, surface
  <2>22. ASSUME NEW t \in Threads, NullPointer(t) PROVE LocksOwned'
    BY <2>22 DEF NullPointer, view, player, surface
  <2>23. ASSUME NEW t \in Threads, BadFrame(t) PROVE LocksOwned'
    BY <2>23 DEF BadFrame, view, player, surface
  <2>24. CASE UNCHANGED vars
    BY <2>24 DEF vars, view, player, surface
  <2> QED
    BY <2>1, <2>2, <2>3, <2>4, <2>5, <2>6, <2>7, <2>8, <2>9, <2>10, <2>11,
       <2>12, <2>13, <2>14, <2>15, <2>16, <2>17, <2>18, <2>19, <2>20, <2>21,
       <2>22, <2>23, <2>24
    DEF Next, HostCall, UIStep, CameraAnswer, PlayerStep
<1> QED
  BY <1>1, <1>2, TypeCorrect, PTL DEF Spec

(* At most one thread reads a stream and paints, under any host (119-150). *)
THEOREM ReadersExcludeAlways == Spec => []ReadersExclude
<1>1. LocksOwned => ReadersExclude
  BY DEF LocksOwned, InMonitor, ReadersExclude
<1> QED
  BY <1>1, LocksOwnedAlways, PTL

(* No canvas outlives the surface it was given for, under any host (118,   *)
(* 151-153, 234).                                                          *)
THEOREM CanvasNeedsSurfaceAlways == Spec => []CanvasNeedsSurface
<1>1. LocksOwned => CanvasNeedsSurface
  BY DEF LocksOwned, CanvasNeedsSurface
<1> QED
  BY <1>1, LocksOwnedAlways, PTL

(* Under a host that stops one source before it sets the next, there is    *)
(* one player and one open connection, a player always has a source, and   *)
(* it is refused a canvas only while the surface is being destroyed.       *)
THEOREM PlaybackInvAlways ==
  ASSUME OneSourceAtATime = TRUE
  PROVE  Spec => []PlaybackInv
<1> USE ViewAssumption DEF PlaybackInv, OnePlayer, OneConnection, SurfaceLost,
        SourceWhilePlaying, NullCanvasOnlyOnDestroy, Stopping, Destroying,
        Live, Unclosed, InMonitor
<1>1. Init => PlaybackInv
  BY DEF Init
<1>2. TypeOK /\ LocksOwned /\ PlaybackInv /\ [Next]_vars => PlaybackInv'
  <2> SUFFICES ASSUME TypeOK, LocksOwned, PlaybackInv, [Next]_vars
               PROVE  PlaybackInv'
    OBVIOUS
  <2> USE DEF TypeOK, LocksOwned, PlayerSteps, UISteps
  <2>1. ASSUME NEW s \in Streams, SetSource(s), UNCHANGED crash
        PROVE PlaybackInv'
    BY <2>1 DEF SetSource, player, surface, FreshThread, FreshStream
  <2>2. ASSUME StopPlayback, UNCHANGED crash PROVE PlaybackInv'
    BY <2>2 DEF StopPlayback, player, surface
  <2>3. ASSUME SurfaceCreated, UNCHANGED crash PROVE PlaybackInv'
    BY <2>3 DEF SurfaceCreated, player
  <2>4. ASSUME HideSurface, UNCHANGED crash PROVE PlaybackInv'
    BY <2>4 DEF HideSurface, player, surface
  <2>5. ASSUME SurfaceChanged, UNCHANGED crash PROVE PlaybackInv'
    BY <2>5 DEF SurfaceChanged, player, surface
  <2>6. ASSUME NEW t \in Threads, ResumePlayback(t), UNCHANGED crash
        PROVE PlaybackInv'
    BY <2>6 DEF ResumePlayback, surface, FreshThread
  <2>7. ASSUME JoinThread, crash = "none", UNCHANGED crash PROVE PlaybackInv'
    <3>1. \A t \in Threads : ~Live(t)
      BY <2>7 DEF JoinThread
    <3>2. OnePlayer'
      BY <2>7, <3>1 DEF JoinThread, player
    <3>3. conn' \in [Streams -> {"fresh", "open", "ended", "closed"}]
      BY <2>7 DEF JoinThread
    <3>4. \A s \in Streams : ~Unclosed(s)'
      <4> TAKE s \in Streams
      <4>1. CASE s = mIn
        BY <4>1, <2>7 DEF JoinThread
      <4>2. CASE s # mIn
        BY <4>2, <2>7 DEF JoinThread
      <4> QED
        BY <4>1, <4>2
    <3>5. OneConnection'
      BY <2>7, <3>1, <3>4 DEF JoinThread, player
    <3>6. SurfaceLost'
      BY <2>7, <3>1 DEF JoinThread, player, surface
    <3> QED
      BY <2>7, <3>2, <3>5, <3>6 DEF JoinThread, player, surface
  <2>8. ASSUME ClearSource, UNCHANGED crash PROVE PlaybackInv'
    BY <2>8 DEF ClearSource, player, surface
  <2>9. ASSUME StopDrawing, UNCHANGED crash PROVE PlaybackInv'
    BY <2>9 DEF StopDrawing, player
  <2>10. ASSUME SurfaceDestroyed, UNCHANGED crash PROVE PlaybackInv'
    BY <2>10 DEF SurfaceDestroyed, player, surface
  <2>11. ASSUME SetSurfaceSize, UNCHANGED crash PROVE PlaybackInv'
    BY <2>11 DEF SetSurfaceSize, player, surface
  <2>12. ASSUME NEW t \in Threads, ReadFrame(t), UNCHANGED crash
         PROVE PlaybackInv'
    BY <2>12 DEF ReadFrame, view, surface, Goto
  <2>13. ASSUME NEW t \in Threads, ReadFails(t), UNCHANGED crash
         PROVE PlaybackInv'
    BY <2>13 DEF ReadFails, view, Goto
  <2>14. ASSUME NEW t \in Threads, TestRun(t), UNCHANGED crash
         PROVE PlaybackInv'
    BY <2>14 DEF TestRun, view, surface, Goto
  <2>15. ASSUME NEW t \in Threads, TestSurface(t), UNCHANGED crash
         PROVE PlaybackInv'
    BY <2>15 DEF TestSurface, view, surface, Goto
  <2>16. ASSUME NEW t \in Threads, LockCanvas(t), UNCHANGED crash
         PROVE PlaybackInv'
    BY <2>16 DEF LockCanvas, view, Goto
  <2>17. ASSUME NEW t \in Threads, EnterMonitor(t), UNCHANGED crash
         PROVE PlaybackInv'
    BY <2>17 DEF EnterMonitor, view, Goto
  <2>18. ASSUME NEW t \in Threads, LoadSource(t), UNCHANGED crash
         PROVE PlaybackInv'
    BY <2>18 DEF LoadSource, view, surface, Goto
  <2>19. ASSUME NEW t \in Threads, Draw(t), UNCHANGED crash PROVE PlaybackInv'
    BY <2>19 DEF Draw, view, Goto
  <2>20. ASSUME NEW t \in Threads, UnlockAndPost(t), UNCHANGED crash
         PROVE PlaybackInv'
    BY <2>20 DEF UnlockAndPost, view, Goto, Picture!Posted
  <2>21. ASSUME NEW s \in Streams, EndStream(s), UNCHANGED crash
         PROVE PlaybackInv'
    BY <2>21 DEF EndStream, view, player, surface
  <2>22. ASSUME NEW t \in Threads, NullPointer(t) PROVE PlaybackInv'
    BY <2>22 DEF NullPointer, view, player, surface
  <2>23. ASSUME NEW t \in Threads, BadFrame(t) PROVE PlaybackInv'
    BY <2>23 DEF BadFrame, view, player, surface
  <2>24. CASE UNCHANGED vars
    BY <2>24 DEF vars, view, player, surface
  <2> QED
    BY <2>1, <2>2, <2>3, <2>4, <2>5, <2>6, <2>7, <2>8, <2>9, <2>10, <2>11,
       <2>12, <2>13, <2>14, <2>15, <2>16, <2>17, <2>18, <2>19, <2>20, <2>21,
       <2>22, <2>23, <2>24
    DEF Next, HostCall, UIStep, CameraAnswer, PlayerStep
<1> QED
  BY <1>1, <1>2, TypeCorrect, LocksOwnedAlways, PTL DEF Spec

(* What the invariants of a disciplined host, stated one by one, owe to it:*)
(* join waits for every player there is (211),                             *)
THEOREM NoOrphanAlways ==
  ASSUME OneSourceAtATime = TRUE
  PROVE  Spec => []NoOrphan
<1>1. PlaybackInv => NoOrphan
  BY DEF PlaybackInv, OnePlayer, NoOrphan
<1> QED
  BY <1>1, PlaybackInvAlways, PTL

(* a player never meets the null source of a stopped view (121, 224),      *)
THEOREM SourceWhilePlayingAlways ==
  ASSUME OneSourceAtATime = TRUE
  PROVE  Spec => []SourceWhilePlaying
<1>1. PlaybackInv => SourceWhilePlaying
  BY DEF PlaybackInv
<1> QED
  BY <1>1, PlaybackInvAlways, PTL

(* no stream is closed or replaced while a player has it (118-153, 219),   *)
THEOREM ReaderOwnsSourceAlways ==
  ASSUME OneSourceAtATime = TRUE
  PROVE  Spec => []ReaderOwnsSource
<1>1. LocksOwned /\ PlaybackInv => ReaderOwnsSource
  BY DEF LocksOwned, PlaybackInv, OnePlayer, OneConnection, Stopping, Live,
         ReaderOwnsSource
<1> QED
  BY <1>1, LocksOwnedAlways, PlaybackInvAlways, PTL

(* a stopped view holds no connection (218-225),                           *)
THEOREM StoppedIsClosedAlways ==
  ASSUME OneSourceAtATime = TRUE
  PROVE  Spec => []StoppedIsClosed
<1>1. PlaybackInv => StoppedIsClosed
  BY ViewAssumption
     DEF PlaybackInv, OneConnection, Stopping, StoppedIsClosed
<1> QED
  BY <1>1, PlaybackInvAlways, PTL

(* and a null canvas kills a player in one place only (116-124, 235).      *)
THEOREM NullCanvasOnlyOnDestroyAlways ==
  ASSUME OneSourceAtATime = TRUE
  PROVE  Spec => []NullCanvasOnlyOnDestroy
<1>1. PlaybackInv => NullCanvasOnlyOnDestroy
  BY DEF PlaybackInv
<1> QED
  BY <1>1, PlaybackInvAlways, PTL

(* All of this together.                                                   *)
THEOREM OneSourceSafeAlways ==
  ASSUME OneSourceAtATime = TRUE
  PROVE  Spec => []OneSourceSafe
<1> QED
  BY NoOrphanAlways, SourceWhilePlayingAlways, ReaderOwnsSourceAlways,
     StoppedIsClosedAlways, NullCanvasOnlyOnDestroyAlways, PTL
  DEF OneSourceSafe

(* Under such a host the view implements Playback: every step is one of    *)
(* its steps or leaves the source and the display alone (MjpegView).       *)
THEOREM PlaysAlways ==
  ASSUME OneSourceAtATime = TRUE
  PROVE  Spec => Plays
<1>1. Init => Picture!Init
  BY DEF Init, Picture!Init
<1>2. TypeOK /\ LocksOwned /\ PlaybackInv /\ [Next]_vars
        => [Picture!Next]_(Picture!vars)
  <2> SUFFICES ASSUME TypeOK, LocksOwned, PlaybackInv, [Next]_vars
               PROVE  [Picture!Next]_(Picture!vars)
    OBVIOUS
  <2> DEFINE Stutter == UNCHANGED <<mIn, screen>>
  <2>1. ASSUME NEW s \in Streams, SetSource(s) PROVE Picture!Next
    BY <2>1
    DEF SetSource, FreshStream, surface, Picture!Next, Picture!Play
  <2>2. ASSUME StopPlayback PROVE Stutter
    BY <2>2 DEF StopPlayback, surface
  <2>3. ASSUME SurfaceCreated PROVE Stutter
    BY <2>3 DEF SurfaceCreated
  <2>4. ASSUME HideSurface PROVE Stutter
    BY <2>4 DEF HideSurface, surface
  <2>5. ASSUME SurfaceChanged PROVE Stutter
    BY <2>5 DEF SurfaceChanged, surface
  <2>6. ASSUME NEW t \in Threads, ResumePlayback(t) PROVE Stutter
    BY <2>6 DEF ResumePlayback, surface
  <2>7. ASSUME JoinThread PROVE Stutter
    BY <2>7 DEF JoinThread, surface
  <2>8. ASSUME ClearSource PROVE Picture!Next \/ Stutter
    BY <2>8 DEF ClearSource, surface, Picture!Next, Picture!Stop
  <2>9. ASSUME StopDrawing PROVE Stutter
    BY <2>9 DEF StopDrawing
  <2>10. ASSUME SurfaceDestroyed PROVE Stutter
    BY <2>10 DEF SurfaceDestroyed, surface
  <2>11. ASSUME SetSurfaceSize PROVE Stutter
    BY <2>11 DEF SetSurfaceSize, surface
  <2>12. ASSUME NEW t \in Threads, ReadFrame(t) PROVE Stutter
    BY <2>12 DEF ReadFrame, view, surface
  <2>13. ASSUME NEW t \in Threads, ReadFails(t) PROVE Stutter
    BY <2>13 DEF ReadFails, view
  <2>14. ASSUME NEW t \in Threads, TestRun(t) PROVE Stutter
    BY <2>14 DEF TestRun, view, surface
  <2>15. ASSUME NEW t \in Threads, TestSurface(t) PROVE Stutter
    BY <2>15 DEF TestSurface, view, surface
  <2>16. ASSUME NEW t \in Threads, LockCanvas(t) PROVE Stutter
    BY <2>16 DEF LockCanvas, view
  <2>17. ASSUME NEW t \in Threads, EnterMonitor(t) PROVE Stutter
    BY <2>17 DEF EnterMonitor, view
  <2>18. ASSUME NEW t \in Threads, LoadSource(t) PROVE Stutter
    BY <2>18 DEF LoadSource, view, surface
  <2>19. ASSUME NEW t \in Threads, Draw(t) PROVE Stutter
    BY <2>19 DEF Draw, view
  <2>20. ASSUME NEW t \in Threads, UnlockAndPost(t) PROVE Picture!Next \/ Stutter
    <3>1. CASE ~canvas[t]
      BY <2>20, <3>1 DEF UnlockAndPost, view
    <3>2. mIn # NoStream
      BY <2>20 DEF UnlockAndPost, PlaybackInv, OnePlayer, Live
    <3>3. CASE canvas[t] /\ src[t] = NoStream
      BY <2>20, <3>2, <3>3
      DEF UnlockAndPost, view, Picture!Next, Picture!Glitch
    <3>4. CASE canvas[t] /\ src[t] # NoStream
      <4>1. src[t] = mIn
        BY <3>4 DEF PlaybackInv, OneConnection
      <4> QED
        BY <2>20, <3>2, <3>4, <4>1
        DEF UnlockAndPost, view, Picture!Next, Picture!Show
    <3> QED
      BY <3>1, <3>3, <3>4
  <2>21. ASSUME NEW s \in Streams, EndStream(s) PROVE Stutter
    BY <2>21 DEF EndStream, view, surface
  <2>22. ASSUME NEW t \in Threads, NullPointer(t) PROVE Stutter
    BY <2>22 DEF NullPointer, view, surface
  <2>23. ASSUME NEW t \in Threads, BadFrame(t) PROVE Stutter
    BY <2>23 DEF BadFrame, view, surface
  <2>24. ASSUME UNCHANGED vars PROVE Stutter
    BY <2>24 DEF vars, view, surface
  <2>25. Picture!Next \/ Stutter
    <3> HIDE DEF Stutter
    <3> QED
      BY <2>1, <2>2, <2>3, <2>4, <2>5, <2>6, <2>7, <2>8, <2>9, <2>10, <2>11,
         <2>12, <2>13, <2>14, <2>15, <2>16, <2>17, <2>18, <2>19, <2>20, <2>21,
         <2>22, <2>23, <2>24, SMTT(30)
      DEF Next, HostCall, UIStep, CameraAnswer, PlayerStep
  <2> QED
    BY <2>25 DEF Picture!vars
<1> QED
  BY <1>1, <1>2, TypeCorrect, LocksOwnedAlways, PlaybackInvAlways, PTL
  DEF Spec, Plays, Picture!Spec
=============================================================================
