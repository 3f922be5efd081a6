-------------------------- MODULE MjpegViewDefault --------------------------
(***************************************************************************)
(* MjpegViewDefault.java: the view that paints an MJPEG stream on a        *)
(* SurfaceView. Three parties touch its fields without synchronisation:    *)
(*                                                                         *)
(*   - the UI (main) thread runs the host's calls (setSource,              *)
(*     stopPlayback) and the SurfaceHolder callbacks, one at a time; `ui'  *)
(*     is where it stands inside the call it is running;                   *)
(*   - every MjpegViewThread that was started runs its own drawing loop;   *)
(*   - the camera ends a connection, or is silent, whenever it likes.      *)
(*                                                                         *)
(* Two locks are involved: the one SurfaceView holds from lockCanvas to    *)
(* unlockCanvasAndPost and takes itself before it stops the drawing        *)
(* (surfaceLock), and the Java monitor of the SurfaceHolder (monitor).     *)
(*                                                                         *)
(* The constructor has already run: it calls init(), so `resume' is true   *)
(* in every state, _setSource always goes to _resumePlayback, and          *)
(* _startPlayback is never reached.                                        *)
(***************************************************************************)
EXTENDS FiniteSets, Integers

CONSTANTS
  Threads,           (* MjpegViewThread objects; a dead one is reused      *)
  Streams,           (* MjpegInputStreamDefault objects; likewise          *)
  NoThread,          (* thread == null, a free lock                        *)
  NoStream,          (* mIn == null                                        *)
  OneSourceAtATime   (* the host asks isStreaming() before setSource       *)

ASSUME ViewAssumption ==
  /\ NoThread \notin Threads
  /\ NoStream \notin Streams
  /\ OneSourceAtATime \in BOOLEAN

VARIABLES
  mRun,          (* keep drawing: written by the UI thread only            *)
  surfaceDone,   (* surfaceCreated has been called                         *)
  mIn,           (* the source                                             *)
  thread,        (* the thread _stopPlayback joins                         *)
  ui,            (* where the UI thread stands, "idle" between two calls   *)
  onDestroy,     (* _stopPlayback was called by _surfaceDestroyed          *)
  pc,            (* where each thread stands in run()                      *)
  canvas,        (* c # null, for each thread                              *)
  src,           (* the stream each thread reads, or has a frame of        *)
  surfaceLock,   (* SurfaceView's lock: NoThread or its holder             *)
  monitor,       (* synchronized (mSurfaceHolder)                          *)
  drawable,      (* lockCanvas returns a canvas                            *)
  screen,        (* the content last posted to the display                 *)
  conn,          (* the connection below each stream                       *)
  crash          (* the uncaught exception that killed the process         *)

view == <<mRun, surfaceDone, mIn, thread, ui, onDestroy>>
player == <<pc, canvas, src>>
surface == <<surfaceLock, monitor, drawable, screen>>
vars == <<view, player, surface, conn, crash>>
-----------------------------------------------------------------------------
UISteps == {"idle", "resuming", "joining", "clearing", "sizing", "hiding",
            "destroying"}

PlayerSteps == {"new", "while", "check", "lock", "enter", "load", "reading",
                "draw", "post", "dead"}

Crashes == {"none", "nullSource", "nullCanvas", "badFrame"}

(* The promise this view is held to. It may glitch: a frame that cannot be *)
(* read leaves the canvas unpainted, and `finally' posts it all the same.  *)
Picture == INSTANCE Playback WITH playing <- mIn, MayGlitch <- TRUE

TypeOK ==
  /\ mRun \in BOOLEAN
  /\ surfaceDone \in BOOLEAN
  /\ mIn \in Streams \cup {NoStream}
  /\ thread \in Threads \cup {NoThread}
  /\ ui \in UISteps
  /\ onDestroy \in BOOLEAN
  /\ pc \in [Threads -> PlayerSteps]
  /\ canvas \in [Threads -> BOOLEAN]
  /\ src \in [Threads -> Streams \cup {NoStream}]
  /\ surfaceLock \in Threads \cup {NoThread}
  /\ monitor \in Threads \cup {NoThread}
  /\ drawable \in BOOLEAN
  /\ screen \in Picture!Content
  /\ conn \in [Streams -> {"fresh", "open", "ended", "closed"}]
  /\ crash \in Crashes

(* Thread.isAlive: started and not yet out of run().                       *)
Live(t) == pc[t] \notin {"new", "dead"}

(* An object nothing refers to any more, as good as a new one.             *)
FreshThread(t) == t # thread /\ ~Live(t)
FreshStream(s) == s # mIn /\ conn[s] \in {"fresh", "closed"}
                          /\ \A t \in Threads : src[t] # s

(* A socket the process holds, whether or not the camera still sends.      *)
Unclosed(s) == conn[s] \in {"open", "ended"}

(* After the constructor: init() made a thread that is not started.        *)
Init ==
  /\ mRun = FALSE
  /\ surfaceDone = FALSE
  /\ mIn = NoStream
  /\ thread \in Threads
  /\ ui = "idle"
  /\ onDestroy = FALSE
  /\ pc = [t \in Threads |-> "new"]
  /\ canvas = [t \in Threads |-> FALSE]
  /\ src = [t \in Threads |-> NoStream]
  /\ surfaceLock = NoThread
  /\ monitor = NoThread
  /\ drawable = FALSE
  /\ screen = [from |-> NoStream, bit |-> 0]
  /\ conn = [s \in Streams |-> "fresh"]
  /\ crash = "none"
-----------------------------------------------------------------------------
(* The host's calls and the SurfaceHolder callbacks, on the UI thread.     *)
(*                                                                         *)
(* Some actions, here and in the next section, stand behind a variant of   *)
(* theirs that is no part of Next: the same code with one mistake in it,   *)
(* named for the mistake, to see that a property below notices it.         *)

(* setSource: the new source is in place before _resumePlayback makes its  *)
(* thread. The one it replaces, if any, is neither stopped nor closed.     *)
SetSource(s) ==
  /\ ui = "idle"
  /\ FreshStream(s)
  /\ \E t \in Threads : FreshThread(t)
  /\ OneSourceAtATime => ~mRun
  /\ mIn' = s
  /\ conn' = [conn EXCEPT ![s] = "open"]
  /\ ui' = "resuming"
  /\ UNCHANGED <<mRun, surfaceDone, thread, onDestroy, player, surface>>

(* _resumePlayback and the init() in it.                                   *)
ResumePlayback(t) ==
  /\ ui = "resuming"
  /\ FreshThread(t)
  /\ mRun' = TRUE
  /\ thread' = t
  /\ pc' = [pc EXCEPT ![t] = "while"]
  /\ ui' = "idle"
  /\ UNCHANGED <<surfaceDone, mIn, onDestroy, canvas, src, surface, conn>>

(* stopPlayback, as far as the join.                                       *)
StopPlaybackNoFlag ==
  /\ ui = "idle"
  /\ onDestroy' = FALSE
  /\ ui' = "joining"
  /\ UNCHANGED <<mRun, surfaceDone, mIn, thread, player, surface, conn>>

StopPlayback ==
  /\ ui = "idle"
  /\ mRun' = FALSE
  /\ onDestroy' = FALSE
  /\ ui' = "joining"
  /\ UNCHANGED <<surfaceDone, mIn, thread, player, surface, conn>>

(* join returns when the thread has ended, and at once if it never         *)
(* started; then the source is closed.                                     *)
JoinThreadNotWaiting ==
  /\ ui = "joining"
  /\ conn' = IF mIn = NoStream THEN conn ELSE [conn EXCEPT ![mIn] = "closed"]
  /\ ui' = "clearing"
  /\ UNCHANGED <<mRun, surfaceDone, mIn, thread, onDestroy, player, surface>>

JoinThreadNotClosing ==
  /\ ui = "joining"
  /\ thread # NoThread => ~Live(thread)
  /\ ui' = "clearing"
  /\ UNCHANGED <<mRun, surfaceDone, mIn, thread, onDestroy, player, surface,
                 conn>>

JoinThread ==
  /\ ui = "joining"
  /\ thread # NoThread => ~Live(thread)
  /\ conn' = IF mIn = NoStream THEN conn ELSE [conn EXCEPT ![mIn] = "closed"]
  /\ ui' = "clearing"
  /\ UNCHANGED <<mRun, surfaceDone, mIn, thread, onDestroy, player, surface>>

(* The source is dropped, and with the surface the thread as well.         *)
ClearSource ==
  /\ ui = "clearing"
  /\ mIn' = NoStream
  /\ thread' = IF onDestroy THEN NoThread ELSE thread
  /\ ui' = "idle"
  /\ UNCHANGED <<mRun, surfaceDone, onDestroy, player, surface, conn>>

(* SurfaceView has a surface again, and calls surfaceCreated.              *)
SurfaceCreated ==
  /\ ui = "idle"
  /\ ~drawable
  /\ surfaceLock = NoThread
  /\ drawable' = TRUE
  /\ surfaceDone' = TRUE
  /\ UNCHANGED <<mRun, mIn, thread, ui, onDestroy, player, surfaceLock,
                 monitor, screen, conn>>

(* SurfaceView is about to lose its surface: it waits for whoever draws,   *)
(* refuses every later lockCanvas, and then calls surfaceDestroyed.        *)
HideSurface ==
  /\ ui = "idle"
  /\ drawable
  /\ ui' = "hiding"
  /\ UNCHANGED <<mRun, surfaceDone, mIn, thread, onDestroy, player, surface,
                 conn>>

StopDrawing ==
  /\ ui = "hiding"
  /\ surfaceLock = NoThread
  /\ drawable' = FALSE
  /\ ui' = "destroying"
  /\ UNCHANGED <<mRun, surfaceDone, mIn, thread, onDestroy, player,
                 surfaceLock, monitor, screen, conn>>

(* _surfaceDestroyed, as far as the join in its _stopPlayback.             *)
SurfaceDestroyedKeepingDone ==
  /\ ui = "destroying"
  /\ mRun' = FALSE
  /\ onDestroy' = TRUE
  /\ ui' = "joining"
  /\ UNCHANGED <<surfaceDone, mIn, thread, player, surface, conn>>

SurfaceDestroyed ==
  /\ ui = "destroying"
  /\ surfaceDone' = FALSE
  /\ mRun' = FALSE
  /\ onDestroy' = TRUE
  /\ ui' = "joining"
  /\ UNCHANGED <<mIn, thread, player, surface, conn>>

(* _surfaceChanged: setSurfaceSize waits for the monitor.                  *)
SurfaceChanged ==
  /\ ui = "idle"
  /\ drawable
  /\ thread # NoThread
  /\ ui' = "sizing"
  /\ UNCHANGED <<mRun, surfaceDone, mIn, thread, onDestroy, player, surface,
                 conn>>

SetSurfaceSize ==
  /\ ui = "sizing"
  /\ monitor = NoThread
  /\ ui' = "idle"
  /\ UNCHANGED <<mRun, surfaceDone, mIn, thread, onDestroy, player, surface,
                 conn>>
-----------------------------------------------------------------------------
(* MjpegViewThread.run, one action for each access to what is shared.      *)

Goto(t, step) == pc' = [pc EXCEPT ![t] = step]

(* while (mRun)                                                            *)
TestRunOrSurface(t) ==
  /\ pc[t] = "while"
  /\ Goto(t, IF mRun \/ surfaceDone THEN "check" ELSE "dead")
  /\ UNCHANGED <<view, canvas, src, surface, conn>>

TestRun(t) ==
  /\ pc[t] = "while"
  /\ Goto(t, IF mRun THEN "check" ELSE "dead")
  /\ UNCHANGED <<view, canvas, src, surface, conn>>

(* if (surfaceDone)                                                        *)
TestSurfaceWaiting(t) ==
  /\ pc[t] = "check"
  /\ Goto(t, IF surfaceDone THEN "lock" ELSE "wait")
  /\ UNCHANGED <<view, canvas, src, surface, conn>>

TestSurface(t) ==
  /\ pc[t] = "check"
  /\ Goto(t, IF surfaceDone THEN "lock" ELSE "while")
  /\ UNCHANGED <<view, canvas, src, surface, conn>>

(* c = mSurfaceHolder.lockCanvas(): it keeps the lock if it has a canvas   *)
(* to give, and returns null otherwise.                                    *)
LockCanvas(t) ==
  /\ pc[t] = "lock"
  /\ surfaceLock = NoThread
  /\ surfaceLock' = IF drawable THEN t ELSE NoThread
  /\ canvas' = [canvas EXCEPT ![t] = drawable]
  /\ Goto(t, "enter")
  /\ UNCHANGED <<view, src, monitor, drawable, screen, conn>>

(* synchronized (mSurfaceHolder) {                                         *)
EnterAnyway(t) ==
  /\ pc[t] = "enter"
  /\ monitor' = t
  /\ Goto(t, "load")
  /\ UNCHANGED <<view, canvas, src, surfaceLock, drawable, screen, conn>>

EnterMonitor(t) ==
  /\ pc[t] = "enter"
  /\ monitor = NoThread
  /\ monitor' = t
  /\ Goto(t, "load")
  /\ UNCHANGED <<view, canvas, src, surfaceLock, drawable, screen, conn>>

(* mIn.readMjpegFrame(): which stream, and null if there is none.          *)
LoadSource(t) ==
  /\ pc[t] = "load"
  /\ mIn # NoStream
  /\ src' = [src EXCEPT ![t] = mIn]
  /\ Goto(t, "reading")
  /\ UNCHANGED <<view, canvas, surface, conn>>

(* The frame has arrived and is decoded.                                   *)
ReadFrame(t) ==
  /\ pc[t] = "reading"
  /\ conn[src[t]] = "open"
  /\ Goto(t, "draw")
  /\ UNCHANGED <<view, canvas, src, surface, conn>>

(* An IOException, caught and forgotten: nothing will be painted.          *)
ReadFails(t) ==
  /\ pc[t] = "reading"
  /\ src' = [src EXCEPT ![t] = NoStream]
  /\ monitor' = NoThread
  /\ Goto(t, "post")
  /\ UNCHANGED <<view, canvas, surfaceLock, drawable, screen, conn>>

(* c.drawColor, c.drawBitmap, and out of the synchronized block.           *)
Draw(t) ==
  /\ pc[t] = "draw"
  /\ canvas[t]
  /\ monitor' = NoThread
  /\ Goto(t, "post")
  /\ UNCHANGED <<view, canvas, src, surfaceLock, drawable, screen, conn>>

(* finally { if (c != null) unlockCanvasAndPost(c); }                      *)
PostStaleCanvas(t) ==
  /\ pc[t] = "post"
  /\ surfaceLock' = IF canvas[t] THEN NoThread ELSE surfaceLock
  /\ screen' = IF canvas[t] THEN Picture!Posted(screen, src[t]) ELSE screen
  /\ src' = [src EXCEPT ![t] = NoStream]
  /\ Goto(t, "while")
  /\ UNCHANGED <<view, canvas, monitor, drawable, conn>>

PostPaintedOnly(t) ==
  /\ pc[t] = "post"
  /\ surfaceLock' = IF src[t] # NoStream /\ canvas[t] THEN NoThread
                                                      ELSE surfaceLock
  /\ screen' = IF canvas[t] THEN Picture!Posted(screen, src[t]) ELSE screen
  /\ canvas' = [canvas EXCEPT ![t] = FALSE]
  /\ src' = [src EXCEPT ![t] = NoStream]
  /\ Goto(t, "while")
  /\ UNCHANGED <<view, monitor, drawable, conn>>

UnlockAndPost(t) ==
  /\ pc[t] = "post"
  /\ surfaceLock' = IF canvas[t] THEN NoThread ELSE surfaceLock
  /\ screen' = IF canvas[t] THEN Picture!Posted(screen, src[t]) ELSE screen
  /\ canvas' = [canvas EXCEPT ![t] = FALSE]
  /\ src' = [src EXCEPT ![t] = NoStream]
  /\ Goto(t, "while")
  /\ UNCHANGED <<view, monitor, drawable, conn>>

(* What run() does not catch ends the thread, and Android the process.     *)
(* mIn is null, or the canvas is:                                          *)
NullPointer(t) ==
  /\ \/ pc[t] = "load" /\ mIn = NoStream /\ crash' = "nullSource"
     \/ pc[t] = "draw" /\ ~canvas[t] /\ crash' = "nullCanvas"
  /\ UNCHANGED <<view, player, surface, conn>>

(* no start marker is found, or there is no bitmap in what was found:      *)
BadFrame(t) ==
  /\ pc[t] = "reading"
  /\ conn[src[t]] = "open"
  /\ crash' = "badFrame"
  /\ UNCHANGED <<view, player, surface, conn>>

(* The camera closes its end, or the network does.                         *)
EndStream(s) ==
  /\ conn[s] = "open"
  /\ conn' = [conn EXCEPT ![s] = "ended"]
  /\ UNCHANGED <<view, player, surface>>
-----------------------------------------------------------------------------
HostCall ==
  \/ \E s \in Streams : SetSource(s)
  \/ StopPlayback
  \/ SurfaceCreated
  \/ HideSurface
  \/ SurfaceChanged

(* The rest of a call the UI thread has begun.                             *)
UIStep ==
  \/ \E t \in Threads : ResumePlayback(t)
  \/ JoinThread
  \/ ClearSource
  \/ StopDrawing
  \/ SurfaceDestroyed
  \/ SetSurfaceSize

CameraAnswer(t) == ReadFrame(t) \/ ReadFails(t)

PlayerStep(t) ==
  \/ TestRun(t)
  \/ TestSurface(t)
  \/ LockCanvas(t)
  \/ EnterMonitor(t)
  \/ LoadSource(t)
  \/ Draw(t)
  \/ UnlockAndPost(t)

(* Nothing moves in a dead process.                                        *)
Next ==
  /\ crash = "none"
  /\ \/ /\ UNCHANGED crash
        /\ \/ HostCall
           \/ UIStep
           \/ \E t \in Threads : CameraAnswer(t) \/ PlayerStep(t)
           \/ \E s \in Streams : EndStream(s)
     \/ \E t \in Threads : NullPointer(t) \/ BadFrame(t)

Spec == Init /\ [][Next]_vars

-----------------------------------------------------------------------------
(* Fairness. The scheduler runs every thread that can run, and a lock that *)
(* is free again and again is got in the end; hence SF, as the player      *)
(* frees and takes both locks in a loop (for a step that waits for no lock *)
(* it says no more than WF). Nothing makes the camera answer: no read      *)
(* timeout is set on the connection, so that is an assumption of its own.  *)
UIFairness == SF_vars(crash = "none" /\ UIStep /\ UNCHANGED crash)

PlayerFairness ==
  \A t \in Threads :
    SF_vars(crash = "none" /\ \/ PlayerStep(t) /\ UNCHANGED crash
                              \/ NullPointer(t))

CameraFairness ==
  \A t \in Threads :
    WF_vars(crash = "none" /\ CameraAnswer(t) /\ UNCHANGED crash)

FairSpec == Spec /\ UIFairness /\ PlayerFairness

AnsweringSpec == FairSpec /\ CameraFairness
-----------------------------------------------------------------------------
(* Properties of the view under any host.                                  *)

(* A stream has no lock of its own and its reader moves a position in it:  *)
(* however many threads a host has left running, one at most is between    *)
(* the synchronized and its closing brace (119-150), so the reads of one   *)
(* stream never interleave.                                                *)
ReadersExclude ==
  \A t, u \in Threads :
    pc[t] \in {"load", "reading", "draw"} /\ pc[u] \in {"load", "reading", "draw"}
      => t = u

(* A canvas is held by the owner of SurfaceView's lock alone, and none is  *)
(* left when surfaceDestroyed begins: no thread posts to a surface that    *)
(* is gone (lockCanvas, unlockCanvasAndPost, 118 and 153).                 *)
CanvasNeedsSurface ==
  \A t \in Threads : canvas[t] => drawable /\ surfaceLock = t

(* Every thread leaves run() once mRun stays false, the ones nobody joins  *)
(* included; only a new source revives them (115, 196, 205).               *)
StoppedPlayersEnd ==
  \A t \in Threads :
    Live(t) /\ ~mRun ~> ~Live(t) \/ mRun \/ crash # "none"

(* Every call of the UI thread returns: the two locks are never waited for *)
(* in a circle, and a join ends, if the camera answers (82, 119, 211).     *)
UICallsReturn == ui # "idle" ~> ui = "idle" \/ crash # "none"

(* While the view plays on its surface the display keeps changing: no      *)
(* error in reading a frame leaves a lock behind (147-153).                *)
KeepsDrawing ==
  <>[](mRun /\ drawable /\ crash = "none") => []<><<screen' # screen>>_vars
-----------------------------------------------------------------------------
(* Properties under a host that stops one source before it sets the next.  *)

(* The thread _stopPlayback joins is all the threads there are.            *)
NoOrphan == \A t \in Threads : Live(t) => t = thread

(* A player finds a source whenever it looks for one: mIn is set before    *)
(* the thread starts and dropped after it has ended (121, 196-198, 224).   *)
SourceWhilePlaying == crash # "nullSource"

(* Nobody reads, or still has to post, a frame of a source that is closed  *)
(* or replaced (118-153 against 219 and 260).                              *)
ReaderOwnsSource ==
  \A t \in Threads : src[t] # NoStream => src[t] = mIn /\ Unclosed(src[t])

(* When the host has stopped the view no connection is left open: of two   *)
(* sources in a row neither is forgotten (218-225).                        *)
StoppedIsClosed ==
  ui = "idle" /\ ~mRun => \A s \in Streams : ~Unclosed(s)

(* lockCanvas gives null to a player only in the call that destroys the    *)
(* surface: it cannot kill the process at any other time (116-124, 235).   *)
NullCanvasOnlyOnDestroy ==
  crash = "nullCanvas" => ui \in {"destroying", "joining"} /\ ~drawable

(* A host that stops the view before it sets another source: the thread    *)
(* that is joined is every thread there is, it never finds the source      *)
(* null, closed or replaced, dies of a null canvas only while the surface  *)
(* is being destroyed, and a stopped view holds no connection              *)
(* (116-124, 195-240).                                                     *)
OneSourceSafe ==
  /\ NoOrphan
  /\ SourceWhilePlaying
  /\ ReaderOwnsSource
  /\ StoppedIsClosed
  /\ NullCanvasOnlyOnDestroy

(* What is displayed is a frame of the source of the moment, or a canvas   *)
(* left unpainted while there is one; nothing after a stop (MjpegView).    *)
Plays == Picture!Spec
-----------------------------------------------------------------------------
(* Why these invariants hold: they and the parts below are inductive       *)
(* together (MjpegViewDefaultProofs).                                      *)

InMonitor(t) == pc[t] \in {"load", "reading", "draw"}

(* The two locks, under any host: being inside the synchronized is owning  *)
(* the monitor, having a canvas is owning the surface lock.                *)
LocksOwned ==
  \A t \in Threads :
    /\ InMonitor(t) => monitor = t
    /\ canvas[t] => /\ surfaceLock = t
                    /\ drawable
                    /\ InMonitor(t) \/ pc[t] \in {"enter", "post"}
    /\ src[t] # NoStream => pc[t] \in {"reading", "draw", "post"}
    /\ pc[t] \in {"reading", "draw"} => src[t] # NoStream

(* The UI thread in the middle of a call has already told players to stop. *)
Stopping == ui \in {"resuming", "joining", "clearing"}

(* One player at most, and only while it may have something to do.         *)
OnePlayer ==
  /\ Stopping => ~mRun
  /\ \A t \in Threads :
       Live(t) => t = thread /\ mIn # NoStream /\ (mRun \/ ui = "joining")

(* The source of the moment is the one open connection there is.           *)
OneConnection ==
  /\ \A s \in Streams : Unclosed(s) => s = mIn
  /\ mIn # NoStream /\ ui # "clearing" => Unclosed(mIn)
  /\ ui = "clearing" => \A s \in Streams : ~Unclosed(s)
  /\ ui = "resuming" => mIn # NoStream
  /\ mIn # NoStream => mRun \/ Stopping
  /\ \A t \in Threads : src[t] # NoStream => src[t] = mIn

(* The surface goes away in two steps, and a player that is past its test  *)
(* of surfaceDone can only find it gone between them and the join.         *)
Destroying == ui \in {"destroying", "joining"} /\ ~drawable

SurfaceLost ==
  /\ surfaceDone /\ ~drawable => ui = "destroying"
  /\ \A t \in Threads :
       /\ pc[t] = "lock" /\ ~drawable => Destroying
       /\ (pc[t] = "enter" \/ InMonitor(t)) /\ ~canvas[t] => Destroying

(* Everything that is true of a view under a disciplined host.             *)
PlaybackInv ==
  /\ OnePlayer
  /\ OneConnection
  /\ SurfaceLost
  /\ SourceWhilePlaying
  /\ NullCanvasOnlyOnDestroy
-----------------------------------------------------------------------------
(* _stopPlayback, "close the connection" (218), as a promise of progress:  *)
(* who calls it has the connection closed, however long the camera is      *)
(* silent.                                                                 *)
StopClosesInTheEnd ==
  \A s \in Streams :
    ui = "joining" /\ s = mIn ~> conn[s] = "closed" \/ crash # "none"
=============================================================================
