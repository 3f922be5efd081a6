-------------------------- MODULE MjpegViewNative --------------------------
(***************************************************************************)
(* MjpegViewNative.java: the second view, which decodes in native code.    *)
(* The parties are those of MjpegViewDefault; the protocol between them    *)
(* is another one:                                                         *)
(*                                                                         *)
(*   - a thread object is used once: _stopPlayback forgets it, and         *)
(*     `suspending' tells the next setSource to make a new one;            *)
(*   - run() reads the frame before it has a canvas, without any lock,     *)
(*     and into one bitmap that every thread of the view paints from;      *)
(*   - run() returns when the reader reports -1, with mRun still true.     *)
(***************************************************************************)
EXTENDS Integers

CONSTANTS
  Threads,           (* MjpegViewThread objects; a dead one is reused      *)
  Streams,           (* MjpegInputStreamNative objects; likewise           *)
  NoThread,          (* thread == null, a free lock                        *)
  NoStream           (* mIn == null, a bitmap with nothing in it           *)

ASSUME NativeViewAssumption ==
  /\ NoThread \notin Threads
  /\ NoStream \notin Streams

VARIABLES
  host,          (* who calls the view, chosen once: see Hosts             *)
  mRun,          (* isStreaming()                                          *)
  surfaceDone,   (* surfaceCreated has been called                         *)
  suspending,    (* playback was stopped, not merely never started         *)
  mIn,           (* the source                                             *)
  thread,        (* the thread _stopPlayback joins                         *)
  bmp,           (* the stream whose frame the bitmap shows                *)
  ui,            (* where the UI thread stands, "idle" between two calls   *)
  pc,            (* where each thread stands in run()                      *)
  canvas,        (* c # null, for each thread                              *)
  src,           (* the stream each thread reads, or has a frame of        *)
  surfaceLock,   (* SurfaceView's lock: NoThread or its holder             *)
  monitor,       (* synchronized (mSurfaceHolder)                          *)
  drawable,      (* lockCanvas returns a canvas                            *)
  screen,        (* the content last posted to the display                 *)
  conn,          (* the connection below each stream                       *)
  crash          (* the uncaught exception that killed the process         *)

flags == <<mRun, surfaceDone, suspending>>
view == <<flags, mIn, thread, ui>>
player == <<pc, canvas, src, bmp>>
surface == <<surfaceLock, monitor, drawable, screen>>
vars == <<view, player, surface, conn, crash>>
called == <<host, vars>>
-----------------------------------------------------------------------------
(* Any host with any camera; one that asks isStreaming() before it sets a  *)
(* source; and one that does, with a camera whose frames all decode and    *)
(* have the size of the bitmap.                                            *)
Hosts == {"any", "asking", "sound"}

UISteps == {"idle", "starting", "joining", "clearing", "sizing", "hiding",
            "destroying"}

PlayerSteps == {"new", "while", "check", "load", "reading", "lock", "enter",
                "draw", "post", "dead"}

Crashes == {"none", "startedTwice", "nullSource", "nullCanvas", "badHeader"}

(* The promise of MjpegView, with no canvas posted unpainted: an exception *)
(* leaves c null, and there is nothing to post.                            *)
Picture == INSTANCE Playback WITH playing <- mIn, MayGlitch <- FALSE

TypeOK ==
  /\ host \in Hosts
  /\ mRun \in BOOLEAN
  /\ surfaceDone \in BOOLEAN
  /\ suspending \in BOOLEAN
  /\ mIn \in Streams \cup {NoStream}
  /\ thread \in Threads \cup {NoThread}
  /\ bmp \in Streams \cup {NoStream}
  /\ ui \in UISteps
  /\ pc \in [Threads -> PlayerSteps]
  /\ canvas \in [Threads -> BOOLEAN]
  /\ src \in [Threads -> Streams \cup {NoStream}]
  /\ surfaceLock \in Threads \cup {NoThread}
  /\ monitor \in Threads \cup {NoThread}
  /\ drawable \in BOOLEAN
  /\ screen \in Picture!Content
  /\ conn \in [Streams -> {"fresh", "open", "ended", "closed"}]
  /\ crash \in Crashes

Live(t) == pc[t] \notin {"new", "dead"}

(* An object nothing refers to any more, as good as a new one.             *)
FreshThread(t) == t # thread /\ ~Live(t)
FreshStream(s) == /\ s \notin {mIn, bmp}
                  /\ conn[s] \in {"fresh", "closed"}
                  /\ \A t \in Threads : src[t] # s

Unclosed(s) == conn[s] \in {"open", "ended"}

(* After the constructor: init() made a thread that is not started.        *)
Init ==
  /\ host \in Hosts
  /\ mRun = FALSE
  /\ surfaceDone = FALSE
  /\ suspending = FALSE
  /\ mIn = NoStream
  /\ thread \in Threads
  /\ bmp = NoStream
  /\ ui = "idle"
  /\ pc = [t \in Threads |-> "new"]
  /\ canvas = [t \in Threads |-> FALSE]
  /\ src = [t \in Threads |-> NoStream]
  /\ surfaceLock = NoThread
  /\ monitor = NoThread
  /\ drawable = FALSE
  /\ screen = [from |-> NoStream, bit |-> 0]
  /\ conn = [s \in Streams |-> "fresh"]
  /\ crash = "none"
-----------------------------------------------------------------------------
(* The host's calls and the SurfaceHolder callbacks, on the UI thread. A   *)
(* variant that stands before an action is the same code with one mistake  *)
(* in it and no part of Next: it shows that a property below notices it.   *)

(* setSource: mIn is replaced first, playing or not.                       *)
SetSource(s) ==
  /\ ui = "idle"
  /\ FreshStream(s)
  /\ host # "any" => ~mRun
  /\ mIn' = s
  /\ conn' = [conn EXCEPT ![s] = "open"]
  /\ ui' = "starting"
  /\ UNCHANGED <<flags, thread, player, surface, crash>>

(* thread.start(): a Thread object that has run, or runs, refuses.         *)
Starts(t) ==
  IF t = thread /\ pc[t] # "new"
  THEN crash' = "startedTwice" /\ UNCHANGED pc
  ELSE pc' = [pc EXCEPT ![t] = "while"] /\ UNCHANGED crash

(* _startPlayback: the thread there is, or a new one if there is none.     *)
StartPlayback(t) ==
  /\ ui = "starting"
  /\ ~suspending
  /\ IF thread = NoThread THEN FreshThread(t) ELSE t = thread
  /\ mRun' = TRUE
  /\ thread' = t
  /\ Starts(t)
  /\ ui' = "idle"
  /\ UNCHANGED <<surfaceDone, suspending, mIn, canvas, src, bmp, surface,
                 conn>>

(* _resumePlayback: always a new one.                                      *)
ResumePlayback(t) ==
  /\ ui = "starting"
  /\ suspending
  /\ FreshThread(t)
  /\ mRun' = TRUE
  /\ thread' = t
  /\ Starts(t)
  /\ suspending' = FALSE
  /\ ui' = "idle"
  /\ UNCHANGED <<surfaceDone, mIn, canvas, src, bmp, surface, conn>>

(* stopPlayback, as far as the join.                                       *)
StopPlayback ==
  /\ ui = "idle"
  /\ suspending' = (suspending \/ mRun)
  /\ mRun' = FALSE
  /\ ui' = "joining"
  /\ UNCHANGED <<surfaceDone, mIn, thread, player, surface, conn, crash>>

(* The thread has ended, or never began: it is forgotten, and the source   *)
(* closed.                                                                 *)
JoinThreadNotWaiting ==
  /\ ui = "joining"
  /\ thread' = NoThread
  /\ conn' = IF mIn = NoStream THEN conn ELSE [conn EXCEPT ![mIn] = "closed"]
  /\ ui' = "clearing"
  /\ UNCHANGED <<flags, mIn, player, surface, crash>>

JoinThread ==
  /\ ui = "joining"
  /\ thread # NoThread => ~Live(thread)
  /\ thread' = NoThread
  /\ conn' = IF mIn = NoStream THEN conn ELSE [conn EXCEPT ![mIn] = "closed"]
  /\ ui' = "clearing"
  /\ UNCHANGED <<flags, mIn, player, surface, crash>>

ClearSource ==
  /\ ui = "clearing"
  /\ mIn' = NoStream
  /\ ui' = "idle"
  /\ UNCHANGED <<flags, thread, player, surface, conn, crash>>

(* SurfaceView has a surface again, and calls surfaceCreated.              *)
SurfaceCreated ==
  /\ ui = "idle"
  /\ ~drawable
  /\ surfaceLock = NoThread
  /\ drawable' = TRUE
  /\ surfaceDone' = TRUE
  /\ UNCHANGED <<mRun, suspending, mIn, thread, ui, player, surfaceLock,
                 monitor, screen, conn, crash>>

(* SurfaceView is about to lose its surface: it waits for whoever draws,   *)
(* refuses every later lockCanvas, and then calls surfaceDestroyed.        *)
HideSurface ==
  /\ ui = "idle"
  /\ drawable
  /\ ui' = "hiding"
  /\ UNCHANGED <<flags, mIn, thread, player, surface, conn, crash>>

StopDrawing ==
  /\ ui = "hiding"
  /\ surfaceLock = NoThread
  /\ drawable' = FALSE
  /\ ui' = "destroying"
  /\ UNCHANGED <<flags, mIn, thread, player, surfaceLock, monitor, screen,
                 conn, crash>>

(* _surfaceDestroyed, as far as the join in its _stopPlayback.             *)
SurfaceDestroyedKeepingDone ==
  /\ ui = "destroying"
  /\ suspending' = (suspending \/ mRun)
  /\ mRun' = FALSE
  /\ ui' = "joining"
  /\ UNCHANGED <<surfaceDone, mIn, thread, player, surface, conn, crash>>

SurfaceDestroyed ==
  /\ ui = "destroying"
  /\ surfaceDone' = FALSE
  /\ suspending' = (suspending \/ mRun)
  /\ mRun' = FALSE
  /\ ui' = "joining"
  /\ UNCHANGED <<mIn, thread, player, surface, conn, crash>>

(* _surfaceChanged: setSurfaceSize waits for the monitor.                  *)
SurfaceChanged ==
  /\ ui = "idle"
  /\ drawable
  /\ thread # NoThread
  /\ ui' = "sizing"
  /\ UNCHANGED <<flags, mIn, thread, player, surface, conn, crash>>

SetSurfaceSize ==
  /\ ui = "sizing"
  /\ monitor = NoThread
  /\ ui' = "idle"
  /\ UNCHANGED <<flags, mIn, thread, player, surface, conn, crash>>
-----------------------------------------------------------------------------
(* MjpegViewThread.run, one action for each access to what is shared.      *)

Goto(t, step) == pc' = [pc EXCEPT ![t] = step]

TestRun(t) ==
  /\ pc[t] = "while"
  /\ Goto(t, IF mRun THEN "check" ELSE "dead")
  /\ UNCHANGED <<view, canvas, src, bmp, surface, conn, crash>>

TestSurfaceWaiting(t) ==
  /\ pc[t] = "check"
  /\ Goto(t, IF surfaceDone THEN "load" ELSE "wait")
  /\ UNCHANGED <<view, canvas, src, bmp, surface, conn, crash>>

TestSurface(t) ==
  /\ pc[t] = "check"
  /\ Goto(t, IF surfaceDone THEN "load" ELSE "while")
  /\ UNCHANGED <<view, canvas, src, bmp, surface, conn, crash>>

(* mIn.readMjpegFrame(bmp): which stream. No lock is held from here on.    *)
LoadSourceLocked(t) ==
  /\ pc[t] = "load"
  /\ mIn # NoStream
  /\ surfaceLock = NoThread
  /\ surfaceLock' = t
  /\ src' = [src EXCEPT ![t] = mIn]
  /\ Goto(t, "reading")
  /\ UNCHANGED <<view, canvas, bmp, monitor, drawable, screen, conn, crash>>

LoadSource(t) ==
  /\ pc[t] = "load"
  /\ mIn # NoStream
  /\ src' = [src EXCEPT ![t] = mIn]
  /\ Goto(t, "reading")
  /\ UNCHANGED <<view, canvas, bmp, surface, conn, crash>>

(* A frame has arrived and been copied into the bitmap; or it did not      *)
(* decode, and the bitmap shows again what the decoder still has.          *)
ReadFrame(t) ==
  /\ pc[t] = "reading"
  /\ conn[src[t]] = "open"
  /\ \/ bmp' = src[t]
     \/ host # "sound" /\ bmp # NoStream /\ UNCHANGED bmp
  /\ Goto(t, "lock")
  /\ UNCHANGED <<view, canvas, src, surface, conn, crash>>

(* -1: no start marker before the end, or a picture of another size. The   *)
(* thread is over, and nobody is told.                                     *)
GiveUpTelling(t) ==
  /\ pc[t] = "reading"
  /\ host = "sound" => conn[src[t]] # "open"
  /\ src' = [src EXCEPT ![t] = NoStream]
  /\ Goto(t, "dead")
  /\ mRun' = FALSE
  /\ UNCHANGED <<surfaceDone, suspending, mIn, thread, ui, canvas, bmp,
                 surface, conn, crash>>

GiveUp(t) ==
  /\ pc[t] = "reading"
  /\ host = "sound" => conn[src[t]] # "open"
  /\ src' = [src EXCEPT ![t] = NoStream]
  /\ Goto(t, "dead")
  /\ UNCHANGED <<view, canvas, bmp, surface, conn, crash>>

(* An IOException, caught and forgotten.                                   *)
ReadFails(t) ==
  /\ pc[t] = "reading"
  /\ src' = [src EXCEPT ![t] = NoStream]
  /\ Goto(t, "while")
  /\ UNCHANGED <<view, canvas, bmp, surface, conn, crash>>

(* c = mSurfaceHolder.lockCanvas(), and then the monitor.                  *)
LockCanvas(t) ==
  /\ pc[t] = "lock"
  /\ surfaceLock = NoThread
  /\ surfaceLock' = IF drawable THEN t ELSE NoThread
  /\ canvas' = [canvas EXCEPT ![t] = drawable]
  /\ Goto(t, "enter")
  /\ UNCHANGED <<view, src, bmp, monitor, drawable, screen, conn, crash>>

EnterMonitor(t) ==
  /\ pc[t] = "enter"
  /\ monitor = NoThread
  /\ monitor' = t
  /\ Goto(t, "draw")
  /\ UNCHANGED <<view, canvas, src, bmp, surfaceLock, drawable, screen, conn,
                 crash>>

(* c.drawBitmap(bmp), and out of the synchronized block.                   *)
Draw(t) ==
  /\ pc[t] = "draw"
  /\ canvas[t]
  /\ monitor' = NoThread
  /\ Goto(t, "post")
  /\ UNCHANGED <<view, canvas, src, bmp, surfaceLock, drawable, screen, conn,
                 crash>>

(* finally { if (c != null) unlockCanvasAndPost(c); }                      *)
UnlockAndPost(t) ==
  /\ pc[t] = "post"
  /\ surfaceLock' = NoThread
  /\ screen' = Picture!Posted(screen, bmp)
  /\ canvas' = [canvas EXCEPT ![t] = FALSE]
  /\ src' = [src EXCEPT ![t] = NoStream]
  /\ Goto(t, "while")
  /\ UNCHANGED <<view, bmp, monitor, drawable, conn, crash>>

(* What run() does not catch ends the thread, and Android the process: no  *)
(* source, no canvas.                                                      *)
Uncaught(t) ==
  /\ \/ pc[t] = "load" /\ mIn = NoStream /\ crash' = "nullSource"
     \/ pc[t] = "draw" /\ ~canvas[t] /\ crash' = "nullCanvas"
  /\ UNCHANGED <<view, player, surface, conn>>

(* Likewise a header of negative length; but to be read, it must be sent.  *)
BadHeader(t) ==
  /\ pc[t] = "reading"
  /\ host # "sound"
  /\ conn[src[t]] = "open"
  /\ crash' = "badHeader"
  /\ UNCHANGED <<view, player, surface, conn>>

(* The camera closes its end, or the network does.                         *)
EndStream(s) ==
  /\ conn[s] = "open"
  /\ conn' = [conn EXCEPT ![s] = "ended"]
  /\ UNCHANGED <<view, player, surface, crash>>
-----------------------------------------------------------------------------
HostCall ==
  \/ \E s \in Streams : SetSource(s)
  \/ StopPlayback
  \/ SurfaceCreated
  \/ HideSurface
  \/ SurfaceChanged

UIStep ==
  \/ \E t \in Threads : StartPlayback(t) \/ ResumePlayback(t)
  \/ JoinThread
  \/ ClearSource
  \/ StopDrawing
  \/ SurfaceDestroyed
  \/ SetSurfaceSize

(* What ends a read: the camera sends something, or the connection fails.   *)
CameraAnswer(t) ==
  \/ ReadFrame(t)
  \/ GiveUp(t)
  \/ ReadFails(t)
  \/ BadHeader(t)

PlayerStep(t) ==
  \/ TestRun(t)
  \/ TestSurface(t)
  \/ LoadSource(t)
  \/ LockCanvas(t)
  \/ EnterMonitor(t)
  \/ Draw(t)
  \/ UnlockAndPost(t)
  \/ Uncaught(t)

(* Nothing moves in a dead process.                                        *)
Next ==
  /\ crash = "none"
  /\ UNCHANGED host
  /\ \/ HostCall
     \/ UIStep
     \/ \E t \in Threads : CameraAnswer(t) \/ PlayerStep(t)
     \/ \E s \in Streams : EndStream(s)

Spec == Init /\ [][Next]_called

(* The scheduler runs what can run, and a lock that is free again and      *)
(* again is got in the end. Nothing makes a camera answer: a read has no   *)
(* timeout, and no step that ends one is fair, not even by an exception.   *)
PlayersRun ==
  /\ SF_vars(crash = "none" /\ UIStep)
  /\ \A t \in Threads : SF_vars(crash = "none" /\ PlayerStep(t))

FairSpec == Spec /\ PlayersRun
-----------------------------------------------------------------------------
(* Properties.                                                             *)

(* Under any host. The thread that is joined is every thread there is: a   *)
(* second setSource is refused by Thread.start before it can make one      *)
(* (203-206, 284-289), and one that follows a stop finds none.             *)
NoOrphan == \A t \in Threads : Live(t) => t = thread

(* Under any host. The source is dropped only when nobody reads (228-244). *)
SourceWhilePlaying == crash # "nullSource"

(* Under any host. The canvas a player asks for after a long read (139) is *)
(* null only while the surface is being destroyed: at no other time can    *)
(* it end the process.                                                     *)
NullCanvasOnlyOnDestroy ==
  crash = "nullCanvas" => ui \in {"destroying", "joining"} /\ ~drawable

(* All of this: there is one thread at most, it never finds the source     *)
(* gone, and a null canvas only while the surface is destroyed             *)
(* (MjpegViewNative.java:139, 203-206, 228-244).                           *)
AnyHostIsServed ==
  TypeOK /\ NoOrphan /\ SourceWhilePlaying /\ NullCanvasOnlyOnDestroy

(* A host that asks first never starts a thread twice, whichever way the   *)
(* last playback ended: by a stop, by the surface, or by a -1 that nobody  *)
(* noticed (131-134).                                                      *)
StartsOnce == crash # "startedTwice"

(* Nobody reads a source that is closed or replaced, although the read is  *)
(* under no lock (129 against 241 and 284).                                *)
ReaderOwnsSource ==
  \A t \in Threads : src[t] # NoStream => src[t] = mIn /\ Unclosed(src[t])

(* A stopped view holds no connection.                                     *)
StoppedIsClosed ==
  ui = "idle" /\ ~mRun => \A s \in Streams : ~Unclosed(s)

(* All of this under a host that asks first (MjpegViewNative.java:129,     *)
(* 131-134, 203-206, 241-244).                                             *)
AskingHostIsServed ==
  host # "any" => StartsOnce /\ ReaderOwnsSource /\ StoppedIsClosed

(* Under such a host, if frames are sound, what is displayed is a frame of *)
(* the source of the moment, although the bitmap outlives it: the view     *)
(* implements Playback (MjpegViewNative.java:129-173, 239-244).            *)
SoundPlays ==
  Picture!Init /\ [][host = "sound" => Picture!Next]_<<mIn, screen>>

(* The surface can be taken away however long the camera is silent: no     *)
(* read is made under SurfaceView's lock (129 before 139). Only what a     *)
(* camera sends, a header the reader cannot stand, may come first and end  *)
(* the process; no crash of the view itself does.                          *)
HidingNeedsNoCamera ==
  ui = "hiding" ~> ui = "destroying" \/ crash = "badHeader"
=============================================================================
