# A verification of the camera viewer

The repository is an Android application that shows the MJPEG stream of a
camera (`src/mjpeg-view`, a library, with a JPEG decoder in C: libjpeg 8d and a
JNI layer over it) and talks to the camera and to S3 through AWS IoT
(`src/app`). This directory models it in TLA+, checks the models on small
instances with TLC, and proves what matters most with TLAPS.

## Inventory

| Part | State it keeps | Operations | Interacts with |
|---|---|---|---|
| `MjpegViewDefault` | `mRun`, `surfaceDone`, `mIn`, `thread`; in the thread `c`, `bm` | `setSource`, `stopPlayback`, `isStreaming`, three surface callbacks, `run` | UI thread, drawing threads, SurfaceView's lock, the holder's monitor, the stream |
| `MjpegInputStreamDefault` | the buffered stream with its mark, `mContentLength` | `readMjpegFrame` | the connection; called by the drawing thread |
| `MjpegSurfaceView` | the view it chose from the layout | forwards every call | host activity, SurfaceHolder |
| `MjpegViewNative` | the same fields, `suspending`, `bmp` | the same, another stop and restart protocol | the same, and ImageProc |
| `MjpegInputStreamNative` | kept `header`, `frameData`, previous lengths | `readMjpegFrame(bmp)` | ImageProc through JNI |
| `ImageProc.c` | global `rgb`, `IMG_WIDTH`, `IMG_HEIGHT` | `pixeltobmp`, `freeCameraMemory` | libjpeg |
| `Mjpeg` | none | `open(url, timeout)` on an I/O thread, answer on the UI thread | HttpURLConnection, RxJava |
| `MainActivity` | `Videolink`, `snapShotPath`, `isAutoEnabled` | life cycle, `subscribe`, `loadIpCam`, `beginDownload`, clicks | `Mjpeg`, the view, CamIOT's MQTT manager, TransferUtility |
| `CamIOT` | `connected`, `mActivity` | connection callback on the MQTT thread, `subscribeNotif` | MainActivity, NotificationService |
| Snapshots | files under `SmartCCTV` | download, completion listener | S3 |
| libjpeg: calls | `global_state`, scan and row counters of the object | the `jpeg_*` calls of decompression, `consume_input` | data source, controllers |
| libjpeg: markers | the tables, frame and scan parameters of the object | `write_*`, `read_markers`, `get_*`, `save_marker`, `skip_variable` | data source and destination |
| libjpeg: entropy coding | registers, bins, EOB run, predictions, restart counters | `encode_mcu*`, `decode_mcu*`, `finish_pass`, `process_restart`, Huffman tables | markers, coefficient controller |
| libjpeg: DCT | divisor and multiplier tables | 33 forward and 33 inverse routines, their selection, quantization | coefficient controller |
| libjpeg: rows | the buffers of the main and postprocessing controllers, upsampler counters | `process_data`, `upsample`, `post_process_data` | coefficient controller, application |
| libjpeg: virtual arrays | window, backing store | `request`, `realize`, `access` | coefficient controllers, quantizers |

What is hard in it: the view's fields are shared by the UI thread and by every
drawing thread without synchronisation; the UI thread joins a thread that may
be blocked on the network; the surface is taken away by Android at any time;
connections answer late or out of order; MQTT callbacks race the activity life
cycle; the frame readers recover from damaged streams only by accident. In the
decoder every routine may be suspended at any byte or row and is called again;
damaged data have to cost no more than their restart interval; and arithmetic
written out by hand for 32 block sizes has to agree with one formula. Each of
these is a line of `hazards` in `PROJECT.json`.

What makes each part correct:

- *Views*: reads of a stream never interleave; nothing is drawn on a surface
  that is gone; what is displayed belongs to the source of the moment; a stop
  ends every thread and closes every connection; no call freezes the UI.
- *Readers*: every image of a sound stream comes out whole, once and in order;
  damage costs the damaged image and no other; reading goes on to the end.
- *Native decoder*: what is returned is one whole picture; nothing outside `rgb`
  is touched; decoding ends.
- *Video session*: the last address received is the one that plays, in an
  activity that is in the foreground, over an open connection.
- *MQTT session*: an activity that is created while connected is subscribed; a
  callback never uses an activity that is gone.
- *libjpeg*: what was encoded is decoded, in whatever pieces it comes; damage
  is contained; an application that follows the manual gets the whole picture;
  every transform is the transform it says it is; a virtual array is an array.

## Modules

| Module | What it is |
|---|---|
| `Playback` | What a view promises: at most one source; only its frames are shown |
| `MjpegViewDefault` | The default view: its actions, fairness, properties |
| `MjpegViewDefaultProofs` | Theorems about it |
| `MjpegViewNative`, `MjpegViewNativeProofs` | The native view; theorems about it |
| `MjpegInputStreamDefault` | The default frame reader, step by step |
| `MjpegInputStreamNative` | The native one, over the same variables |
| `StreamReaders` | Both, each before its own cameras |
| `DefaultReaderProofs`, `StreamReadersProofs` | What the default reader keeps; the native one, and the theorems about both |
| `VideoSession` | `MainActivity` as host of a view, and `Mjpeg.open` |
| `CamIotSession` | The MQTT callbacks, the life cycle, the subscriptions |
| `Snapshots` | The downloads of `MainActivity` and their one path field |
| `MainActivityProofs` | What the three keep, and the theorems about them, of the specification TLC checks |
| `RgbImage` | What the caller of `pixeltobmp` is promised about `rgb` and the bitmap |
| `ImageProc`, `ImageProcProofs` | The JNI decoder as a client of a decompressor; theorems about it |
| `Decompressor` | The calls of libjpeg's decompressor as functions of its object |
| `DecompressorApi` | An application that makes them, as the manual says or anyhow |
| `MarkerWriter`, `MarkerReader`, `MarkerTransfer` | Markers: either side, and a file on its way between them |
| `NaturalOrder` | The order of coefficients in a table (used by the two above) |
| `HuffmanTables`, `TableTransfer` | Tables as pure operators, and the life of one |
| `CodedScans` | What both entropy coders share: scans, damage, what a decoder should know |
| `HuffmanCoding`, `ArithmeticCoding` | Encoder and decoder on the two sides of a line |
| `IdctKernels`, `InverseDct` | The one-dimensional kernels; the routines made of them |
| `FdctKernels`, `ForwardDct` | The same forward, with divisors and quantization |
| `Cosines` | The reference the DCTs are compared with; nothing in it is from the code |
| `RowImage` | What an application is promised about the rows it reads, whatever brings them |
| `RowPipeline`, `RowPipelineProofs` | Which row goes where: main controller, upsampler, postprocessor; theorems about it |
| `PlainArray` | What a virtual array promises |
| `VirtualArray`, `VirtualArrayProofs` | How `jmemmgr.c` keeps one; theorems about it |
| `SampleFiles` | Files to try the markers on |
| `MC...` | Instances for TLC |

An operator or action that stands before another and is used by nothing is the
same code with one mistake in it, named for the mistake; it is no part of a
next-state relation and shows that a property notices the mistake.

### MjpegViewDefault

The UI thread runs one host call or surface callback at a time. `ui` says where
it stands inside a call that other threads can see in the middle:

- `SetSource` -> `ResumePlayback`: `_setSource`, then `_resumePlayback` with
  `init()`. The constructor has left `resume` true, so `_startPlayback` is not
  reachable.
- `StopPlayback` -> `JoinThread` -> `ClearSource`: `_stopPlayback`, cut at the
  join and before `mIn = null`.
- `HideSurface` -> `StopDrawing` -> `SurfaceDestroyed` -> `JoinThread` ->
  `ClearSource`: SurfaceView waits for its lock and refuses further canvases,
  then calls `_surfaceDestroyed`.
- `SurfaceCreated`; `SurfaceChanged` -> `SetSurfaceSize`, which takes the
  monitor.

Each `MjpegViewThread` has a `pc`, and `run()` has one action for each access
to something shared: `TestRun`, `TestSurface`, `LockCanvas`, `EnterMonitor`,
`LoadSource` (the read of the field `mIn`), `ReadFrame` or `ReadFails` or
`BadFrame`, `Draw`, `UnlockAndPost`. `NullPointer` is what `run()` does not
catch, a null source or a null canvas; with `BadFrame` (a missing start marker,
a bitmap that does not decode) it sets `crash`, after which nothing moves, as
Android ends the process.

External, modelled from how the code uses it: SurfaceView's lock and whether it
has a surface (`surfaceLock`, `drawable`), the display (`screen`), and the
connection below a stream (`conn`). `screen` holds whose frame is displayed and
one alternating bit, so that posting is visible.

The fields are plain Java fields. Every iteration of the loop contains calls,
so the Android compiler does not keep them in registers across iterations, and
`start` and `join` order everything a thread that is joined can see. A thread
nobody joins may see `mRun`, `mIn` and `surfaceDone` late or in another order;
since it may also be descheduled between any two of its reads while the UI
thread goes through whole calls, interleaving single accesses reaches the same
outcomes.

`OneSourceAtATime` is the host. FALSE: it may call `setSource` at any time, and
`MainActivity` does, whenever an address arrives while a video plays
(`MainActivity.java:123-175`). TRUE: it stops first.

Under any host: `ReadersExclude`, `CanvasNeedsSurface`, `LocksOwned` (their
inductive form), `StoppedPlayersEnd`, `UICallsReturn`, `KeepsDrawing`. Under a
host that stops first: `OneSourceSafe`, whose parts are `NoOrphan`,
`SourceWhilePlaying`, `ReaderOwnsSource`, `StoppedIsClosed` and
`NullCanvasOnlyOnDestroy`; `PlaybackInv`, their inductive form; and the
refinement `Plays`. All of the second list fail under any host; `view_leak`
shows it for the connection.

`Playback` is refined with `playing <- mIn` and `MayGlitch <- TRUE`: the view
does post canvases it has not painted, after an `IOException`.

### MjpegViewNative

The parties are the same; the protocol is not. A Thread object is started once
(`suspending` asks for a new one), the frame is read before there is a canvas
and under no lock, all threads of a view paint from one `bmp`, and `run()`
returns on -1 with `mRun` still true. Three hosts: *any*; one that *asks*
`isStreaming()` before it sets a source; the same with *sound* frames. Under any
host there is one thread and no null source: a second `setSource` while playing
ends in `IllegalThreadStateException` rather than in an orphan. `Playback` is
refined without glitches, under the third host.

### The frame readers

A stream is a sequence of cells: FF, D8, D9, another byte, a whole
`Content-Length` line, or something `Properties.load` refuses. The camera sends
parts, each a head and a body, and then the connection ends; a truncated stream
is just another stream. `readMjpegFrame` is four actions: `FindStart` (mark and
search), `ReadHeader` (reset, read, parse), `FindEnd` (the search after a
`NumberFormatException`, and the reset after it), `ReadFrame` (skip and read).
`Fail` leaves the call with an exception; "crash" is one that is not an
`IOException`. The buffer and the mark limit have the same size, so a mark is
lost exactly when more than that many bytes have been read after it
(`MarkedAt`). `SeqIndex` is the search as the code does it; the properties use
the definition of an occurrence (`Occurrences`), and name where the two differ:
a body with FF FF D9 is sound only if its length is announced. A head is text,
so that it has no FF: a body after one would not be seen (`IsImage`).

`AnnouncedFramesAreWhole` says of an announced sound part that it is not cut
short, and only of one without FF FF that it ends where it should. The weaker
half is what the code does: the header that is parsed is everything since the
mark, and when a damaged part before it has taken the `Content-Length` line into
its own frame, the end marker is searched for after all, and FF FF D9 is passed
over.

The native reader differs where a length is not announced: it searches around
the length of the last frame, with the field `headerLen`, which a local variable
hides and which is therefore always -1 (`HeaderLenField`), and falls back to a
search from the mark. `Similar` and `SameHeads` name the cameras for which that
still gives every image but the first: the lengths change by less than half, and
the heads all have one length. `NeverTooShort` lets the lengths change as they
like, but not a body have a `Content-Length` line in it (`NoLines`): after a long
image a search that finds nothing leaves the stream beyond the mark, where
`reset` cannot bring it back from, in the middle of a body. That is harmless
until what is left of that body is taken for a head and has such a line. A search
that does find the marker, but beyond the mark, fails as well, and leaves its
length in `mContentLength`, which is assigned before `reset` throws (225, 226;
`FailKnowing`). The next search is then made around a length no frame had, and
may miss an image that one around the length before would have found: with heads
of 2, bodies of 12, 4, 12 and 9 and a mark of 14 only the first image is returned.

### MainActivity, Mjpeg, CamIOT

`VideoSession`: each opening lives on an I/O thread that is blocked as long as
the camera likes, under a timer that gives it up without ending that call, and
in a queue to the UI thread. The view is `MjpegViewDefault` seen from outside: a
source, and whether it streams. `onStop` stops the view a second time, as the
surface goes.

`CamIotSession`: `onStatusChanged` writes `connected` and then reads
`mActivity`, twice; `onCreate` writes `mActivity` and then reads `connected`;
`onStop` clears `mActivity`. The steps are sequentially consistent, which plain
fields do not promise; between each write and the read after it the code calls
into Android, the layout on one side and the MQTT manager on the other, which
synchronise. `NoOvertaking` is the assumption that a callback of the MQTT
thread is not slower than a rotation: without it `subscribe` of the old
instance comes after that of the new one, which then hears nothing.

`Snapshots`: `OneAtATime` says that the camera announces a snapshot when the
last one has come. With two under way the first to complete shows the other's
file, and the other shows nothing.

### ImageProc and the decompressor

`Decompressor` has the states of `jdapimin.c` and `jdapistd.c`, the input
controller, the passes of `jdmaster.c` and as much of the coefficient and main
controllers as decides what a call returns. The data are a sequence of items,
markers and rows of MCUs; an item arrives as a whole. A line of the picture is
known by the rows of MCUs that went into it, so that a line of an old scan, of
the image before, or of padding is told from the right one. `DecompressorApi`
lets items come one by one between the calls of an application, which repeats a
call that was suspended; a suspended `jpeg_start_output` is repeated with the
same scan number. In place of a liveness property there is `NeverWaitsInVain`: a
call is suspended only when it has used up what has come, so that progress of
the application is that of its source.

`ImageProc` calls a decompressor with a source that has the array and never
more. The four calls it makes are parameters of the module; in the runs they are
those of `Decompressor`. What can be proved about `ImageProc` rests on what is
assumed of them, `FramesAssumption`: a frame that has got past its header and its
start is in a set `Decoding`, each call on a member of which reads a line, counts
it and gives a member again. TLC computes that set from `Decompressor` and checks
the assumption for the frames of the run. `camera` says which frames come: of one
size and sound, with the memory freed between them ("sound"); of one size or not
decodable ("odd"); of other sizes, none higher than `rgb` ("sizes"). `rgb` is a
sequence of pixels, each the frame and the line it is of; `wild` records an access
outside it, after which the contents are no longer followed.
Modelled besides a frame that decodes: the error exit at every call, arrays that
end at every item, frames of other sizes than the first, and `freeCameraMemory`
between two frames.

### Markers and entropy coding

`MarkerWriter` makes the bytes of a file from the parameters of an image, and
`MarkerReader` has every routine of `jdmarker.c` as a function of the object and
the bytes at hand: a routine that meets the end of what has come leaves the
restart point, keeps what it has set, and is called again. `MarkerTransfer` runs
the one into the other, over files with coded data left out and other bytes in
their place. Files of the writer are checked for what they say; damaged files
for one thing, that the cuts do not matter.

`HuffmanCoding` and `ArithmeticCoding` have an encoder and a decoder in one
module, and an image of a few blocks on its way between them through every scan
of a sequential and of a progressive script. Damage is a byte changed or taken
out in the middle of a restart interval. The bit buffer of the Huffman encoder
is a sequence of bits; the decoder's is kept as the code does, filled by bytes
and refilled when short, because suspension is decided there. The state a
suspended MCU puts back is all but the coefficients, and those of a refinement
are made zero again (`Undone`). `TableTransfer` follows a table: counted, made
(`jpeg_gen_optimal_table`, sections K.2 and the adjustment), sent, perhaps
damaged, derived.

### The transforms

Each of the 1- to 16-point kernels is written once, from the code of the pass
where it occurs first, with its names and constants; `InverseDct` and
`ForwardDct` apply them to columns and rows with the shifts, the number of
columns, the clamping and the shortcuts of each routine, select routines as the
managers do, and quantize. They are compared with `Cosines`, which has its
numbers from the Taylor series. Inverse: within one of the exact sample (two for
the fast routine, with coarse tables). Forward: within half a quantization step
and three eighths.

### RowPipeline and VirtualArray

`RowPipeline` knows a row of samples by its number in its component, and an
output row by the rows it was made of, with the neighbours the upsampler could
see. What the application has of it, and the promises about that, are `RowImage`. With the upsamplers of this version no context rows are asked for
(`jdsample.c` of 8d never sets `need_context_rows`), so that half of `jdmainct.c`
is dormant; it is modelled and run with an upsampler that needs them.

`VirtualArray` is `jmemmgr.c` for one array, strip by strip: `Check` -> `Flush`
chunk by chunk -> `PlaceWindow` -> `Load` chunk by chunk -> `Define` -> `Give`.
Its view as a `PlainArray` takes a row from the window or from the file,
whichever has it now.

## Runs

Several runs check modules that share no state side by side: a variable (`part`,
`reader`, `host`) says in the initial state which of them a behaviour is of, the
others rest, and each property is the conjunction of what is checked of its
part. Such a run is several runs in one, and nothing is concluded from the
parts being together.

| Run | Bounds | Shows |
|---|---|---|
| `view_any_host` | 3 threads, 3 streams | locks and exclusion with two orphans and a joined thread |
| `view_one_source` | 3 threads, 3 streams | the invariants and the refinement under a disciplined host |
| `view_any_host_live` | 2 threads, 2 streams | UI calls return, stopped threads end, the display keeps changing |
| `view_leak` | 2 and 2 | violation: a connection survives `stopPlayback` |
| `view_silent_camera` | 2 and 2 | violation: a silent camera keeps `stopPlayback` from closing |
| `native_view` | 2 threads, 3 streams, three hosts | one thread, no thread started twice, no connection left open, the refinement; the surface can be hidden whatever the camera does |
| `stream_readers` | up to 3 parts, `FRAME_MAX_LENGTH` 7, default reader; up to 4 and 14, native one | which frames come out of sound and damaged streams; both get to the end |
| `main_activity` | 3 openings of 2 links; 3 instances and 2 lost connections; 4 downloads to 2 names | every order of the callbacks of video, subscriptions and snapshots |
| `decoding` | see below | virtual arrays, decompressor, ImageProc, rows, inverse DCT |
| `proc_cut` | frames of 2 by 3 | violation: a frame that is cut short |
| `coding` | see below | entropy coding, tables, markers, forward DCT |
| `coding_narrow` | blocks 12 and 14 wide | violation: two forward DCT kernels |

*Views.* Threads and streams are not counters: a thread that is dead and no longer
`thread`, and a stream that is closed and referred to by nobody, are reused, so
behaviours are unbounded. What the bounds limit is how many orphans and leaked
streams exist at once: with three of each, two orphans compete with the thread
of the moment for both locks, which is every pair of roles the properties
mention; the liveness runs have one orphan beside it. Symmetry is used in
`view_any_host` alone. `view_leak` and `view_silent_camera` need two streams
and one. The native view has no orphans, so that two threads are the new one and
the one before it.

*Readers.* The bounds put every comparison on both sides: images of 4 and 5
cells and heads of 0 to 2 in a mark of 7, so that parts fit exactly, do not fit,
and leave a rest that fits or not (for the default reader the theorems below hold
for every size); announced lengths are right, short, too long,
negative, unreadable or missing. The native reader's search window is half the
last length; images of 4, 7, 9 and 12 cells are inside and
outside it, and the longest take a search beyond the mark.

*Session.* Three openings are one that plays, one under way and one that crosses
it. Three instances of the activity are one destroyed, one replaced and one on
the screen. Four downloads let a name be used again after one that failed.

*Decoding.* An array of 3 rows in strips of at most 2, one row to a chunk, with
room for it or not, which makes every pair of strips overlap, touch or miss; the
theorems below hold for every size. Images of two or three rows of MCUs, with
one to three scans, single or in sequence, and broken ones; the source may be
`Ahead` = 3 items in front of what was read, more than a scan. Pictures of 2 by
3 for ImageProc, and of other sizes; frame numbers come round after `Ids` = 3. Row
images of 1 to 20 rows, so that the last iMCU row ends at every row of a group.
All 32 scaled sizes, with coefficients on every frequency of the first row,
column and anti-diagonal, and two blocks without zeros.

*Coding.* Huffman: 4 images of 3 or 4 blocks of 21 coefficients (runs of more
than 15 zeros), restart intervals 1 and 3, bytes one by one or at once, at most
30 correction bits and EOB runs of 3 instead of 937 and 32767. Arithmetic: 5
blocks of 3 by 3. Tables: four symbols counted up to 3 times more, and counts
like Fibonacci numbers that would make codes of 9 to 37 bits, so that the limits
of 16 and 32 are met. Markers: the files of `SampleFiles`, one byte at a time or
64. Forward DCT: every size but those 12 and 14 wide, and frames of several
components.

Deadlock is not checked where a system may stop: a process that has crashed, a
reader at the end, a picture or table that has arrived. `proc_cut` stops at its
violation.

### Findings

- `view_leak`: `_setSource` and `_resumePlayback` replace `mIn` and `thread`
  without stopping or closing; the connection replaced is never closed.
- `view_silent_camera`: `_stopPlayback` joins the thread before the close that
  would end its read, and connections have no read timeout.
- `proc_cut`: `processimage` does not look at the number of lines
  `jpeg_read_scanlines` returns. If a frame is cut short after its header,
  `output_scanline` stays where it is and `y` runs on.
- `coding_narrow`, twice: in the first pass of `jpeg_fdct_12x12` (and `12x6`) and
  of `jpeg_fdct_14x14` (and `14x7`) one term misses its scaling by
  2^`CONST_BITS`. The second passes, and the same kernels elsewhere, have it.

Four more were met while modelling, in code paths this application does not
take, and no run is about them:

- `jdpostct.c:224`: with strips of three or four rows the check for the bottom
  of the image in the second pass of two-pass quantization leaves out
  `next_row`: when the application takes the last strip in pieces, a row below
  the image is put out. The run keeps two-pass images to strips of at most two
  rows, where the application has all its rows before this can happen, and the
  theorem assumes as much.
- `jdmainct.c:428`: when the last iMCU row holds fewer rows of a component than
  a row group, the group before it, which was postponed, sees padding in its
  lower context; the comment at the head of the file promises a whole row group
  of rows duplicated from the last real one. `set_bottom_pointers` comes later.
  `NeighboursInPlace` asks only for the nearest row, which is right.
- `jcdctmgr.c:356`: an 8 x 8 component of the fast routine and a component of
  another size that share a quantization table share its divisors, those of
  whichever comes last, though they need different ones; the comment says this
  is "not a big deal". No frame of the run has two such components.
- `jchuff.c:1350`: `jpeg_gen_optimal_table` for a table nothing was counted for
  would read below the first entry; the code calls it for a table in use only,
  and one with a count of at least one.

### Fairness

`FairSpec` of the default view gives strong fairness to the UI thread in the
middle of a call and to each player; `PlayersRun` does the same for the native
one. A step that waits for no lock stays enabled, so for it this is
weak fairness: the scheduler runs what can run. For the two locks it says that
one that becomes free again and again is got in the end; neither is a fair lock,
but the player lets go of both in each frame. Host calls are never required to
happen, nor the end of a connection. `AnsweringSpec` adds that a read ends, with
a frame or an exception. The code does not make it so (no `setReadTimeout`),
which is what `view_silent_camera` is about; the liveness properties of
`view_any_host_live` are promises for cameras that answer. `HidingNeedsNoCamera`
of the native view needs no such assumption: every step that ends a read, with a
frame, with -1, with an exception that is caught or with one that is not
(`BadHeader`), is in `CameraAnswer`, which has no fairness. A camera that sends a
header the reader cannot stand may end the process while the surface is being
hidden, and that is the only way out of the promise; a crash of the view itself
is none.

The readers: the drawing loop calls again. `VideoSession`: the timer goes off
and the UI thread takes what is queued; nothing makes a camera answer.
`ImageProc`: the thread goes on with a call it is in (`CallGoesOn`), and
`RowPipeline`: data do come (`DataCome`). These two are written out rather than as
WF: both say of an action that is enabled as long as there is something left to
do that it is taken again and again or nothing is left, which is weak fairness
of it, and TLC need not work out in each state whether it is enabled.

## Proofs

`MjpegViewDefaultProofs` proves, for every set of threads and of streams:

- `TypeCorrect` and `LocksOwnedAlways`: `TypeOK` and `LocksOwned` are inductive,
  whatever the host does. `ReadersExclude` alone is not: it needs that being
  inside the synchronized block is owning the monitor. `CanvasNeedsSurface`
  needs at which steps a canvas can be held. Both follow
  (`ReadersExcludeAlways`, `CanvasNeedsSurfaceAlways`).
- Assuming `OneSourceAtATime = TRUE`, `PlaybackInvAlways`: `PlaybackInv` is
  inductive relative to the two above. Its parts are `OnePlayer` (a live thread
  is `thread`, has a source, and is either to run or about to be joined),
  `OneConnection` (the open connection is the one under `mIn`, until it is
  closed) and `SurfaceLost` (a player past its test of `surfaceDone` finds the
  surface gone only between `StopDrawing` and the join). They need each other:
  a connection can be closed because no player is left, and no player is left
  because the only one has been joined.
- From it `OneSourceSafeAlways`, and `PlaysAlways`, the refinement of
  `Playback`: `SetSource` is `Play`, `ClearSource` is `Stop`, `UnlockAndPost` is
  `Show`, `Glitch` or no step, and every other action is no step.

`MjpegViewNativeProofs` proves of the other view, for the same:

- `AnyHostIsServedAlways`: whatever the host and the camera do, `AnyHostIsServed`.
  `ServedInv` is inductive relative to `TypeOK`: `Holding` (which steps of `run`
  hold a stream, a canvas with the surface lock, the monitor), `OnePlayer` (a
  live thread is `thread`, and `suspending` means that a stop has forgotten it
  or is about to) and `SurfaceLost`. Unlike the default view, this one needs no
  discipline of the host to have one thread only, as a second start is refused.
- `AskingHostIsServedAlways`, for a host that asks first: `AskedInv` adds that a
  thread which is neither running for a source nor forgotten has
  never been started, and that the open connection is the one under `mIn`.
- `SoundPlaysAlways`, if its frames are sound too: the refinement of `Playback`.
  `BitmapIsFresh` says that what a thread is about to post is still
  the frame it read, although all threads of the view share one bitmap.

`MainActivityProofs` is about `MCMainActivity`, the specification that TLC
checks: each of its parts takes the steps of one session, with one value of the
constants that name the surroundings, and leaves the others alone. It proves:

- The video, for any number of openings and links (`SessionAssumption`):
  `OnlyOpenVideoPlaysAlways` from `OpeningInv`, the one way an opening goes; and
  with links in turn `LatestAddressPlaysAlways` from `LatestInv`: whatever is in
  flight is for the last link, and as long as an older one plays something is in
  flight, or the user has been told. `LatestInv` is inductive relative to
  `OpeningInv`, which is proved for any camera and holds of this one too
  (`InTurnIsVideo`).
- The subscriptions, for any number of activities and of lost connections
  (`CamIotAssumption`): `CallbacksFindTheActivityAlways` from `ActivityInv`, what
  the field `mActivity` says of the life of the activities; and when none is
  destroyed while the callback subscribes it (`NoOvertaking`)
  `CreatedIsSubscribedAlways` from `SubscribedInv`: whatever topic the activity in
  the field lacks, one of the two threads is about to give it. That is what
  writing one field before reading the other's buys, and it does not follow from
  any of the three steps of either thread alone. `SubscribedInv` is inductive
  relative to `ActivityInv`, as for the video (`InTurnIsCamIot`).
- The snapshots, any number that come one at a time (`SnapshotsAssumption`):
  `ShowsTheLastSnapshotAlways` from `SnapshotInv`: until a download has ended the
  field names its file, and what it has written nobody has touched.

`DefaultReaderProofs` and `StreamReadersProofs` prove, for every size of the
buffers and every camera: any cells, any number of parts and of announced lengths
(`ReadersAssumption`):

- `ExactlyTheImagesAlways` and `DamageIsConfinedAlways`, from an invariant of
  three parts. `Reading` holds of any stream: a step that has a header stands
  before a start marker. `Whole`: a frame that begins with the body of a sound
  announced part covers it. `InOrder`, for a camera whose parts are sound or
  announce too little (`Confined`): the frames so far are what was to be taken
  of the first parts (`Taken`), and the reader stands where that leaves off
  (`Reached`). `InOrder` needs the lemma `Ahead`: what a short part leaves behind
  has no start marker and no line, so the next marker is that of the next part,
  within the mark, and the last line in front of it is its own.
- `NativeImagesAlways`, from an invariant for any camera and one for each kind of
  camera the native reader is made for. `NativeReading` holds of any stream,
  whatever the reader finds around a length that the hidden field has displaced:
  it never reads past the end, and what it returns begins with a start marker.
  `ExactInOrder`: lengths are announced. `Evenly`: they are not, and change
  little; the window around the last length contains the end of the image and no
  end before it, although the first frame takes in the head of the second part,
  so that the next search begins behind that head (`Passed`). `LongEnough`: they
  change as they like, and a window may begin or end anywhere, also in a later
  part; between two frames the reader is outside the bodies (`Placed`) unless the
  length it knows is so large that a search leads out of the mark (`Wide`): a
  search that fails there having found a marker stands behind an image, whatever
  length it leaves, and one that gives up keeps the length that is too large; and
  a length it finds comes at least to the end of the image that was begun
  (`Reaches`). `NoLines` came out of this proof: without it the step that reads a
  header within a body breaks `LongEnough`, and `NeverTooShort`.
- What recursive definitions compute, here: `SeqIndexDef` (the automaton of the
  search), `Bodies` (where parts lie) and `Flattened` (`FlattenSeq`). The
  induction theorems of the library take an operator, which no prover at hand
  can instantiate; `SetInduction` takes a set and serves as well, and
  `Recursion` gives the function whose existence a recursive definition
  presupposes. `SearchFound` and `SearchNothing` then say what the search of
  the code finds in terms of the stream alone.

`VirtualArrayProofs` proves, for every height of the array and of a strip, every
chunk, every amount of memory and every set of values (`ArrayAssumption`):

- `Invariant`: `Inv` is inductive. `TypeOK` and `WindowFits` bound the window;
  `HeldInWindow` and `AccessInHand` say what holds in the middle of an access;
  `Saved` is the part that carries the weight: while nothing is dirty, what is
  defined and in the window is in the file, and while rows are being flushed or
  loaded that is so of the rows already passed (`i`, `file_offset`). The height
  of the window comes from the divisions of `realize_virt_arrays`
  (`WindowHeight`), the progress of a transfer from the four bounds of a chunk
  (`ChunkBounds`). `HeldInWindowAlways` names its most useful part.
- `NoVirtualBugAlways`: `JERR_VIRTUAL_BUG` is never reported: an array whose
  window is not the whole array has a backing store.
- `PlainArrayImplemented`: the refinement. Flushing, placing and loading the
  window are no steps of `PlainArray` (`Inv` shows that no content changes);
  `Define` is where rows become defined, zeroed or not.

`ImageProcProofs` proves `WholePictureAlways` and `StaysInRgbAlways`, for every
decompressor whose calls are as `FramesAssumption` says, every set of frames and
of bitmaps, and frames of every size. `ProcInv`, which was checked with TLC on the
cameras of the run first, says what `mycinfo` is at each step of a call
(`OfAFrame`, `InLines`), that `rgb` has the size of the first frame for as long as
it is allocated, and that of no bitmap before (`Sized`), that the lines up to `y`
are those of this frame (`LinesSoFar`) and that between two frames all of them
are those of the last that decoded (`LastFrame`). The two properties need each
other's part of it: a line stays inside `rgb` because `y` is in step with
`output_scanline`, and the picture is whole because every line is written where
the one before ended. `SoundIsRead` is what makes `freeCameraMemory` harmless: the
next frame allocates `rgb` before anything is copied, if it decodes. With an
array that is cut short the assumption fails, and so do the properties
(`proc_cut`).

`RowPipelineProofs` proves `RightRowsAlways`: `RightRows` for every height, every
height of row groups and number of them in an iMCU row, each upsampler and
postprocessor, every cut of the image into calls and every suspension
(`ConfigsAssumption`). `RightRows` speaks of rows the application already has, so
it says nothing of the next step; the invariant, `RowsInv`, says where the
controllers stand between two calls, and was checked with TLC on the images of
the run and on others (row groups of three and four rows, of components that
divide neither) before it was proved:

- `Stands`: how many rows the upsampler has given is the row group it is at and
  how far it is in it (`Begins`, `Within`); for merged upsampling that is whether
  there is a spare row.
- Without context rows, `PlainMain`: the iMCU row in the buffer (`Holds`).
- With them, `ContextMain`, one case for each place `process_data_context_main`
  can be left at: `AtFirst`, `Preparing` and `Processing` an iMCU row, and
  `Postponed`, at its last row group, for which the next iMCU row has to be read
  into the other list of pointers. `Keeps` says that the two row groups the other
  list shares with this one are still those of the iMCU row before; which buffer
  row is behind which pointer is one permutation (`Swapped`), and the lemmas on
  it say that reading into one list leaves alone what the other has yet to show.
  `Provides` then says what a window on a row group shows: the row group and the
  rows around it, with those beyond the top and the bottom duplicated, whether by
  the wraparound pointers or by `set_bottom_pointers`.
- `PostInv`: the strip of a two-pass quantizer, and that every row it has stored
  was made from its place.

The lemmas then follow the calls inwards out: an upsampler, a postprocessor, the
loop over row groups, the main controller, and a call of the application. The
arithmetic is linear once a product (of rows, row groups and iMCU rows) has a
name; the lemmas on `CeilDiv` and on the rows of the last iMCU row are where it is
not. `ConfigsAssumption` excludes what the code excludes, or the library would
refuse, and one thing it does not: two-pass quantization of strips higher than
two rows, for which the theorem is false (`jdpostct.c:224`, above).

The assumptions are those on constants (`ViewAssumption`, `NativeViewAssumption`:
the null values are no thread and no stream; `SessionAssumption`,
`CamIotAssumption`, `SnapshotsAssumption`, of the same kind; `ReadersAssumption`:
a camera sends parts made of cells, and `NotANumber` is no number;
`ArrayAssumption`; `ConfigsAssumption`; `FramesAssumption`, which speaks of the
decompressor too) and, where a theorem says so, the one about the host, the
camera or the system.
Sequential consistency of the two threads of `CamIotSession` is part of the
model. Liveness is model-checked only, as fairness and ENABLED are beyond the
prover. So is what the `RECURSIVE` operators of the coders, the transforms, the
markers and the decompressor compute.

## Not modelled

- The display mode, the overlay and the frame rate, which only choose pixels;
  the choice of implementation in `MjpegSurfaceView`; menus and buttons; `Util`
  and `Constants`; the build and the resources.
- `ImageProc.c`: failures of the bitmap interface, a null bitmap (for which 274
  returns without a value), a null malloc, and `freeCameraMemory`
  during a frame; the last races with the copy, and no property is possible but
  that it must not.
- In the Android part without a property: a frame that does not decode is a null
  bitmap whose use ends the process (`MjpegViewDefault.java:122`); the loop is a
  busy one after the camera has closed (`:147`); the toggle of the automatic
  mode (`MainActivity.java:239`).
- libjpeg: colour conversion, the quantizers themselves, the preprocessing and
  coefficient controllers of compression, lossless transformation (`transupp.c`),
  the memory managers of other systems and the command-line tools, none of which
  ImageProc calls but colour conversion, which keeps no state; the
  floating-point DCTs, as TLC has no such numbers.
- Within the modelled parts of libjpeg: output suspension of the Huffman
  encoder, the error for a coefficient out of range, non-optimized progressive
  scripts (the code always optimizes them); the warnings of the arithmetic
  coder; in `jpeg_resync_to_restart` the case of a marker below `M_SOF0`, which
  the damage of the runs never makes; merged upsampling, raw data output, external colormaps, scaling and
  block smoothing as parts of the decompressor's calls; coded data in
  `MarkerTransfer`, a source that is filled in the middle of a call, any JFIF
  version but the 1.01 that is written; sharing memory among several virtual
  arrays. `jmemnobs.c`, which the library is built with, is the case of an array
  that is always in memory. Counts of a Huffman table stay below 1000000000,
  the sentinel of `jpeg_gen_optimal_table`.

## Plan

1. A proof that `Decompressor` keeps `FramesAssumption`, for which its loops would
   have to be written without `RECURSIVE` operators; TLC checks it for the frames
   of the run.
2. The coefficient controllers over `VirtualArray`, colour conversion and the
   two-pass quantizer, if their order of calls turns out to be worth more than
   what `RowPipeline` and `Decompressor` say of it.
