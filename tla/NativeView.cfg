SPECIFICATION FairSpec
CONSTANTS
  Threads = {t1, t2}
  Streams = {s1, s2, s3}
  NoThread = NoThread
  NoStream = NoStream
INVARIANTS
  AnyHostIsServed
  AskingHostIsServed
PROPERTIES
  SoundPlays
  HidingNeedsNoCamera
\* A process that has crashed does nothing more.
CHECK_DEADLOCK FALSE
