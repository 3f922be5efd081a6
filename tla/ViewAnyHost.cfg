SPECIFICATION Spec
CONSTANTS
  Threads = {t1, t2, t3}
  Streams = {s1, s2, s3}
  NoThread = NoThread
  NoStream = NoStream
  OneSourceAtATime = FALSE
SYMMETRY Symmetry
INVARIANTS
  TypeOK
  ReadersExclude
  CanvasNeedsSurface
\* A process that has crashed does nothing more.
CHECK_DEADLOCK FALSE
