SPECIFICATION FairSpec
CONSTANTS
  Threads = {t1, t2}
  Streams = {s1, s2}
  NoThread = NoThread
  NoStream = NoStream
  OneSourceAtATime = TRUE
PROPERTIES
  StopClosesInTheEnd
\* A process that has crashed does nothing more.
CHECK_DEADLOCK FALSE
