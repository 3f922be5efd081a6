SPECIFICATION Spec
CONSTANTS
  Cell <- Cells
  ContentLength <- Lines
  DefaultCameras <- Cameras
  NativeCameras <- CamerasOfNative
  NotANumber = NotANumber
  Malformed = "esc"
  DefaultMaxLength = 7
  NativeMaxLength = 14
INVARIANTS
  ExactlyTheImages
  DamageIsConfined
  NativeImages
PROPERTIES
  ReadsToTheEnd
\* A reader that has crashed or returned -1 is not called again.
CHECK_DEADLOCK FALSE
