SPECIFICATION DecodingSpec
CONSTANTS
  RowsInArray = 3
  MaxAccess = 2
  ChunkRows = 1
  Available = {0, 3}
  Value = {zero, junk}
  Zero = zero
  Junk = junk
  RowLines = 2
  Quantize = {TRUE, FALSE}
  Ahead = 3
  Ids = 3
  Methods = {"islow", "ifast"}
  QuantSteps = {1, 16}
INVARIANTS
  Inv
  NoVirtualBug
  FinalPicture
  OutputKeepsStep
  WholePicture
  StaysInRgb
  RightRows
  Accurate
PROPERTIES
  IsPlainArray
  ProcReturns
  AllRowsCome
\* A pipeline that has given all its rows is at its end.
CHECK_DEADLOCK FALSE
