SPECIFICATION ProcSpec
CONSTANTS
  RowLines = 2
  Ids = 3
INVARIANTS
  InStepWithDecompressor
