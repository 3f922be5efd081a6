SPECIFICATION CodingSpec
CONSTANTS
  Parts = {"narrow dct"}
  Failed = Failed
INVARIANTS
  NarrowBlocksAreDcts
\* Only the first disagreement is looked for.
CHECK_DEADLOCK FALSE
