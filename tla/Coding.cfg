SPECIFICATION CodingSpec
CONSTANTS
  Parts = {"huffman", "arithmetic", "table", "markers", "dct"}
  Failed = Failed
INVARIANTS
  RoundTrip
  DamageIsContained
  CleanOutput
  TablesServe
  MarkersArrive
  CutsDoNotMatter
  BlocksAreDcts
\* A table that was received or refused, and a file read to its end, are the end.
CHECK_DEADLOCK FALSE
