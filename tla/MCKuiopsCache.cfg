SPECIFICATION Spec
CONSTANTS
  None = None
  U32 = 1048576
  MaxBlocks = 512
  TcTypes = {"f16", "bf16"}
  Calls <- CellCalls
  MaxCalls = 2
  CacheMax = 2
INVARIANT MemoSound
\* A program makes a bounded number of calls and ends.
CHECK_DEADLOCK FALSE
