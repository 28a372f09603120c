SPECIFICATION Spec
CONSTANTS
  None = None
  U32 = 1048576
  MaxBlocks = 512
  TcTypes = {"f16", "bf16"}
  Kinds <- GraphKinds
  MaxNodes = 6
INVARIANTS
  WellFormed
  ValuesKept
  MetaKept
  OneWalkSuffices
  TraceMatchesResult
\* One graph is rewritten.
CHECK_DEADLOCK FALSE
