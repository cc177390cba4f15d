\* Every range alone and two items together; events lost, or past their range.
SPECIFICATION Spec
CONSTANTS
  None = None
  Zero = Zero
  A = A
  B = B
  Codes = {"NOT_FOUND", "SLOW_DOWN"}
  MaxU64 = 4
  Addresses <- MCAddresses
  Size <- MCSize
  Items = {0, 1}
  Batches <- AllBatches
  Faults = {"stray", "overrun"}
  MaxFragments <- MCMaxFragments
INVARIANTS
  TypeOK
  SpanSelectsTheRange
  OkIsTheSlice
  NoForeignByte
  OneFailureFailsOneItem
  UnreportedFailsTheBatch
  NoFailureIsLost
PROPERTY ReadsAsPromised
\* the read is over once it has been answered
CHECK_DEADLOCK FALSE
