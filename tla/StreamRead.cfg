\* A content of three bytes in up to four fragments, in any order.
SPECIFICATION Spec
CONSTANTS
  None = None
  Codes = {"NOT_FOUND", "SLOW_DOWN"}
  Size = 3
  Faults = {"disorder", "overrun"}
  MaxFragments = 4
INVARIANTS
  TypeOK
  SinkHoldsABeginning
  OkWroteItAll
  RefusedBytesFailTheRead
\* the read is over once it has been answered
CHECK_DEADLOCK FALSE
