\* A part of the range delivered twice stands in for one that never came.
SPECIFICATION Spec
CONSTANTS
  None = None
  Zero = Zero
  A = A
  B = B
  Codes = {"NOT_FOUND", "SLOW_DOWN"}
  MaxU64 = 4
  Addresses <- MCAddresses
  Size <- MCSize
  Items = {0}
  Batches <- AloneBatches
  Faults = {"stray", "repeat"}
  MaxFragments <- MCMaxFragments
INVARIANT SkippedRangeFails
CHECK_DEADLOCK FALSE
