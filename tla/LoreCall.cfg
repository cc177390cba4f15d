\* Two calls, one after the other, of up to three events before the completion.
SPECIFICATION FairSpec
CONSTANTS
  None = None
  MaxEvents = 3
  MaxCalls = 2
INVARIANTS
  TypeOK
  FailureNamesItsCause
  EveryEventIsHanded
PROPERTIES
  EveryCallReturns
  CallsAsPromised
\* the caller stops when it has made its calls
CHECK_DEADLOCK FALSE
