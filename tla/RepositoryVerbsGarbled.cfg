\* An event that does not decode, beside others that do.
SPECIFICATION Spec
CONSTANTS
  None = None
  Codes = {"SLOW_DOWN"}
  Verbs = {"status", "stage", "push"}
  MaxEvents = 3
INVARIANT EveryEventIsListed
\* the call is over once it has been answered
CHECK_DEADLOCK FALSE
