\* The one-item verbs and batches of three, completed in any order or not at all.
SPECIFICATION Spec
CONSTANTS
  None = None
  Codes = {"NOT_FOUND", "SLOW_DOWN"}
  Items = {0, 1, 2}
  Hashes = {"h0", "h1"}
  ZeroHash = "h0"
  Apis = {"put_many", "resolve_many", "put", "resolve", "metadata", "put_resolved"}
  Strays = {TRUE, FALSE}
INVARIANTS
  TypeOK
  OkIsTheItemsOwn
  NoneIsAReportedMiss
  MissesFailNothing
  UnaccountedFailureIsReported
\* the call is over once it has been answered
CHECK_DEADLOCK FALSE
