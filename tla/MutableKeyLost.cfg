\* A put whose remote write fails, and the swap that follows it.
SPECIFICATION Spec
CONSTANTS
  None = None
  Codes = {"NOT_FOUND"}
  c1 = c1
  c2 = c2
  offline = offline
  publisher = publisher
  retractor = retractor
  Clients = {c1, c2, offline}
  Role <- MCRole
  HandleFlags <- MCHandleFlags
  Backend <- MCBackend
  MaxFailures = 0
  MaxLost = 1
INVARIANT KeyNamesContent
\* the clients stop when they are in
CHECK_DEADLOCK FALSE
