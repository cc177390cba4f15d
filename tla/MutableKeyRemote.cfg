\* Two clients swap the server's key, one publishes it and one retracts it;
\* a fifth, offline, is refused.
SPECIFICATION FairSpec
CONSTANTS
  None = None
  Codes = {"NOT_FOUND"}
  c1 = c1
  c2 = c2
  offline = offline
  publisher = publisher
  retractor = retractor
  Clients = {c1, c2, offline, publisher, retractor}
  Role <- MCRole
  HandleFlags <- MCHandleFlags
  Backend <- MCBackend
  MaxFailures = 1
  MaxLost = 0
INVARIANTS
  TypeOK
  NoLostUpdate
  KeyNamesContent
PROPERTY EveryoneGetsIn
\* the clients stop when they are in
CHECK_DEADLOCK FALSE
