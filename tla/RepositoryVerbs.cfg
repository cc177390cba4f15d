\* Every verb over every stream of up to six events, a commit's with two tallies among them.
SPECIFICATION Spec
CONSTANTS
  None = None
  Codes = {"SLOW_DOWN"}
  Verbs = {"status", "stage", "unstage", "commit", "push", "switch", "sync",
           "clone", "info", "branch", "revision", "instances", "login"}
  MaxEvents = 6
INVARIANTS
  HoldsWhatDecoded
  CountIsItsRepositorys
  NothingIsMadeUp
\* the call is over once it has been answered
CHECK_DEADLOCK FALSE
