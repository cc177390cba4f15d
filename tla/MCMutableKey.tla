---------------------------- MODULE MCMutableKey ----------------------------
(* Instances of MutableKey: handles opened with the default flags, one     *)
(* that only ever reads the server, and one that must not reach it; two    *)
(* clients update, one publishes, one retracts.                            *)
EXTENDS MutableKey

CONSTANTS c1, c2, offline, publisher, retractor

Opened(local, remote, isOffline) == [local |-> local, remote |-> remote, offline |-> isOffline]

MCHandleFlags == [c \in Clients |-> Opened(FALSE, c = c2, c = offline)]

MCRole ==
  [c \in Clients |-> CASE c = publisher -> "publish" [] c = retractor -> "retract" [] OTHER -> "update"]

(* What is shared is swapped on the server; a publication goes everywhere. *)
MCBackend == [c \in Clients |-> IF c = publisher THEN "Default" ELSE "Remote"]
=============================================================================
