------------------------------- MODULE Process -------------------------------
(***************************************************************************)
(* A program's use of lore, from the build to its end: the build script    *)
(* fetches the library, the program's threads load it, open stores on one  *)
(* location on disk and trees through them, write, flush and drop them,    *)
(* and it ends with shutdown or without.  Store and RevisionTree own their *)
(* handles: each is closed by Drop, and by nothing else.                   *)
(*                                                                         *)
(* A value is named by what it is: the handle Lore opens for it has no     *)
(* other name.  Handles on one location share the store underneath, so a   *)
(* flush is of everything that is pending in it.  Calls block, and every   *)
(* step that begins one is the caller's, every step that ends one Lore's.  *)
(***************************************************************************)
EXTENDS LibraryLoad, Fetch

CONSTANTS
  Stores,   \* the Store values of the program
  Trees,    \* its RevisionTree values
  Writes    \* what it puts

Values == Stores \cup Trees

ASSUME ProcessAssumption ==
  /\ IsFiniteSet(Values) /\ Stores \cap Trees = {}
  /\ IsFiniteSet(Writes)
  /\ None \notin Stores

VARIABLES
  value,     \* each Rust value: "none", "opening", "live", "dropping", "gone"
  source,    \* the store a tree is being loaded from, borrowed meanwhile
  closing,   \* the values a close call is in progress for
  open,      \* the handles Lore has open
  broken,    \* the values a call to open or to close has failed for
  flushing,  \* by store: what a flush call in progress is to write, or None
  spawned,   \* the flushes closes have started, each by what it is to write
  written,   \* what has been put
  disk,      \* what of it would survive the process
  told,      \* what a flush has answered Ok about
  unheard,   \* a failure that no caller is told of has happened
  proc       \* "running", "shutting down", "finalized" or "exited"

handleVars == <<value, source, closing, open, broken, flushing, spawned,
                written, disk, told, unheard, proc>>

HandleTypeOK ==
  /\ value \in [Values -> {"none", "opening", "live", "dropping", "gone"}]
  /\ source \in [Trees -> Stores \cup {None}]
  /\ closing \subseteq Values /\ open \subseteq Values /\ broken \subseteq Values
  /\ flushing \in [Stores -> (SUBSET Writes) \cup {None}]
  /\ spawned \subseteq SUBSET Writes
  /\ told \subseteq written /\ disk \subseteq written /\ written \subseteq Writes
  /\ unheard \in BOOLEAN
  /\ proc \in {"running", "shutting down", "finalized", "exited"}

ProcessTypeOK == TypeOK /\ FetchTypeOK /\ HandleTypeOK

ProcessInit ==
  /\ Init /\ FetchInit
  /\ value = [v \in Values |-> "none"]
  /\ source = [t \in Trees |-> None]
  /\ closing = {} /\ open = {} /\ broken = {}
  /\ flushing = [s \in Stores |-> None]
  /\ spawned = {}
  /\ written = {} /\ disk = {} /\ told = {}
  /\ unheard = FALSE
  /\ proc = "running"

Pending == written \ disk

-----------------------------------------------------------------------------
(* Store::open, through a &'static Lore some load has handed out.          *)
OpenStore(s) ==
  /\ proc = "running"
  /\ given # {}
  /\ value[s] = "none"
  /\ value' = [value EXCEPT ![s] = "opening"]
  /\ UNCHANGED <<source, closing, open, broken, flushing, spawned, written, disk, told, unheard, proc>>

(* Store::load_revision_tree, which borrows the store while it runs.       *)
LoadTree(t, s) ==
  /\ proc = "running"
  /\ value[s] = "live" /\ value[t] = "none"
  /\ value' = [value EXCEPT ![t] = "opening"]
  /\ source' = [source EXCEPT ![t] = s]
  /\ UNCHANGED <<closing, open, broken, flushing, spawned, written, disk, told, unheard, proc>>

(* Lore opens the handle and reports it, which captures it.                *)
LoreOpened(v) ==
  /\ value[v] = "opening"
  /\ v \notin open
  /\ open' = open \cup {v}
  /\ UNCHANGED <<value, source, closing, broken, flushing, spawned, written, disk, told, unheard, proc>>

(* Variant: a call that succeeds is taken to have reported its handle.     *)
MadeUnreported(v, result) == result = "Ok"

(* The value is made of a call that succeeded and reported its handle.     *)
Made(v, result) == result = "Ok" /\ v \in open

OpenReturn(v, result) ==
  /\ value[v] = "opening"
  /\ value' = [value EXCEPT ![v] = IF Made(v, result) THEN "live" ELSE "gone"]
  /\ source' = [t \in Trees |-> IF t = v THEN None ELSE source[t]]
  /\ broken' = IF result = "Ok" THEN broken ELSE broken \cup {v}
  /\ UNCHANGED <<closing, open, flushing, spawned, written, disk, told, unheard, proc>>

(* put: Lore has the bytes.  Nothing is flushed.                           *)
Put(s, w) ==
  /\ proc = "running"
  /\ value[s] = "live"
  /\ w \notin written
  /\ written' = written \cup {w}
  /\ UNCHANGED <<value, source, closing, open, broken, flushing, spawned, disk, told, unheard, proc>>

(* flush, of whatever is pending in the store underneath.                  *)
FlushBegin(s) ==
  /\ proc = "running"
  /\ value[s] = "live"
  /\ flushing[s] = None
  /\ flushing' = [flushing EXCEPT ![s] = Pending]
  /\ UNCHANGED <<value, source, closing, open, broken, spawned, written, disk, told, unheard, proc>>

(* Variant: a failing flush is logged, as a failing close is.              *)
FlushResultLogged(result) == "Ok"

(* What flush hands to its caller of what the call returned.               *)
FlushResult(result) == result

FlushReturn(s, result) ==
  /\ flushing[s] # None
  /\ disk' \in IF result = "Ok" THEN {disk \cup flushing[s]}
               ELSE {disk \cup part : part \in SUBSET flushing[s]}
  /\ told' = IF FlushResult(result) = "Ok" THEN told \cup flushing[s] ELSE told
  /\ flushing' = [flushing EXCEPT ![s] = None]
  /\ UNCHANGED <<value, source, closing, open, broken, spawned, written, unheard, proc>>

(* No call borrows the value.                                              *)
Unborrowed(v) ==
  /\ v \in Stores => flushing[v] = None
  /\ \A t \in Trees : source[t] # v

(* Variants: the close is left to a task of its own; it is never made.     *)
DropDetached(v) ==
  /\ proc = "running"
  /\ value[v] = "live" /\ Unborrowed(v)
  /\ value' = [value EXCEPT ![v] = "gone"]
  /\ closing' = closing \cup {v}
  /\ UNCHANGED <<source, open, broken, flushing, spawned, written, disk, told, unheard, proc>>

DropForgets(v) ==
  /\ proc = "running"
  /\ value[v] = "live" /\ Unborrowed(v)
  /\ value' = [value EXCEPT ![v] = "gone"]
  /\ UNCHANGED <<source, closing, open, broken, flushing, spawned, written, disk, told, unheard, proc>>

(* Drop, of either kind: the close is called, and waited for.              *)
Drop(v) ==
  /\ proc = "running"
  /\ value[v] = "live" /\ Unborrowed(v)
  /\ value' = [value EXCEPT ![v] = "dropping"]
  /\ closing' = closing \cup {v}
  /\ UNCHANGED <<source, open, broken, flushing, spawned, written, disk, told, unheard, proc>>

(* Lore closes the handle, and spawns a flush when it is a store's; or the *)
(* close fails, which is logged: nothing can act on it.                    *)
CloseReturn(v, result) ==
  /\ v \in closing
  /\ closing' = closing \ {v}
  /\ value' = [value EXCEPT ![v] = "gone"]
  /\ IF result = "Ok"
     THEN /\ open' = open \ {v}
          /\ spawned' = IF v \in Stores /\ Pending # {} THEN spawned \cup {Pending} ELSE spawned
          /\ UNCHANGED <<broken, unheard>>
     ELSE /\ broken' = broken \cup {v}
          /\ unheard' = TRUE
          /\ UNCHANGED <<open, spawned>>
  /\ UNCHANGED <<source, flushing, written, disk, told, proc>>

(* A spawned flush ends; what it fails at Lore throws away.                *)
SpawnedEnds(task, result) ==
  /\ proc # "exited"
  /\ task \in spawned
  /\ spawned' = spawned \ {task}
  /\ disk' \in IF result = "Ok" THEN {disk \cup task}
               ELSE {disk \cup part : part \in SUBSET task}
  /\ unheard' = (unheard \/ result # "Ok")
  /\ UNCHANGED <<value, source, closing, open, broken, flushing, written, told, proc>>

(* shutdown's contract, which its caller vouches for: every handle is gone *)
(* and no thread is in a call, load's own included.                        *)
AllGone ==
  /\ \A v \in Values : value[v] \in {"none", "gone"}
  /\ \A c \in Callers : pc[c] = "idle"

(* Lore closes the handles nobody owns; whether it flushes for them is not *)
(* said.                                                                   *)
Shutdown ==
  /\ proc = "running"
  /\ given # {}
  /\ AllGone
  /\ proc' = "shutting down"
  /\ open' = {}
  /\ spawned' \in {spawned} \cup (IF open \cap Stores # {} THEN {spawned \cup {Pending}} ELSE {})
  /\ UNCHANGED <<value, source, closing, broken, flushing, written, disk, told, unheard>>

(* It returns when the spawned work is done, or ten seconds have passed.   *)
ShutdownReturn ==
  /\ proc = "shutting down"
  /\ proc' = "finalized"
  /\ unheard' = (unheard \/ spawned # {})
  /\ UNCHANGED <<value, source, closing, open, broken, flushing, spawned, written, disk, told>>

(* The process ends, by returning from main or by being killed.            *)
Exit ==
  /\ proc # "exited"
  /\ proc' = "exited"
  /\ spawned' = {}
  /\ UNCHANGED <<value, source, closing, open, broken, flushing, written, disk, told, unheard>>

-----------------------------------------------------------------------------
Handles ==
  \/ \E s \in Stores : \/ OpenStore(s)
                       \/ FlushBegin(s)
                       \/ \E result \in {"Ok", "Call"} : FlushReturn(s, result)
                       \/ \E w \in Writes : Put(s, w)
                       \/ \E t \in Trees : LoadTree(t, s)
  \/ \E v \in Values : \/ LoreOpened(v)
                       \/ Drop(v)
                       \/ \E result \in {"Ok", "Call"} : OpenReturn(v, result) \/ CloseReturn(v, result)
  \/ \E task \in spawned, result \in {"Ok", "Call"} : SpawnedEnds(task, result)
  \/ Shutdown \/ ShutdownReturn \/ Exit

(* The library is loaded from where the build has put it; nothing is left  *)
(* to run once the process has exited.                                     *)
ProcessNext ==
  \/ FetchNext /\ UNCHANGED <<vars, handleVars>>
  \/ fetch = "fetched" /\ proc = "running" /\ Next /\ UNCHANGED <<fetchVars, handleVars>>
  \/ proc # "exited" /\ Handles /\ UNCHANGED <<fetchVars, vars>>

ProcessSpec == ProcessInit /\ [][ProcessNext]_<<vars, fetchVars, handleVars>>

-----------------------------------------------------------------------------
(***************************************************************************)
(* What a flush answered Ok about, everything any store of the location    *)
(* had put before it, is on disk whatever the process does from then on.   *)
(***************************************************************************)
FlushedIsDurable == told \subseteq disk

(***************************************************************************)
(* "Dropping every handle and then shutting down is durable as well"       *)
(* (flush's doc), but for the failures nobody is told of: a close that     *)
(* failed, a spawned flush that did, a wait that ran out.                  *)
(***************************************************************************)
CleanEndIsDurable == proc = "finalized" /\ ~unheard => written \subseteq disk

(***************************************************************************)
(* A live value's handle is open, and an open handle is a live value's, or *)
(* one on its way to be opened or closed: none is used after its close,    *)
(* none leaks, except by an open or a close that has failed.               *)
(***************************************************************************)
HandlesAreOwned ==
  /\ \A v \in Values : value[v] \in {"live", "dropping"} => v \in open
  /\ \A v \in open \ broken : value[v] \in {"opening", "live", "dropping"}

(***************************************************************************)
(* With the values gone, no call is left that could still be in Lore when  *)
(* shutdown finalizes its allocator: every value's Drop has waited for its *)
(* close, and a load that came late for its version.                       *)
(***************************************************************************)
NoCallIntoAFinalizedLore ==
  proc \in {"shutting down", "finalized"} =>
    /\ closing = {}
    /\ \A v \in Values : value[v] \notin {"opening", "dropping"}
    /\ \A s \in Stores : flushing[s] = None
    /\ \A c \in Callers : pc[c] # "binding"
=============================================================================
