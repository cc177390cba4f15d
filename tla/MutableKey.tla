----------------------------- MODULE MutableKey -----------------------------
(***************************************************************************)
(* A mutable key several clients share.  Some update it by read-modify-    *)
(* write, the use compare_and_swap_resolved is there for: resolve the key, *)
(* put the new content, swap the key from the hash that was read to the    *)
(* new one, and start over from the hash a Conflict names.  Some retract   *)
(* it, by a swap to None.  Some publish it with put_resolved, whatever it  *)
(* named before.  Every client has a handle on local stores of its own,    *)
(* the mutable store with the keys and the immutable one with the          *)
(* contents; the server's are shared, and only the server's contents are   *)
(* kept track of.  A handle's flags are bound when it is opened and the    *)
(* backend of a call overrides the ones the call passes; Lore rejects a    *)
(* contradiction.                                                          *)
(*                                                                         *)
(* A content is the set of the clients that contributed to it, and stands  *)
(* for its own hash.  A call may fail with its request not carried out,    *)
(* carried out, or still under way, and carried out later.                 *)
(***************************************************************************)
EXTENDS LoreOutcome, Integers, FiniteSets

CONSTANTS
  Clients,
  Role,         \* Role[c]: what c does, "update", "retract" or "publish"
  HandleFlags,  \* HandleFlags[c]: the flags c's handle was opened with
  Backend,      \* Backend[c]: what c passes, "Default", "Local" or "Remote"
  MaxFailures,  \* bound: calls that fail
  MaxLost       \* bound: an update's puts whose remote write fails

Flags == [local : BOOLEAN, remote : BOOLEAN, offline : BOOLEAN]

Server == "server"

ASSUME KeyAssumption ==
  /\ IsFiniteSet(Clients)
  /\ Role \in [Clients -> {"update", "retract", "publish"}]
  \* local together with remote is rejected when the handle is opened
  /\ HandleFlags \in [Clients -> {f \in Flags : ~(f.local /\ f.remote)}]
  /\ Backend \in [Clients -> {"Default", "Local", "Remote"}]
  /\ MaxFailures \in Nat
  /\ MaxLost \in Nat
  /\ Server \notin Clients
  /\ \A hash \in SUBSET Clients : None # hash

Stores == Clients \cup {Server}

Hashes == SUBSET Clients
ZERO == {}     \* Revision::ZERO, how the mutable store spells "no mapping"

VARIABLES
  mutable,    \* the hash the key has, by mutable store
  held,       \* the contents the server has
  pc,         \* where each client is
  seen,       \* the hash a client starts from, an Option<Revision>
  request,    \* the write a client is waiting for, and its completion
  late,       \* writes under way although their call has failed
  outcome,    \* what a client was told in the end
  erased,     \* whose contributions the server's key has lost to a
              \* publication or a retraction
  failures,
  lost

vars == <<mutable, held, pc, seen, request, late, outcome, erased, failures, lost>>

(* A write of the key: a swap, from what it expects, or a publication,     *)
(* which expects nothing and may be of several stores.                     *)
Writes == [stores : SUBSET Stores, expected : Hashes \cup {None}, value : Hashes]

Completions == [previous : Hashes, mapped : SUBSET Stores]

Requests == [write : Writes, completion : Completions \cup {None}]

ASSUME RequestAssumption == None \notin Requests

Outcomes == [is : {"Swapped"}]
            \cup [is : {"Published"}, stored_local : BOOLEAN, stored_remote : BOOLEAN]

TypeOK ==
  /\ mutable \in [Stores -> Hashes]
  /\ held \subseteq Hashes
  /\ pc \in [Clients -> {"start", "modified", "stored", "storing", "waiting", "done", "refused"}]
  /\ seen \in [Clients -> (Hashes \ {ZERO}) \cup {None}]
  /\ request \in [Clients -> Requests \cup {None}]
  /\ late \subseteq Writes
  /\ outcome \in [Clients -> Outcomes \cup {None}]
  /\ erased \subseteq Clients
  /\ failures \in 0..MaxFailures
  /\ lost \in 0..MaxLost

Init ==
  /\ mutable = [s \in Stores |-> ZERO]
  /\ held = {ZERO}
  /\ pc = [c \in Clients |-> "start"]
  /\ seen = [c \in Clients |-> None]
  /\ request = [c \in Clients |-> None]
  /\ late = {}
  /\ outcome = [c \in Clients |-> None]
  /\ erased = {}
  /\ failures = 0
  /\ lost = 0

-----------------------------------------------------------------------------
(* WithBackend::raw_globals: the flags a call passes.                      *)
RawGlobals(globals, backend) ==
  CASE backend = "Default" -> globals
    [] backend = "Local"   -> [globals EXCEPT !.local = TRUE, !.remote = FALSE]
    [] backend = "Remote"  -> [remote |-> TRUE, local |-> FALSE, offline |-> FALSE]

CallFlags(c) == RawGlobals(HandleFlags[c], Backend[c])

(* A call can only tighten what its handle was opened with.                *)
Contradicts(c) ==
  \/ CallFlags(c).remote /\ (HandleFlags[c].local \/ HandleFlags[c].offline)
  \/ CallFlags(c).local /\ HandleFlags[c].remote

(* The one mutable store a call reads or swaps; there is no fallthrough.   *)
Target(c) == IF CallFlags(c).remote THEN Server ELSE c

(* Where a publication goes: to both sides, unless it is confined to one.  *)
Published(c) ==
  CASE CallFlags(c).remote -> {Server}
    [] CallFlags(c).local \/ CallFlags(c).offline -> {c}
    [] OTHER -> {c, Server}

(* Variant: the hash is wrapped in a Some as it came.                      *)
FoundUnfiltered(hash) == hash

(* Some(zero) is never seen: a hash is an Option<Revision> on this side... *)
Found(hash) == IF hash = ZERO THEN None ELSE hash
(* ... and None goes to Lore as the zero hash.                             *)
OrZero(revision) == IF revision = None THEN ZERO ELSE revision

-----------------------------------------------------------------------------
Refused(c) ==
  /\ pc[c] = "start"
  /\ Contradicts(c)
  /\ pc' = [pc EXCEPT ![c] = "refused"]
  /\ UNCHANGED <<mutable, held, seen, request, late, outcome, erased, failures, lost>>

(* storage_mutable_load: the key's hash, in the one store the call goes to.*)
Loaded(c) == mutable[Target(c)]

(* What a client does with the hash it has learnt: there may be nothing    *)
(* left to retract.                                                        *)
Onward(c, hash) ==
  CASE Role[c] = "update" -> "modified"
    [] Role[c] # "update" /\ hash # None -> "stored"
    [] OTHER -> "done"

(* resolve.                                                                *)
ResolveKey(c) ==
  /\ pc[c] = "start"
  /\ Role[c] # "publish"
  /\ ~Contradicts(c)
  /\ seen' = [seen EXCEPT ![c] = Found(Loaded(c))]
  /\ pc' = [pc EXCEPT ![c] = Onward(c, Found(Loaded(c)))]
  /\ UNCHANGED <<mutable, held, request, late, outcome, erased, failures, lost>>

(* What the key is to name: a content with c in it, or none.               *)
NewContent(c) == IF Role[c] = "retract" THEN ZERO ELSE OrZero(seen[c]) \cup {c}

(* Variant: a put is told to be cached instead of written to the server.   *)
RawPutLocal(content) == [content |-> content, remote_write |-> FALSE]

(* The item of a put, PutOptions::remote_write set as the docs ask for.    *)
RawPut(content) == [content |-> content, remote_write |-> TRUE]

(* Where Lore writes an item to.                                           *)
Destinations(c, raw) ==
  IF raw.remote_write /\ ~HandleFlags[c].offline /\ ~HandleFlags[c].local
  THEN {c, Server} ELSE {c}

Stored(content, stores) == IF Server \in stores THEN held \cup {content} ELSE held

(* put, under the handle's own flags: the content is where it was to be    *)
(* written to, or only in the local store, its remote write having failed. *)
(* Either is a success; put does not look at `stored_remote`.              *)
PutContent(c) ==
  /\ pc[c] = "modified"
  /\ LET asked == Destinations(c, RawPut(NewContent(c)))
     IN  \E landed \in {asked, {c}} :
           /\ lost' = IF landed = asked THEN lost ELSE lost + 1
           /\ lost' <= MaxLost
           /\ held' = Stored(NewContent(c), landed)
  /\ pc' = [pc EXCEPT ![c] = "stored"]
  /\ UNCHANGED <<mutable, seen, request, late, outcome, erased, failures>>

Request(c, write) == [request EXCEPT ![c] = [write |-> write, completion |-> None]]

(* The item of storage_mutable_compare_and_swap.                           *)
SwapItem(c, expected, value) ==
  [stores |-> {Target(c)}, expected |-> expected, value |-> value]

(* compare_and_swap_resolved, up to where it waits for Lore.  The request  *)
(* has what the client started from.                                       *)
BeginSwap(c) ==
  /\ pc[c] = "stored"
  /\ request' = Request(c, SwapItem(c, OrZero(seen[c]), NewContent(c)))
  /\ pc' = [pc EXCEPT ![c] = "waiting"]
  /\ seen' = [seen EXCEPT ![c] = None]
  /\ UNCHANGED <<mutable, held, late, outcome, erased, failures, lost>>

(* The item of storage_put_resolved.                                       *)
PublishItem(c, content) ==
  [stores |-> Published(c), expected |-> None, value |-> content]

(* put_resolved, up to where it waits for Lore.                            *)
BeginPublish(c) ==
  /\ pc[c] = "start"
  /\ Role[c] = "publish"
  /\ ~Contradicts(c)
  /\ request' = Request(c, PublishItem(c, NewContent(c)))
  /\ pc' = [pc EXCEPT ![c] = "storing"]
  /\ UNCHANGED <<mutable, held, seen, late, outcome, erased, failures, lost>>

(* What is left of where a write goes if the server cannot be reached.     *)
Reached(stores) == {stores, stores \ {Server}} \ {{}}

(* Lore's first half of put_resolved: the content is stored.               *)
StoreContent(c) ==
  /\ pc[c] = "storing"
  /\ \E landed \in Reached(request[c].write.stores) :
       /\ held' = Stored(request[c].write.value, landed)
       /\ request' = [request EXCEPT ![c].write.stores = landed]
  /\ pc' = [pc EXCEPT ![c] = "waiting"]
  /\ UNCHANGED <<mutable, seen, late, outcome, erased, failures, lost>>

(* A mutable store's side: a swap if the key still is what is expected, a  *)
(* publication in any case.                                                *)
Takes(store, write) == write.expected = None \/ write.expected = mutable[store]

Erases(write) == write.expected = None \/ write.value = ZERO

Carry(write, stores) ==
  /\ mutable' = [s \in Stores |->
       IF s \in stores /\ Takes(s, write) THEN write.value ELSE mutable[s]]
  /\ erased' = IF Server \in stores /\ Takes(Server, write)
               THEN (erased \cup (IF Erases(write) THEN mutable[Server] ELSE {})) \ write.value
               ELSE erased

(* A swap is of one store, which its call fails without.                   *)
Mapped(write) == IF write.expected = None THEN Reached(write.stores) ELSE {write.stores}

Apply(c) ==
  /\ pc[c] = "waiting"
  /\ request[c].completion = None
  /\ \E mapped \in Mapped(request[c].write) :
       /\ Carry(request[c].write, mapped)
       /\ request' = [request EXCEPT ![c].completion =
            [previous |-> mutable[Target(c)], mapped |-> mapped]]
  /\ UNCHANGED <<held, pc, seen, late, outcome, failures, lost>>

ApplyLate(write) ==
  /\ Carry(write, write.stores)
  /\ late' = late \ {write}
  /\ UNCHANGED <<held, pc, seen, request, outcome, failures, lost>>

(* Variant: the conflict names what the caller expected.                   *)
SwapOutcomeStale(expected, previous) ==
  IF previous = expected THEN [is |-> "Swapped"]
  ELSE [is |-> "Conflict", current |-> Found(expected)]

(* Variant: an item without an error is taken for one that was swapped.    *)
SwapOutcomeUnread(expected, previous) == [is |-> "Swapped"]

(* What the completion's `previous` says of the swap.                      *)
SwapOutcome(expected, previous) ==
  IF previous = expected THEN [is |-> "Swapped"]
  ELSE [is |-> "Conflict", current |-> Found(previous)]

PublishOutcome(stored_local, stored_remote) ==
  [is |-> "Published", stored_local |-> stored_local, stored_remote |-> stored_remote]

End(c, told) ==
  /\ pc' = [pc EXCEPT ![c] = "done"]
  /\ outcome' = [outcome EXCEPT ![c] = told]
  /\ UNCHANGED seen

(* The swap's completion arrived; a client that lost tries again from      *)
(* `current`.                                                              *)
ReturnSwap(c) ==
  /\ pc[c] = "waiting" /\ Role[c] # "publish"
  /\ request[c].completion # None
  /\ LET told == SwapOutcome(request[c].write.expected, request[c].completion.previous)
     IN  IF told.is = "Swapped" THEN End(c, told)
         ELSE /\ pc' = [pc EXCEPT ![c] = Onward(c, told.current)]
              /\ seen' = [seen EXCEPT ![c] = told.current]
              /\ UNCHANGED outcome
  /\ request' = [request EXCEPT ![c] = None]
  /\ UNCHANGED <<mutable, held, late, erased, failures, lost>>

ReturnPublish(c) ==
  /\ pc[c] = "waiting" /\ Role[c] = "publish"
  /\ request[c].completion # None
  /\ LET mapped == request[c].completion.mapped
     IN  End(c, PublishOutcome(c \in mapped, Server \in mapped))
  /\ request' = [request EXCEPT ![c] = None]
  /\ UNCHANGED <<mutable, held, late, erased, failures, lost>>

(* The call failed and says nothing of the write, which may have happened  *)
(* or still happen; the client starts over.                                *)
ReturnFailed(c) ==
  /\ pc[c] \in {"storing", "waiting"}
  /\ failures < MaxFailures
  /\ failures' = failures + 1
  /\ late' = IF pc[c] = "waiting" /\ request[c].completion = None
             THEN late \cup {request[c].write} ELSE late
  /\ pc' = [pc EXCEPT ![c] = "start"]
  /\ request' = [request EXCEPT ![c] = None]
  /\ UNCHANGED <<mutable, held, seen, outcome, erased, lost>>

Progress(c) ==
  \/ Refused(c)
  \/ ResolveKey(c) \/ PutContent(c) \/ BeginSwap(c) \/ ReturnSwap(c)
  \/ BeginPublish(c) \/ StoreContent(c) \/ ReturnPublish(c)
  \/ Apply(c)

Next ==
  \/ \E c \in Clients : Progress(c) \/ ReturnFailed(c)
  \/ \E write \in late : ApplyLate(write)

Spec == Init /\ [][Next]_vars

(* As long as a client can go on or Lore has something to answer, some     *)
(* client or Lore does, whichever; a request whose call has failed need    *)
(* never be carried out.                                                   *)
FairSpec == Spec /\ WF_vars(\E c \in Clients : Progress(c))

-----------------------------------------------------------------------------
(***************************************************************************)
(* "The building block for read-modify-write on a key several writers      *)
(* share, where last-writer-wins would lose updates", and `stored_remote`, *)
(* to be checked "to confirm the key is visible to other clients": what a  *)
(* client was told it had swapped in, or published on the server, is part  *)
(* of the server's key from then on, until a publication or a retraction   *)
(* takes it away.  No swap does, however late a failed call's comes        *)
(* through.                                                                *)
(***************************************************************************)
ToldVisible(c) ==
  /\ outcome[c] # None
  /\ CASE Role[c] = "update" -> TRUE
       [] Role[c] = "publish" -> outcome[c].stored_remote
       [] OTHER -> FALSE

NoLostUpdate == \A c \in Clients : ToldVisible(c) => c \in mutable[Server] \cup erased

(***************************************************************************)
(* An update's content is put before the key is swapped to it, "or a       *)
(* reader can resolve the key and find nothing behind it", and put_resolved*)
(* maps its key "only once the content is stored": what the server's key   *)
(* names, the server holds.  It does not hold when the remote write of an  *)
(* update's put fails: that put succeeds all the same, and only the        *)
(* `stored_remote` that put drops tells the two apart.                     *)
(***************************************************************************)
KeyNamesContent == mutable[Server] \in held

(***************************************************************************)
(* A client that retries with the hash the Conflict names gets its swap    *)
(* through in the end, once the calls no longer fail.                      *)
(***************************************************************************)
EveryoneGetsIn == <>(\A c \in Clients : pc[c] \in {"done", "refused"})
=============================================================================
