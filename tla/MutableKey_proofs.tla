-------------------------- MODULE MutableKey_proofs --------------------------
(***************************************************************************)
(* Proofs about MutableKey, for any number of clients with any roles,      *)
(* handles and backends, and any number of failed calls.  The argument is  *)
(* about writes: every write that is waited for, or still under way after  *)
(* its call has failed, is of content the server holds, and takes nothing  *)
(* from the key that it does not put back or account for.                  *)
(***************************************************************************)
EXTENDS MutableKey, TLAPS

USE KeyAssumption, RequestAssumption

(* What each client may be at.                                             *)
Places ==
  \A c \in Clients :
    /\ pc[c] = "modified" => Role[c] = "update"
    /\ pc[c] = "stored" => Role[c] # "publish"
    /\ pc[c] = "storing" => Role[c] = "publish"
    /\ pc[c] \in {"modified", "stored", "storing", "waiting"} => ~Contradicts(c)
    /\ pc[c] \in {"storing", "waiting"} <=> request[c] # None

(* The write a client of each role waits for.                              *)
WriteOf(c, write) ==
  CASE Role[c] = "update" ->
         /\ write.stores = {Target(c)}
         /\ write.expected \in Hashes /\ write.value = write.expected \cup {c}
    [] Role[c] = "retract" -> write.expected \in Hashes /\ write.value = ZERO
    [] Role[c] = "publish" -> write.expected = None /\ c \in write.value

Writings == \A c \in Clients : request[c] # None => WriteOf(c, request[c].write)

(* A swap puts back what it takes, or takes it all away.                   *)
Sound(write) ==
  write.expected = None \/ write.value = ZERO \/ write.expected \subseteq write.value

LateAreSound == \A write \in late : Sound(write)

IInv == TypeOK /\ Places /\ Writings /\ LateAreSound

(* As long as no put has lost its remote write, a write of the server's    *)
(* key is of content the server holds.                                     *)
Backed(write) == Server \in write.stores => write.value \in held

ContentFirst ==
  /\ ZERO \in held
  /\ lost = 0 =>
       /\ mutable[Server] \in held
       /\ \A c \in Clients :
            /\ pc[c] = "waiting" => Backed(request[c].write)
            /\ pc[c] = "stored" /\ Target(c) = Server => NewContent(c) \in held
       /\ \A write \in late : Backed(write)

-----------------------------------------------------------------------------
LEMMA TargetsAreStores == \A c \in Clients : Target(c) \in Stores /\ Published(c) \subseteq Stores
BY DEF Target, Published, Stores

(* A client whose calls go to the server puts there, too.                  *)
LEMMA ServersUsersPutThere ==
  ASSUME NEW c \in Clients, ~Contradicts(c), Target(c) = Server, NEW content
  PROVE  Server \in Destinations(c, RawPut(content))
<1>1. CallFlags(c).remote
  BY DEF Target
<1>2. ~HandleFlags[c].local /\ ~HandleFlags[c].offline
  BY <1>1 DEF Contradicts
<1>3. QED
  BY <1>2 DEF Destinations, RawPut

LEMMA NewContentIsAHash == TypeOK => \A c \in Clients : NewContent(c) \in Hashes
BY DEF TypeOK, NewContent, OrZero, Hashes, ZERO

LEMMA FoundIsARevision == \A hash \in Hashes : Found(hash) \in (Hashes \ {ZERO}) \cup {None}
BY DEF Found

LEMMA WritesOfAreSound ==
  ASSUME NEW c \in Clients, NEW write, WriteOf(c, write)
  PROVE  Sound(write)
<1>1. Role[c] \in {"update", "retract", "publish"}
  OBVIOUS
<1>2. QED
  BY <1>1 DEF WriteOf, Sound

(* What a carried write leaves behind.                                     *)
LEMMA CarryLeaves ==
  ASSUME TypeOK, NEW write \in Writes, NEW stores \in SUBSET Stores, Carry(write, stores)
  PROVE  /\ mutable' \in [Stores -> Hashes] /\ erased' \subseteq Clients
         /\ mutable'[Server] = IF Server \in stores /\ Takes(Server, write)
                               THEN write.value ELSE mutable[Server]
<1>1. write.value \in Hashes /\ Server \in Stores
  BY DEF Writes, Stores
<1>2. mutable' \in [Stores -> Hashes]
  BY <1>1 DEF Carry, TypeOK
<1>3. mutable[Server] \subseteq Clients
  BY <1>1 DEF TypeOK, Hashes
<1>4. erased' \subseteq Clients
  <2>1. CASE Server \in stores /\ Takes(Server, write)
    BY <1>1, <1>3, <2>1 DEF Carry, TypeOK
  <2>2. CASE ~(Server \in stores /\ Takes(Server, write))
    BY <2>2 DEF Carry, TypeOK
  <2>3. QED
    BY <2>1, <2>2
<1>5. QED
  BY <1>1, <1>2, <1>4 DEF Carry

-----------------------------------------------------------------------------
LEMMA InitEstablishes == Init => IInv /\ ContentFirst
<1> SUFFICES ASSUME Init PROVE IInv /\ ContentFirst
  OBVIOUS
<1>1. TypeOK
  BY DEF Init, TypeOK, Hashes, ZERO
<1>2. Places
  BY DEF Init, Places
<1>3. Writings /\ LateAreSound
  BY DEF Init, Writings, LateAreSound
<1>4. Server \in Stores
  BY DEF Stores
<1>5. ContentFirst
  BY <1>4 DEF Init, ContentFirst
<1>6. QED
  BY <1>1, <1>2, <1>3, <1>5 DEF IInv

LEMMA RefusedPreserves ==
  ASSUME IInv, NEW c \in Clients, Refused(c)
  PROVE  IInv'
<1>1. TypeOK'
  BY DEF IInv, TypeOK, Refused
<1>2. Places'
  BY DEF IInv, TypeOK, Places, Refused
<1>3. Writings' /\ LateAreSound'
  BY DEF IInv, Writings, LateAreSound, Refused
<1>4. QED
  BY <1>1, <1>2, <1>3 DEF IInv

LEMMA ResolvePreserves ==
  ASSUME IInv, NEW c \in Clients, ResolveKey(c)
  PROVE  IInv'
<1>1. Loaded(c) \in Hashes
  BY TargetsAreStores DEF IInv, TypeOK, Loaded
<1>2. TypeOK'
  BY <1>1, FoundIsARevision DEF IInv, TypeOK, ResolveKey, Onward
<1>3. Places'
  BY DEF IInv, TypeOK, Places, ResolveKey, Onward
<1>4. Writings' /\ LateAreSound'
  BY DEF IInv, Writings, LateAreSound, ResolveKey
<1>5. QED
  BY <1>2, <1>3, <1>4 DEF IInv

LEMMA PutPreserves ==
  ASSUME IInv, NEW c \in Clients, PutContent(c)
  PROVE  IInv'
<1>1. held' \subseteq Hashes
  BY NewContentIsAHash DEF IInv, TypeOK, PutContent, Stored
<1>2. lost' \in 0..MaxLost
  BY DEF IInv, TypeOK, PutContent
<1>3. TypeOK'
  BY <1>1, <1>2 DEF IInv, TypeOK, PutContent
<1>4. Places'
  BY DEF IInv, TypeOK, Places, PutContent
<1>5. Writings' /\ LateAreSound'
  BY DEF IInv, Writings, LateAreSound, PutContent
<1>6. QED
  BY <1>3, <1>4, <1>5 DEF IInv

LEMMA BeginSwapPreserves ==
  ASSUME IInv, NEW c \in Clients, BeginSwap(c)
  PROVE  IInv'
<1> DEFINE write == SwapItem(c, OrZero(seen[c]), NewContent(c))
<1>1. OrZero(seen[c]) \in Hashes /\ NewContent(c) \in Hashes
  BY NewContentIsAHash DEF IInv, TypeOK, OrZero, Hashes, ZERO
<1>2. write \in Writes
  BY <1>1, TargetsAreStores DEF SwapItem, Writes
<1>3. WriteOf(c, write)
  <2>1. Role[c] \in {"update", "retract"}
    BY DEF IInv, Places, BeginSwap
  <2>2. QED
    BY <1>1, <2>1 DEF WriteOf, SwapItem, NewContent
<1> HIDE DEF write
<1>4. /\ request' = [request EXCEPT ![c] = [write |-> write, completion |-> None]]
      /\ pc' = [pc EXCEPT ![c] = "waiting"] /\ seen' = [seen EXCEPT ![c] = None]
      /\ UNCHANGED <<mutable, held, late, outcome, erased, failures, lost>>
  BY DEF BeginSwap, Request, write
<1>5. [write |-> write, completion |-> None] # None /\ ~Contradicts(c)
  BY <1>2 DEF IInv, Places, BeginSwap, Requests
<1>6. TypeOK'
  BY <1>2, <1>4 DEF IInv, TypeOK, Requests
<1>7. Places'
  BY <1>4, <1>5 DEF IInv, TypeOK, Places
<1>8. Writings' /\ LateAreSound'
  BY <1>3, <1>4 DEF IInv, TypeOK, Writings, LateAreSound
<1>9. QED
  BY <1>6, <1>7, <1>8 DEF IInv

LEMMA BeginPublishPreserves ==
  ASSUME IInv, NEW c \in Clients, BeginPublish(c)
  PROVE  IInv'
<1> DEFINE write == PublishItem(c, NewContent(c))
<1>1. NewContent(c) \in Hashes /\ Role[c] = "publish" /\ ~Contradicts(c)
  BY NewContentIsAHash DEF IInv, BeginPublish
<1>2. write \in Writes
  BY <1>1, TargetsAreStores DEF PublishItem, Writes
<1>3. WriteOf(c, write)
  BY <1>1 DEF WriteOf, PublishItem, NewContent
<1> HIDE DEF write
<1>4. /\ request' = [request EXCEPT ![c] = [write |-> write, completion |-> None]]
      /\ pc' = [pc EXCEPT ![c] = "storing"]
      /\ UNCHANGED <<mutable, held, seen, late, outcome, erased, failures, lost>>
  BY DEF BeginPublish, Request, write
<1>5. [write |-> write, completion |-> None] \in Requests
  BY <1>2 DEF Requests
<1>6. TypeOK'
  BY <1>4, <1>5 DEF IInv, TypeOK
<1>7. Places'
  BY <1>1, <1>4, <1>5 DEF IInv, TypeOK, Places
<1>8. Writings' /\ LateAreSound'
  BY <1>3, <1>4 DEF IInv, TypeOK, Writings, LateAreSound
<1>9. QED
  BY <1>6, <1>7, <1>8 DEF IInv

(* The request of a client that waits.                                     *)
LEMMA WaitingHasARequest ==
  ASSUME IInv, NEW c \in Clients, pc[c] \in {"storing", "waiting"}
  PROVE  /\ request[c] \in Requests /\ request[c].write \in Writes
         /\ request[c].completion \in Completions \cup {None}
         /\ request[c].write.stores \in SUBSET Stores /\ request[c].write.value \in Hashes
         /\ WriteOf(c, request[c].write)
<1>1. request[c] \in Requests
  BY DEF IInv, TypeOK, Places
<1>2. request[c].write \in Writes /\ request[c].completion \in Completions \cup {None}
  BY <1>1 DEF Requests
<1>3. QED
  BY <1>1, <1>2 DEF Writes, IInv, Writings, Places

LEMMA StorePreserves ==
  ASSUME IInv, NEW c \in Clients, StoreContent(c)
  PROVE  IInv'
<1>1. pc[c] = "storing" /\ Role[c] = "publish"
  BY DEF IInv, Places, StoreContent
<1>2. PICK landed \in Reached(request[c].write.stores) :
        /\ held' = Stored(request[c].write.value, landed)
        /\ request' = [request EXCEPT ![c].write.stores = landed]
  BY DEF StoreContent
<1> DEFINE write == [request[c].write EXCEPT !.stores = landed]
           new == [request[c] EXCEPT !.write = write]
<1>3. landed \in SUBSET Stores
  BY <1>1, <1>2, WaitingHasARequest DEF Reached
<1>4. write \in Writes /\ write.expected = request[c].write.expected
      /\ write.value = request[c].write.value
  BY <1>1, <1>3, WaitingHasARequest DEF Writes
<1>5. new \in Requests /\ new.write = write
  BY <1>1, <1>4, WaitingHasARequest DEF Requests
<1>6. WriteOf(c, write)
  BY <1>1, <1>4, WaitingHasARequest DEF WriteOf
<1>7. request' = [request EXCEPT ![c] = new]
  BY <1>2
<1> HIDE DEF write, new
<1>8. /\ pc' = [pc EXCEPT ![c] = "waiting"]
      /\ UNCHANGED <<mutable, seen, late, outcome, erased, failures, lost>>
  BY DEF StoreContent
<1>9. held' \subseteq Hashes
  BY <1>1, <1>2, WaitingHasARequest DEF Stored, IInv, TypeOK
<1>10. TypeOK'
  BY <1>5, <1>7, <1>8, <1>9 DEF IInv, TypeOK
<1>11. Places'
  BY <1>1, <1>5, <1>7, <1>8 DEF IInv, TypeOK, Places
<1>12. Writings' /\ LateAreSound'
  BY <1>5, <1>6, <1>7, <1>8 DEF IInv, TypeOK, Writings, LateAreSound
<1>13. QED
  BY <1>10, <1>11, <1>12 DEF IInv

LEMMA ApplyPreserves ==
  ASSUME IInv, NEW c \in Clients, Apply(c)
  PROVE  IInv'
<1>1. pc[c] = "waiting"
  BY DEF Apply
<1>2. PICK mapped \in Mapped(request[c].write) :
        /\ Carry(request[c].write, mapped)
        /\ request' = [request EXCEPT ![c].completion =
             [previous |-> mutable[Target(c)], mapped |-> mapped]]
  BY DEF Apply
<1> DEFINE completion == [previous |-> mutable[Target(c)], mapped |-> mapped]
           new == [request[c] EXCEPT !.completion = completion]
<1>3. mapped \in SUBSET Stores
  BY <1>1, <1>2, WaitingHasARequest DEF Mapped, Reached
<1>4. completion \in Completions
  BY <1>3, TargetsAreStores DEF Completions, IInv, TypeOK
<1>5. new \in Requests /\ new.write = request[c].write
  BY <1>1, <1>4, WaitingHasARequest DEF Requests
<1>6. request' = [request EXCEPT ![c] = new]
  BY <1>2
<1> HIDE DEF completion, new
<1>7. UNCHANGED <<held, pc, seen, late, outcome, failures, lost>>
  BY DEF Apply
<1>8. mutable' \in [Stores -> Hashes] /\ erased' \subseteq Clients
  BY <1>1, <1>2, <1>3, WaitingHasARequest, CarryLeaves DEF IInv
<1>9. TypeOK'
  BY <1>5, <1>6, <1>7, <1>8 DEF IInv, TypeOK
<1>10. Places'
  BY <1>1, <1>5, <1>6, <1>7 DEF IInv, TypeOK, Places
<1>11. Writings' /\ LateAreSound'
  BY <1>1, <1>5, <1>6, <1>7, WaitingHasARequest DEF IInv, TypeOK, Writings, LateAreSound
<1>12. QED
  BY <1>9, <1>10, <1>11 DEF IInv

LEMMA ApplyLatePreserves ==
  ASSUME IInv, NEW write \in late, ApplyLate(write)
  PROVE  IInv'
<1>1. write \in Writes /\ write.stores \in SUBSET Stores
  BY DEF IInv, TypeOK, Writes
<1>2. Carry(write, write.stores) /\ late' = late \ {write}
      /\ UNCHANGED <<held, pc, seen, request, outcome, failures, lost>>
  BY DEF ApplyLate
<1>3. mutable' \in [Stores -> Hashes] /\ erased' \subseteq Clients
  BY <1>1, <1>2, CarryLeaves DEF IInv
<1>4. TypeOK'
  BY <1>2, <1>3 DEF IInv, TypeOK
<1>5. Places' /\ Writings' /\ LateAreSound'
  BY <1>2 DEF IInv, Places, Writings, LateAreSound
<1>6. QED
  BY <1>4, <1>5 DEF IInv

LEMMA ReturnSwapPreserves ==
  ASSUME IInv, NEW c \in Clients, ReturnSwap(c)
  PROVE  IInv'
<1> DEFINE told == SwapOutcome(request[c].write.expected, request[c].completion.previous)
<1>1. /\ pc[c] = "waiting" /\ Role[c] # "publish" /\ ~Contradicts(c)
      /\ request[c].completion \in Completions
  BY WaitingHasARequest DEF ReturnSwap, IInv, Places
<1>2. request' = [request EXCEPT ![c] = None]
      /\ UNCHANGED <<mutable, held, late, erased, failures, lost>>
  BY DEF ReturnSwap
<1>3. /\ seen' \in [Clients -> (Hashes \ {ZERO}) \cup {None}]
      /\ outcome' \in [Clients -> Outcomes \cup {None}]
      /\ \/ pc' = [pc EXCEPT ![c] = "done"]
         \/ pc' = [pc EXCEPT ![c] = "modified"] /\ Role[c] = "update"
         \/ pc' = [pc EXCEPT ![c] = "stored"]
  <2>1. CASE told.is = "Swapped"
    <3>1. told \in Outcomes
      BY <2>1 DEF SwapOutcome, Outcomes
    <3>2. QED
      BY <2>1, <3>1 DEF ReturnSwap, End, IInv, TypeOK
  <2>2. CASE told.is # "Swapped"
    <3>1. told.current \in (Hashes \ {ZERO}) \cup {None}
      BY <1>1, <2>2, FoundIsARevision DEF SwapOutcome, Completions
    <3>2. /\ pc' = [pc EXCEPT ![c] = Onward(c, told.current)]
          /\ seen' = [seen EXCEPT ![c] = told.current] /\ outcome' = outcome
      BY <2>2 DEF ReturnSwap
    <3>3. \/ Onward(c, told.current) = "done" \/ Onward(c, told.current) = "stored"
          \/ Onward(c, told.current) = "modified" /\ Role[c] = "update"
      <4> DEFINE hash == told.current
      <4> HIDE DEF hash
      <4>1. CASE Role[c] = "update"
        BY <4>1 DEF Onward
      <4>2. CASE Role[c] # "update" /\ hash # None
        BY <4>2 DEF Onward
      <4>3. CASE Role[c] # "update" /\ hash = None
        BY <4>3 DEF Onward
      <4>4. QED
        BY <4>1, <4>2, <4>3
    <3>4. QED
      BY <3>1, <3>2, <3>3 DEF IInv, TypeOK
  <2>3. QED
    BY <2>1, <2>2
<1>4. TypeOK'
  BY <1>2, <1>3 DEF IInv, TypeOK
<1>5. Places'
  BY <1>1, <1>2, <1>3 DEF IInv, TypeOK, Places
<1>6. Writings' /\ LateAreSound'
  BY <1>2 DEF IInv, TypeOK, Writings, LateAreSound
<1>7. QED
  BY <1>4, <1>5, <1>6 DEF IInv

LEMMA ReturnPublishPreserves ==
  ASSUME IInv, NEW c \in Clients, ReturnPublish(c)
  PROVE  IInv'
<1> DEFINE told == PublishOutcome(c \in request[c].completion.mapped,
                                  Server \in request[c].completion.mapped)
<1>1. told \in Outcomes
  BY DEF PublishOutcome, Outcomes
<1>2. /\ pc' = [pc EXCEPT ![c] = "done"] /\ outcome' = [outcome EXCEPT ![c] = told]
      /\ request' = [request EXCEPT ![c] = None]
      /\ UNCHANGED <<mutable, held, seen, late, erased, failures, lost>>
  BY DEF ReturnPublish, End
<1> HIDE DEF told
<1>3. TypeOK'
  BY <1>1, <1>2 DEF IInv, TypeOK
<1>4. Places'
  BY <1>2 DEF IInv, TypeOK, Places
<1>5. Writings' /\ LateAreSound'
  BY <1>2 DEF IInv, TypeOK, Writings, LateAreSound
<1>6. QED
  BY <1>3, <1>4, <1>5 DEF IInv

LEMMA ReturnFailedPreserves ==
  ASSUME IInv, NEW c \in Clients, ReturnFailed(c)
  PROVE  IInv'
<1>1. /\ pc' = [pc EXCEPT ![c] = "start"] /\ request' = [request EXCEPT ![c] = None]
      /\ UNCHANGED <<mutable, held, seen, outcome, erased, lost>>
      /\ late' \in {late, late \cup {request[c].write}}
      /\ pc[c] \in {"storing", "waiting"}
  BY DEF ReturnFailed
<1>2. request[c].write \in Writes /\ Sound(request[c].write)
  BY <1>1, WaitingHasARequest, WritesOfAreSound
<1>3. late' \subseteq Writes /\ LateAreSound'
  BY <1>1, <1>2 DEF IInv, TypeOK, LateAreSound
<1>4. failures' \in 0..MaxFailures
  BY DEF IInv, TypeOK, ReturnFailed
<1>5. TypeOK'
  BY <1>1, <1>3, <1>4 DEF IInv, TypeOK
<1>6. Places' /\ Writings'
  BY <1>1 DEF IInv, TypeOK, Places, Writings
<1>7. QED
  BY <1>3, <1>5, <1>6 DEF IInv

LEMMA StepPreserves == IInv /\ [Next]_vars => IInv'
<1> SUFFICES ASSUME IInv, [Next]_vars PROVE IInv'
  OBVIOUS
<1>1. ASSUME NEW c \in Clients, Progress(c) \/ ReturnFailed(c) PROVE IInv'
  BY <1>1, RefusedPreserves, ResolvePreserves, PutPreserves, BeginSwapPreserves,
     ReturnSwapPreserves, BeginPublishPreserves, StorePreserves, ReturnPublishPreserves,
     ApplyPreserves, ReturnFailedPreserves DEF Progress
<1>2. ASSUME NEW write \in late, ApplyLate(write) PROVE IInv'
  BY <1>2, ApplyLatePreserves
<1>3. CASE UNCHANGED vars
  BY <1>3 DEF vars, IInv, TypeOK, Places, Writings, LateAreSound
<1>4. QED
  BY <1>1, <1>2, <1>3 DEF Next

(***************************************************************************)
(* The inductive invariant of the clients' writes holds in every reachable *)
(* state, however many calls fail.                                         *)
(***************************************************************************)
THEOREM Invariance == Spec => []IInv
<1>1. QED
  BY InitEstablishes, StepPreserves, PTL DEF Spec

(***************************************************************************)
(* The type invariant of a shared key; in it, that a hash a client starts  *)
(* from is never a Some(zero).                                             *)
(***************************************************************************)
THEOREM TypeCorrect == Spec => []TypeOK
<1>1. IInv => TypeOK
  BY DEF IInv
<1>2. QED
  BY <1>1, Invariance, PTL

-----------------------------------------------------------------------------
(* Contents come to the server before the key names them.                  *)
LEMMA ContentSteps ==
  ASSUME IInv, ContentFirst, [Next]_vars
  PROVE  ContentFirst'
<1> USE DEF Backed
<1>1. ASSUME NEW c \in Clients, Refused(c) PROVE ContentFirst'
  BY <1>1 DEF Refused, ContentFirst, NewContent, IInv, TypeOK
<1>2. ASSUME NEW c \in Clients, ResolveKey(c) PROVE ContentFirst'
  <2>1. UNCHANGED <<mutable, held, request, late, lost>>
        /\ seen' = [seen EXCEPT ![c] = Found(Loaded(c))]
        /\ pc' = [pc EXCEPT ![c] = Onward(c, Found(Loaded(c)))]
        /\ Role[c] # "publish"
    BY <1>2 DEF ResolveKey
  <2>2. pc'[c] # "waiting" /\ (pc'[c] = "stored" => Role[c] = "retract")
    BY <2>1 DEF Onward, IInv, TypeOK
  <2>3. pc'[c] = "stored" => NewContent(c)' = ZERO
    BY <2>2 DEF NewContent
  <2>4. \A d \in Clients : d # c => NewContent(d)' = NewContent(d) /\ pc'[d] = pc[d]
    BY <2>1 DEF NewContent, IInv, TypeOK
  <2>5. QED
    BY <2>1, <2>2, <2>3, <2>4 DEF ContentFirst
<1>3. ASSUME NEW c \in Clients, PutContent(c) PROVE ContentFirst'
  <2> DEFINE asked == Destinations(c, RawPut(NewContent(c)))
  <2>1. PICK landed \in {asked, {c}} :
          /\ lost' = IF landed = asked THEN lost ELSE lost + 1
          /\ held' = Stored(NewContent(c), landed)
          /\ pc[c] = "modified"
          /\ pc' = [pc EXCEPT ![c] = "stored"]
          /\ UNCHANGED <<mutable, seen, request, late>>
    BY <1>3 DEF PutContent
  <2>2. held \subseteq held'
    BY <2>1 DEF Stored
  <2>3. lost' = 0 => lost = 0 /\ landed = asked
    BY <2>1 DEF IInv, TypeOK
  <2>4. \A d \in Clients : NewContent(d)' = NewContent(d)
    BY <2>1 DEF NewContent
  <2>5. lost' = 0 /\ Target(c) = Server => NewContent(c) \in held'
    <3>1. SUFFICES ASSUME lost' = 0, Target(c) = Server PROVE NewContent(c) \in held'
      OBVIOUS
    <3>2. ~Contradicts(c)
      BY <2>1 DEF IInv, Places
    <3>3. Server \in landed
      BY <2>3, <3>1, <3>2, ServersUsersPutThere
    <3>4. QED
      BY <2>1, <3>3 DEF Stored
  <2> HIDE DEF asked
  <2>6. ZERO \in held'
    BY <2>2 DEF ContentFirst
  <2>7. lost' = 0 => mutable'[Server] \in held' /\ \A write \in late' : Backed(write)'
    BY <2>1, <2>2, <2>3 DEF ContentFirst
  <2>8. ASSUME NEW d \in Clients, lost' = 0
        PROVE  /\ pc'[d] = "waiting" => Backed(request[d].write)'
               /\ pc'[d] = "stored" /\ Target(d) = Server => NewContent(d)' \in held'
    <3>1. CASE d = c
      BY <2>1, <2>4, <2>5, <2>8, <3>1 DEF IInv, TypeOK
    <3>2. CASE d # c
      BY <2>1, <2>2, <2>3, <2>4, <2>8, <3>2 DEF ContentFirst, IInv, TypeOK
    <3>3. QED
      BY <3>1, <3>2
  <2>9. QED
    BY <2>6, <2>7, <2>8 DEF ContentFirst, Target, CallFlags, Backed
<1>4. ASSUME NEW c \in Clients, BeginSwap(c) PROVE ContentFirst'
  <2>1. /\ UNCHANGED <<mutable, held, late, lost>> /\ pc[c] = "stored"
        /\ request' = Request(c, SwapItem(c, OrZero(seen[c]), NewContent(c)))
        /\ pc' = [pc EXCEPT ![c] = "waiting"] /\ seen' = [seen EXCEPT ![c] = None]
    BY <1>4 DEF BeginSwap
  <2>2. /\ request'[c].write.stores = {Target(c)} /\ request'[c].write.value = NewContent(c)
        /\ \A d \in Clients : d # c => request'[d] = request[d]
    BY <2>1 DEF Request, SwapItem, IInv, TypeOK
  <2>3. lost = 0 => (Server \in request'[c].write.stores => request'[c].write.value \in held)
    BY <2>1, <2>2 DEF ContentFirst
  <2>4. \A d \in Clients : d # c => NewContent(d)' = NewContent(d) /\ pc'[d] = pc[d]
    BY <2>1 DEF NewContent, IInv, TypeOK
  <2>5. pc'[c] = "waiting"
    BY <2>1 DEF IInv, TypeOK
  <2>6. QED
    BY <2>1, <2>2, <2>3, <2>4, <2>5 DEF ContentFirst
<1>5. ASSUME NEW c \in Clients, BeginPublish(c) PROVE ContentFirst'
  <2>1. /\ UNCHANGED <<mutable, held, seen, late, lost>>
        /\ request' = Request(c, PublishItem(c, NewContent(c)))
        /\ pc' = [pc EXCEPT ![c] = "storing"]
    BY <1>5 DEF BeginPublish
  <2>2. \A d \in Clients : /\ NewContent(d)' = NewContent(d)
                           /\ d # c => pc'[d] = pc[d] /\ request'[d] = request[d]
    BY <2>1 DEF NewContent, Request, IInv, TypeOK
  <2>3. pc'[c] = "storing"
    BY <2>1 DEF IInv, TypeOK
  <2>4. QED
    BY <2>1, <2>2, <2>3 DEF ContentFirst
<1>6. ASSUME NEW c \in Clients, StoreContent(c) PROVE ContentFirst'
  <2>1. PICK landed \in Reached(request[c].write.stores) :
          /\ held' = Stored(request[c].write.value, landed)
          /\ request' = [request EXCEPT ![c].write.stores = landed]
    BY <1>6 DEF StoreContent
  <2>2. /\ UNCHANGED <<mutable, seen, late, lost>> /\ pc' = [pc EXCEPT ![c] = "waiting"]
        /\ pc[c] = "storing"
    BY <1>6 DEF StoreContent
  <2>3. held \subseteq held'
    BY <2>1 DEF Stored
  <2>4. request[c].write \in Writes /\ request[c] \in Requests
    BY <2>2, WaitingHasARequest
  <2>5. /\ request'[c].write.stores = landed
        /\ request'[c].write.value = request[c].write.value
    BY <2>1, <2>4 DEF Requests, Writes, IInv, TypeOK
  <2>6. Server \in request'[c].write.stores => request'[c].write.value \in held'
    BY <2>1, <2>5 DEF Stored
  <2>7. \A d \in Clients : /\ NewContent(d)' = NewContent(d)
                           /\ d # c => pc'[d] = pc[d] /\ request'[d] = request[d]
    BY <2>1, <2>2 DEF NewContent, IInv, TypeOK
  <2>8. pc'[c] = "waiting"
    BY <2>2 DEF IInv, TypeOK
  <2>9. QED
    BY <2>2, <2>3, <2>6, <2>7, <2>8 DEF ContentFirst
<1>7. ASSUME NEW c \in Clients, Apply(c) PROVE ContentFirst'
  <2>1. PICK mapped \in Mapped(request[c].write) :
          /\ Carry(request[c].write, mapped)
          /\ request' = [request EXCEPT ![c].completion =
               [previous |-> mutable[Target(c)], mapped |-> mapped]]
    BY <1>7 DEF Apply
  <2>2. UNCHANGED <<held, pc, seen, late, lost>> /\ pc[c] = "waiting"
    BY <1>7 DEF Apply
  <2>3. request[c] \in Requests /\ request[c].write \in Writes
        /\ request[c].write.stores \in SUBSET Stores
    BY <2>2, WaitingHasARequest
  <2>4. \A d \in Clients : pc[d] = "waiting" => request'[d].write = request[d].write
    BY <2>1, <2>3 DEF Requests, IInv, TypeOK
  <2>5. mapped \subseteq request[c].write.stores
    BY <2>1 DEF Mapped, Reached
  <2>6. mutable'[Server] = mutable[Server]
        \/ (Server \in request[c].write.stores /\ mutable'[Server] = request[c].write.value)
    BY <2>1, <2>3, <2>5, CarryLeaves DEF IInv
  <2>7. \A d \in Clients : NewContent(d)' = NewContent(d)
    BY <2>2 DEF NewContent
  <2>8. QED
    BY <2>2, <2>4, <2>6, <2>7 DEF ContentFirst
<1>8. ASSUME NEW c \in Clients, ReturnSwap(c) PROVE ContentFirst'
  <2> DEFINE told == SwapOutcome(request[c].write.expected, request[c].completion.previous)
  <2>1. /\ UNCHANGED <<mutable, held, late, lost>> /\ Role[c] # "publish"
        /\ request' = [request EXCEPT ![c] = None]
        /\ \/ pc' = [pc EXCEPT ![c] = "done"] /\ seen' = seen
           \/ /\ pc' = [pc EXCEPT ![c] = Onward(c, told.current)]
              /\ seen' = [seen EXCEPT ![c] = told.current]
    BY <1>8 DEF ReturnSwap, End
  <2> HIDE DEF told
  <2>2. pc'[c] # "waiting" /\ (pc'[c] = "stored" => Role[c] = "retract")
    BY <2>1 DEF Onward, IInv, TypeOK
  <2>3. pc'[c] = "stored" => NewContent(c)' = ZERO
    BY <2>2 DEF NewContent
  <2>4. \A d \in Clients :
          d # c => NewContent(d)' = NewContent(d) /\ pc'[d] = pc[d] /\ request'[d] = request[d]
    BY <2>1 DEF NewContent, IInv, TypeOK
  <2>5. QED
    BY <2>1, <2>2, <2>3, <2>4 DEF ContentFirst
<1>9. ASSUME NEW c \in Clients, ReturnPublish(c) PROVE ContentFirst'
  <2>1. /\ UNCHANGED <<mutable, held, seen, late, lost>>
        /\ request' = [request EXCEPT ![c] = None] /\ pc' = [pc EXCEPT ![c] = "done"]
    BY <1>9 DEF ReturnPublish, End
  <2>2. \A d \in Clients : /\ NewContent(d)' = NewContent(d)
                           /\ d # c => pc'[d] = pc[d] /\ request'[d] = request[d]
    BY <2>1 DEF NewContent, IInv, TypeOK
  <2>3. pc'[c] = "done"
    BY <2>1 DEF IInv, TypeOK
  <2>4. QED
    BY <2>1, <2>2, <2>3 DEF ContentFirst
<1>10. ASSUME NEW c \in Clients, ReturnFailed(c) PROVE ContentFirst'
  <2>1. /\ UNCHANGED <<mutable, held, seen, lost>>
        /\ request' = [request EXCEPT ![c] = None] /\ pc' = [pc EXCEPT ![c] = "start"]
        /\ late' = late \/ (late' = late \cup {request[c].write} /\ pc[c] = "waiting")
    BY <1>10 DEF ReturnFailed
  <2>2. \A d \in Clients : /\ NewContent(d)' = NewContent(d)
                           /\ d # c => pc'[d] = pc[d] /\ request'[d] = request[d]
    BY <2>1 DEF NewContent, IInv, TypeOK
  <2>3. pc'[c] = "start"
    BY <2>1 DEF IInv, TypeOK
  <2>4. QED
    BY <2>1, <2>2, <2>3 DEF ContentFirst
<1>11. ASSUME NEW write \in late, ApplyLate(write) PROVE ContentFirst'
  <2>1. Carry(write, write.stores) /\ late' \subseteq late
        /\ UNCHANGED <<held, pc, seen, request, lost>>
    BY <1>11 DEF ApplyLate
  <2>2. write \in Writes /\ write.stores \in SUBSET Stores
    BY DEF IInv, TypeOK, Writes
  <2>3. mutable'[Server] = mutable[Server]
        \/ (Server \in write.stores /\ mutable'[Server] = write.value)
    BY <2>1, <2>2, CarryLeaves DEF IInv
  <2>4. \A d \in Clients : NewContent(d)' = NewContent(d)
    BY <2>1 DEF NewContent
  <2>5. QED
    BY <2>1, <2>3, <2>4 DEF ContentFirst
<1>12. CASE UNCHANGED vars
  BY <1>12 DEF vars, ContentFirst, NewContent
<1>13. QED
  BY <1>1, <1>2, <1>3, <1>4, <1>5, <1>6, <1>7, <1>8, <1>9, <1>10, <1>11, <1>12
     DEF Next, Progress

(***************************************************************************)
(* As long as no put has lost its remote write, the server holds what its  *)
(* key names: after any swaps, publications and retractions, failed calls  *)
(* and requests that come through late.                                    *)
(***************************************************************************)
THEOREM KeysNameContent == Spec => [](lost = 0 => KeyNamesContent)
<1>1. ContentFirst => (lost = 0 => KeyNamesContent)
  BY DEF ContentFirst, KeyNamesContent
<1>2. Spec => []ContentFirst
  BY InitEstablishes, ContentSteps, Invariance, PTL DEF Spec
<1>3. QED
  BY <1>1, <1>2, PTL

-----------------------------------------------------------------------------
(* What the key names, or has lost to a publication or a retraction.       *)
Accounted == mutable[Server] \cup erased

(* Updates that are to be seen by others are swapped on the server.        *)
UpdatesAreShared == \A c \in Clients : Role[c] = "update" => Target(c) = Server

(* A write's completion tells of what the key has accounted for since.     *)
ToldSoFar ==
  /\ NoLostUpdate
  /\ \A c \in Clients :
       request[c] # None /\ request[c].completion # None =>
         /\ Role[c] = "update" /\ request[c].completion.previous = request[c].write.expected
              => c \in Accounted
         /\ Role[c] = "publish" /\ Server \in request[c].completion.mapped => c \in Accounted

(* Nothing leaves the key that is not accounted for.                       *)
LEMMA CarryAccounts ==
  ASSUME TypeOK, NEW write \in Writes, NEW stores \in SUBSET Stores, Sound(write),
         Carry(write, stores)
  PROVE  /\ Accounted \subseteq Accounted'
         /\ Server \in stores /\ Takes(Server, write) => write.value \subseteq Accounted'
<1>1. mutable'[Server] = IF Server \in stores /\ Takes(Server, write)
                         THEN write.value ELSE mutable[Server]
  BY CarryLeaves
<1>2. CASE ~(Server \in stores /\ Takes(Server, write))
  BY <1>1, <1>2 DEF Carry, Accounted
<1>3. CASE Server \in stores /\ Takes(Server, write)
  <2>1. mutable'[Server] = write.value
    BY <1>1, <1>3
  <2>2. erased' = (erased \cup (IF Erases(write) THEN mutable[Server] ELSE {})) \ write.value
    BY <1>3 DEF Carry
  <2>3. CASE Erases(write)
    BY <2>1, <2>2, <2>3 DEF Accounted
  <2>4. CASE ~Erases(write)
    <3>1. mutable[Server] \subseteq write.value
      BY <1>3, <2>4 DEF Erases, Takes, Sound
    <3>2. QED
      BY <2>1, <2>2, <2>4, <3>1 DEF Accounted
  <2>5. QED
    BY <2>3, <2>4
<1>4. QED
  BY <1>2, <1>3

(* A step that leaves the key, what clients were told and their pending    *)
(* completions as they are, a call's end included, disturbs nothing.       *)
LEMMA QuietSteps ==
  ASSUME IInv, ToldSoFar, UNCHANGED outcome, Accounted \subseteq Accounted',
         \A d \in Clients :
            \/ request'[d] = None \/ request'[d].completion = None
            \/ request'[d] = request[d]
  PROVE  ToldSoFar'
<1>1. NoLostUpdate'
  BY DEF ToldSoFar, NoLostUpdate, ToldVisible, Accounted
<1>2. QED
  BY <1>1 DEF ToldSoFar

LEMMA ToldSteps ==
  ASSUME UpdatesAreShared, IInv, ToldSoFar, [Next]_vars
  PROVE  ToldSoFar'
<1>1. ASSUME NEW c \in Clients, Refused(c) \/ ResolveKey(c) \/ PutContent(c) PROVE ToldSoFar'
  <2>1. UNCHANGED <<mutable, request, outcome, erased>>
    BY <1>1 DEF Refused, ResolveKey, PutContent
  <2>2. QED
    BY <2>1, QuietSteps DEF Accounted
<1>2. ASSUME NEW c \in Clients, BeginSwap(c) \/ BeginPublish(c) PROVE ToldSoFar'
  <2>1. PICK write : /\ request' = [request EXCEPT ![c] = [write |-> write, completion |-> None]]
                     /\ UNCHANGED <<mutable, outcome, erased>>
    BY <1>2 DEF BeginSwap, BeginPublish, Request
  <2>2. \A d \in Clients : request'[d].completion = None \/ request'[d] = request[d]
    BY <2>1 DEF IInv, TypeOK
  <2>3. QED
    BY <2>1, <2>2, QuietSteps DEF Accounted
<1>3. ASSUME NEW c \in Clients, StoreContent(c) PROVE ToldSoFar'
  <2>1. PICK landed : request' = [request EXCEPT ![c].write.stores = landed]
    BY <1>3 DEF StoreContent
  <2>2. UNCHANGED <<mutable, outcome, erased>> /\ pc[c] = "storing"
    BY <1>3 DEF StoreContent
  <2>3. Role[c] = "publish" /\ request[c] # None /\ request[c] \in Requests
    BY <2>2, WaitingHasARequest DEF IInv, Places
  <2>4. request'[c].completion = request[c].completion
    BY <2>1, <2>3 DEF Requests, IInv, TypeOK
  <2>5. \A d \in Clients : d # c => request'[d] = request[d]
    BY <2>1 DEF IInv, TypeOK
  <2>6. NoLostUpdate'
    BY <2>2 DEF ToldSoFar, NoLostUpdate, ToldVisible
  <2>7. QED
    BY <2>2, <2>3, <2>4, <2>5, <2>6 DEF ToldSoFar, Accounted
<1>4. ASSUME NEW c \in Clients, Apply(c) PROVE ToldSoFar'
  <2>1. PICK mapped \in Mapped(request[c].write) :
          /\ Carry(request[c].write, mapped)
          /\ request' = [request EXCEPT ![c].completion =
               [previous |-> mutable[Target(c)], mapped |-> mapped]]
    BY <1>4 DEF Apply
  <2>2. UNCHANGED outcome /\ pc[c] = "waiting"
    BY <1>4 DEF Apply
  <2>3. /\ request[c] \in Requests /\ request[c].write \in Writes
        /\ request[c].write.stores \in SUBSET Stores /\ WriteOf(c, request[c].write)
    BY <2>2, WaitingHasARequest
  <2>4. mapped \in SUBSET Stores
    BY <2>1, <2>3 DEF Mapped, Reached
  <2>5. /\ Accounted \subseteq Accounted'
        /\ Server \in mapped /\ Takes(Server, request[c].write)
             => request[c].write.value \subseteq Accounted'
    BY <2>1, <2>3, <2>4, WritesOfAreSound, CarryAccounts DEF IInv
  <2>6. /\ request'[c].completion = [previous |-> mutable[Target(c)], mapped |-> mapped]
        /\ request'[c].write = request[c].write
        /\ \A d \in Clients : d # c => request'[d] = request[d]
    BY <2>1, <2>3 DEF Requests, IInv, TypeOK
  <2>7. Role[c] = "update" /\ request'[c].completion.previous = request'[c].write.expected
          => c \in Accounted'
    <3>1. SUFFICES ASSUME Role[c] = "update", mutable[Target(c)] = request[c].write.expected
                   PROVE  c \in Accounted'
      BY <2>6
    <3>2. /\ Target(c) = Server /\ request[c].write.stores = {Server}
          /\ request[c].write.expected \in Hashes /\ c \in request[c].write.value
      BY <2>3, <3>1 DEF WriteOf, UpdatesAreShared
    <3>3. mapped = {Server}
      BY <2>1, <3>2 DEF Mapped, Hashes
    <3>4. QED
      BY <2>5, <3>1, <3>2, <3>3 DEF Takes
  <2>8. Role[c] = "publish" /\ Server \in request'[c].completion.mapped => c \in Accounted'
    <3>1. SUFFICES ASSUME Role[c] = "publish", Server \in mapped PROVE c \in Accounted'
      BY <2>6
    <3>2. QED
      BY <2>3, <2>5, <3>1 DEF WriteOf, Takes
  <2>9. NoLostUpdate'
    BY <2>2, <2>5 DEF ToldSoFar, NoLostUpdate, ToldVisible, Accounted
  <2>10. QED
    BY <2>5, <2>6, <2>7, <2>8, <2>9 DEF ToldSoFar
<1>5. ASSUME NEW c \in Clients, ReturnSwap(c) PROVE ToldSoFar'
  <2> DEFINE told == SwapOutcome(request[c].write.expected, request[c].completion.previous)
  <2>1. /\ UNCHANGED <<mutable, erased>> /\ request' = [request EXCEPT ![c] = None]
        /\ Role[c] # "publish" /\ request[c].completion # None /\ request[c] # None
    BY <1>5 DEF ReturnSwap, IInv, Places
  <2>2. told.is = "Swapped" => request[c].completion.previous = request[c].write.expected
    BY DEF SwapOutcome
  <2>3. CASE told.is = "Swapped"
    <3>1. outcome' = [outcome EXCEPT ![c] = told]
      BY <1>5, <2>3 DEF ReturnSwap, End
    <3>2. Role[c] = "update" => c \in Accounted
      BY <2>1, <2>2, <2>3 DEF ToldSoFar
    <3> HIDE DEF told
    <3>3. NoLostUpdate'
      <4>1. SUFFICES ASSUME NEW d \in Clients, ToldVisible(d)' PROVE d \in Accounted
        BY <2>1 DEF NoLostUpdate, Accounted
      <4>2. CASE d = c
        BY <2>1, <3>2, <4>1, <4>2 DEF ToldVisible
      <4>3. CASE d # c
        <5>1. outcome'[d] = outcome[d]
          BY <3>1, <4>3 DEF IInv, TypeOK
        <5>2. QED
          BY <4>1, <5>1 DEF ToldVisible, ToldSoFar, NoLostUpdate, Accounted
      <4>4. QED
        BY <4>2, <4>3
    <3>4. QED
      BY <2>1, <3>3 DEF ToldSoFar, Accounted, IInv, TypeOK
  <2>4. CASE told.is # "Swapped"
    <3>1. outcome' = outcome
      BY <1>5, <2>4 DEF ReturnSwap
    <3>2. \A d \in Clients : request'[d] = None \/ request'[d] = request[d]
      BY <2>1 DEF IInv, TypeOK
    <3>3. QED
      BY <2>1, <3>1, <3>2, QuietSteps DEF Accounted
  <2>5. QED
    BY <2>3, <2>4
<1>6. ASSUME NEW c \in Clients, ReturnPublish(c) PROVE ToldSoFar'
  <2> DEFINE mapped == request[c].completion.mapped
  <2>1. /\ UNCHANGED <<mutable, erased>> /\ request' = [request EXCEPT ![c] = None]
        /\ Role[c] = "publish" /\ request[c].completion # None /\ request[c] # None
        /\ outcome' = [outcome EXCEPT ![c] = PublishOutcome(c \in mapped, Server \in mapped)]
    BY <1>6 DEF ReturnPublish, End, IInv, Places
  <2>2. Server \in mapped => c \in Accounted
    BY <2>1 DEF ToldSoFar
  <2>3. NoLostUpdate'
    <3>1. SUFFICES ASSUME NEW d \in Clients, ToldVisible(d)' PROVE d \in Accounted
      BY <2>1 DEF NoLostUpdate, Accounted
    <3>2. CASE d = c
      <4>1. outcome'[c].stored_remote = (Server \in mapped)
        BY <2>1 DEF PublishOutcome, IInv, TypeOK
      <4>2. QED
        BY <2>1, <2>2, <3>1, <3>2, <4>1 DEF ToldVisible
    <3>3. CASE d # c
      <4>1. outcome'[d] = outcome[d]
        BY <2>1, <3>3 DEF IInv, TypeOK
      <4>2. QED
        BY <3>1, <4>1 DEF ToldVisible, ToldSoFar, NoLostUpdate, Accounted
    <3>4. QED
      BY <3>2, <3>3
  <2>4. QED
    BY <2>1, <2>3 DEF ToldSoFar, Accounted, IInv, TypeOK
<1>7. ASSUME NEW c \in Clients, ReturnFailed(c) PROVE ToldSoFar'
  <2>1. UNCHANGED <<mutable, outcome, erased>> /\ request' = [request EXCEPT ![c] = None]
    BY <1>7 DEF ReturnFailed
  <2>2. \A d \in Clients : request'[d] = None \/ request'[d] = request[d]
    BY <2>1 DEF IInv, TypeOK
  <2>3. QED
    BY <2>1, <2>2, QuietSteps DEF Accounted
<1>8. ASSUME NEW write \in late, ApplyLate(write) PROVE ToldSoFar'
  <2>1. Carry(write, write.stores) /\ UNCHANGED <<request, outcome>>
    BY <1>8 DEF ApplyLate
  <2>2. write \in Writes /\ write.stores \in SUBSET Stores /\ Sound(write)
    BY DEF IInv, TypeOK, Writes, LateAreSound
  <2>3. Accounted \subseteq Accounted'
    BY <2>1, <2>2, CarryAccounts DEF IInv
  <2>4. QED
    BY <2>1, <2>3, QuietSteps
<1>9. CASE UNCHANGED vars
  BY <1>9, QuietSteps DEF vars, Accounted
<1>10. QED
  BY <1>1, <1>2, <1>3, <1>4, <1>5, <1>6, <1>7, <1>8, <1>9 DEF Next, Progress

(***************************************************************************)
(* Where the updates go to the server, no update and no publication a      *)
(* client was told is visible is lost from the key except to a publication *)
(* or a retraction: not to any swap, retried, failed or late.              *)
(***************************************************************************)
THEOREM NoUpdateIsLost ==
  ASSUME UpdatesAreShared
  PROVE  Spec => []NoLostUpdate
<1>1. Init => ToldSoFar
  BY DEF Init, ToldSoFar, NoLostUpdate, ToldVisible
<1>2. IInv /\ ToldSoFar /\ [Next]_vars => ToldSoFar'
  BY ToldSteps
<1>3. ToldSoFar => NoLostUpdate
  BY DEF ToldSoFar
<1>4. QED
  BY <1>1, <1>2, <1>3, Invariance, PTL DEF Spec
=============================================================================
