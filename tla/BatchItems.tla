----------------------------- MODULE BatchItems -----------------------------
(***************************************************************************)
(* Store's verbs that hear of each item by one completion and no bytes:    *)
(* put_many (and put, a batch of one), resolve_many, and the one-item      *)
(* resolve, metadata and put_resolved.  Lore works on the items of a call  *)
(* concurrently and completes them in any order; the callback files each   *)
(* completion under its id, and the caller folds them with how the call    *)
(* returned once it has.                                                   *)
(***************************************************************************)
EXTENDS LoreOutcome, Integers, FiniteSets

CONSTANTS
  Items,     \* a batch's positions, which are the ids of its items
  Hashes,    \* what an item can be reported with: a hash, or a fragment
  ZeroHash,  \* the hash of empty content, and of a key without a mapping
  Apis,      \* the verbs a run goes through
  Strays     \* BOOLEAN if events may carry an id of no item, else {FALSE}

NotFound == "NOT_FOUND"
ManyApis == {"put_many", "resolve_many"}
OneApis == {"put", "resolve", "metadata", "put_resolved"}

ASSUME ItemsAssumption ==
  /\ IsFiniteSet(Items) /\ Items \subseteq Nat /\ 0 \in Items
  /\ NotFound \in Codes
  /\ ZeroHash \in Hashes
  /\ None \notin Hashes /\ None \notin [hash : Hashes, context : Items]
  /\ Apis \subseteq ManyApis \cup OneApis
  /\ Strays \in {{FALSE}, BOOLEAN}

VARIABLES
  api,
  reported,     \* Lore's side: what it reported of each item, None before
  completions,  \* what was filed under each position
  result,       \* how the call returned, None until it has
  answer        \* what the caller got, None until it has it

vars == <<api, reported, completions, result, answer>>

(* What a call asks for: a one-item verb passes a single item, its id 0.   *)
Batch == IF api \in OneApis THEN {0} ELSE Items

Completion == [hash : Hashes, code : RawCodes]

TypeOK ==
  /\ api \in Apis
  /\ reported \in [Batch -> Completion \cup {None}]
  /\ completions \in [Batch -> Completion \cup {None}]
  /\ result \in CallResults \cup {None}

Init ==
  /\ api \in Apis
  /\ reported = [i \in Batch |-> None]
  /\ completions = [i \in Batch |-> None]
  /\ result = None
  /\ answer = None

-----------------------------------------------------------------------------
(* Variant: completions are filed in the order they come in.               *)
FileInOrder(i, completion) ==
  LET open == {j \in Batch : completions[j] = None}
      next == CHOOSE j \in open : \A k \in open : j <= k
  IN  completions' = [completions EXCEPT ![next] = completion]

(* Variant: the code is decoded before it is filed, a success to None.     *)
FileDecoded(i, completion) ==
  completions' = [completions EXCEPT ![i] = [completion EXCEPT !.code = FromRaw(@)]]

(* The callback: the position is the id, so it lands in its own slot.      *)
File(i, completion) == completions' = [completions EXCEPT ![i] = completion]

(* The id of a one-item call's completion is not looked at.                *)
LoreComplete(i, stray, completion) ==
  /\ result = None
  /\ reported[i] = None
  /\ reported' = [reported EXCEPT ![i] = completion]
  /\ IF stray /\ api \in ManyApis \cup {"put"}
     THEN UNCHANGED completions
     ELSE File(i, completion)
  /\ UNCHANGED <<api, result, answer>>

(* Any item that failed, a miss included, fails the call's status; a call  *)
(* may also fail for a reason of its own, and before all items are done.   *)
LoreReturn(status) ==
  /\ result = None
  /\ status = "Ok" => \A i \in Batch : reported[i] # None /\ reported[i].code = NoError
  /\ result' = status
  /\ UNCHANGED <<api, reported, completions, answer>>

-----------------------------------------------------------------------------
Missing == \E i \in Batch : completions[i] = None

(* put_outcomes.                                                           *)
PutOutcome(completion) ==
  IF FromRaw(completion.code) = None THEN Ok(completion.hash) ELSE Failed(FromRaw(completion.code))

PutOutcomes ==
  LET outcomes == [i \in Batch |-> PutOutcome(completions[i])]
  IN  IF Missing THEN Unreported(result, "storage_put_item_complete")
      ELSE IF (\A i \in Batch : IsOk(outcomes[i])) /\ result = "Call" THEN CallError
      ELSE Ok(outcomes)

(* resolved_address: the zero hash is how a retracted key is stored; any   *)
(* other one is completed with the context of the item that asked.         *)
ResolvedAddress(hash, context) ==
  IF hash = ZeroHash THEN None ELSE [hash |-> hash, context |-> context]

(* Variant: a miss fails its slot as any other code does.                  *)
ResolveOutcomeMissFails(i, completion) ==
  IF FromRaw(completion.code) = None THEN Ok(ResolvedAddress(completion.hash, i))
  ELSE Failed(FromRaw(completion.code))

ResolveOutcome(i, completion) ==
  IF FromRaw(completion.code) = None THEN Ok(ResolvedAddress(completion.hash, i))
  ELSE IF completion.code = NotFound THEN Ok(None)
  ELSE Failed(FromRaw(completion.code))

(* Variant: a call failure no item accounts for is dropped.                *)
ResolveOutcomesCallLost ==
  LET outcomes == [i \in Batch |-> ResolveOutcome(i, completions[i])]
  IN  IF Missing THEN Unreported(result, "storage_mutable_load_item_complete")
      ELSE Ok(outcomes)

(* resolve_outcomes: as put_outcomes, but a miss is an answer, and one the *)
(* call's failure is accounted for by.                                     *)
ResolveOutcomes ==
  LET outcomes     == [i \in Batch |-> ResolveOutcome(i, completions[i])]
      accountedFor == \E i \in Batch : FromRaw(completions[i].code) # None
  IN  IF Missing THEN Unreported(result, "storage_mutable_load_item_complete")
      ELSE IF ~accountedFor /\ result = "Call" THEN CallError
      ELSE Ok(outcomes)

(* put: its batch of one, whose only item's result is the put's own.       *)
PutOne(i) == IF IsOk(PutOutcomes) THEN PutOutcomes.value[i] ELSE PutOutcomes

(* Variant: a missing completion is taken for a miss.                      *)
ResolveOneUnreportedIsMiss(i) ==
  LET completion == completions[i]
  IN  IF completion = None \/ completion.code = NotFound THEN Ok(None)
      ELSE IF ~IsOk(Resolve(result, completion.code)) THEN Resolve(result, completion.code)
      ELSE Ok(ResolvedAddress(completion.hash, i))

(* resolve: the miss first, then the code, then the call.                  *)
ResolveOne(i) ==
  LET completion == completions[i]
  IN  IF completion = None THEN Unreported(result, "storage_mutable_load_item_complete")
      ELSE IF completion.code = NotFound THEN Ok(None)
      ELSE IF ~IsOk(Resolve(result, completion.code)) THEN Resolve(result, completion.code)
      ELSE Ok(ResolvedAddress(completion.hash, i))

(* Variant: the fragment is taken without a look at the code.              *)
MetadataOneUnresolved(i) ==
  LET completion == completions[i]
  IN  IF completion = None THEN Unreported(result, "storage_get_metadata_item_complete")
      ELSE IF completion.code = NotFound THEN Ok(None)
      ELSE Ok(completion.hash)

(* metadata_outcome.                                                       *)
MetadataOne(i) ==
  LET completion == completions[i]
  IN  IF completion = None THEN Unreported(result, "storage_get_metadata_item_complete")
      ELSE IF completion.code = NotFound THEN Ok(None)
      ELSE IF ~IsOk(Resolve(result, completion.code)) THEN Resolve(result, completion.code)
      ELSE Ok(completion.hash)

(* put_resolved_outcome.                                                   *)
PutResolvedOne(i) ==
  LET completion == completions[i]
  IN  IF completion = None THEN Unreported(result, "storage_put_item_complete")
      ELSE IF ~IsOk(Resolve(result, completion.code)) THEN Resolve(result, completion.code)
      ELSE Ok(completion.hash)

Folded ==
  CASE api = "put_many"     -> PutOutcomes
    [] api = "resolve_many" -> ResolveOutcomes
    [] api = "put"          -> PutOne(0)
    [] api = "resolve"      -> ResolveOne(0)
    [] api = "metadata"     -> MetadataOne(0)
    [] api = "put_resolved" -> PutResolvedOne(0)

Fold ==
  /\ result # None
  /\ answer = None
  /\ answer' = Folded
  /\ UNCHANGED <<api, reported, completions, result>>

Next ==
  \/ \E i \in Batch, stray \in Strays, completion \in Completion :
       LoreComplete(i, stray, completion)
  \/ \E status \in CallResults : LoreReturn(status)
  \/ Fold

Spec == Init /\ [][Next]_vars

-----------------------------------------------------------------------------
(* The results the caller can look at, by position.                        *)
Results ==
  IF answer = None THEN << >>
  ELSE IF api \in OneApis THEN [i \in Batch |-> answer]
  ELSE IF IsOk(answer) THEN answer.value ELSE << >>

(***************************************************************************)
(* An item succeeds only with what Lore reported of that very item, under  *)
(* its own context: however the completions are interleaved or go astray,  *)
(* no address of another item is handed out, and no failed item succeeds.  *)
(***************************************************************************)
Whole(i, value) ==
  CASE api \in {"put_many", "put", "put_resolved", "metadata"} ->
         value = reported[i].hash /\ reported[i].code = NoError
    [] api \in {"resolve_many", "resolve"} ->
         /\ value = [hash |-> reported[i].hash, context |-> i]
         /\ reported[i].code = NoError /\ reported[i].hash # ZeroHash

OkIsTheItemsOwn ==
  \A i \in DOMAIN Results :
    IsOk(Results[i]) /\ Results[i].value # None => reported[i] # None /\ Whole(i, Results[i].value)

(***************************************************************************)
(* None is an answer, not the lack of one: a caller is told that a key has *)
(* no mapping, or that nobody holds the content, only when Lore said so of *)
(* it, never because the call failed or its completion went astray.        *)
(***************************************************************************)
NoneIsAReportedMiss ==
  \A i \in DOMAIN Results :
    IsOk(Results[i]) /\ Results[i].value = None =>
      /\ reported[i] # None
      /\ \/ reported[i].code = NotFound
         \/ reported[i].code = NoError /\ reported[i].hash = ZeroHash

(***************************************************************************)
(* A miss never fails anything: when every item's completion was filed and *)
(* none with worse than a miss, whose failing status is theirs, a resolve  *)
(* or a metadata lookup is answered in full.  Neither the call nor any of  *)
(* its slots fails, and every missing item's own is None (resolve_outcomes *)
(* and its accounted_for).                                                 *)
(***************************************************************************)
MissesFailNothing ==
  /\ answer # None
  /\ api \in {"resolve_many", "resolve", "metadata"}
  /\ \A i \in Batch : completions[i] # None /\ completions[i].code \in {NoError, NotFound}
  /\ \E i \in Batch : completions[i].code = NotFound
  => /\ IsOk(answer)
     /\ \A i \in Batch :
          /\ IsOk(Results[i])
          /\ completions[i].code = NotFound => Results[i].value = None

(***************************************************************************)
(* A call failure no item accounts for is reported (put_outcomes): with    *)
(* every item filed as a success, or none filed, a failed call is an error *)
(* of the whole batch.                                                     *)
(***************************************************************************)
UnaccountedFailureIsReported ==
  /\ answer # None /\ result = "Call"
  /\ \A i \in Batch : completions[i] = None \/ completions[i].code = NoError
  => answer = CallError
=============================================================================
