-------------------------- MODULE BatchItems_proofs --------------------------
(***************************************************************************)
(* Proofs about BatchItems, for batches of any positions, any hashes and   *)
(* codes, and completions that go astray or do not.  The argument is that  *)
(* a slot holds nothing or what Lore reported of its very item, and that   *)
(* the answer is the fold of slots that no longer change once the call has *)
(* returned; the rest is what each verb makes of its slots.                *)
(***************************************************************************)
EXTENDS BatchItems, TLAPS

USE OutcomeAssumption, ItemsAssumption

(* A completion is filed under the item it is of, or under none.           *)
SlotsAreTheItemsOwn == \A i \in Batch : completions[i] # None => completions[i] = reported[i]

(* The answer is the fold of the slots as the call left them.              *)
AnswerIsTheFold == answer # None => result # None /\ answer = Folded

IInv == TypeOK /\ SlotsAreTheItemsOwn /\ AnswerIsTheFold

(* The operators the fold is made of look at api, completions and result.  *)
LEMMA FoldLooksAt ==
  ASSUME UNCHANGED <<api, completions, result>>
  PROVE  Folded' = Folded
  BY DEF Folded, PutOutcomes, PutOutcome, ResolveOutcomes, ResolveOutcome, PutOne, ResolveOne,
         MetadataOne, PutResolvedOne, Missing, Batch

LEMMA InitEstablishes == Init => IInv
<1> SUFFICES ASSUME Init PROVE IInv
  OBVIOUS
<1>1. TypeOK
  BY DEF Init, TypeOK
<1>2. QED
  BY <1>1 DEF Init, IInv, SlotsAreTheItemsOwn, AnswerIsTheFold

LEMMA CompletePreserves ==
  ASSUME IInv, NEW i \in Batch, NEW stray \in BOOLEAN, NEW completion \in Completion,
         LoreComplete(i, stray, completion)
  PROVE  IInv'
<1>1. /\ result = None /\ reported[i] = None
      /\ reported' = [reported EXCEPT ![i] = completion]
      /\ completions' = completions \/ completions' = [completions EXCEPT ![i] = completion]
      /\ UNCHANGED <<api, result, answer>>
  BY DEF LoreComplete, File
<1>2. /\ reported \in [Batch -> Completion \cup {None}]
      /\ completions \in [Batch -> Completion \cup {None}]
      /\ Batch' = Batch
  BY <1>1 DEF IInv, TypeOK, Batch
<1>3. TypeOK'
  BY <1>1, <1>2 DEF IInv, TypeOK
<1>4. SlotsAreTheItemsOwn'
  <2> SUFFICES ASSUME NEW j \in Batch, completions'[j] # None
               PROVE  completions'[j] = reported'[j]
    BY <1>2 DEF SlotsAreTheItemsOwn
  <2>1. CASE j = i
    <3>1. completions[i] = None
      BY <1>1 DEF IInv, SlotsAreTheItemsOwn
    <3>2. QED
      BY <1>1, <1>2, <2>1, <3>1
  <2>2. CASE j # i
    BY <1>1, <1>2, <2>2 DEF IInv, SlotsAreTheItemsOwn
  <2>3. QED
    BY <2>1, <2>2
<1>5. AnswerIsTheFold'
  BY <1>1 DEF IInv, AnswerIsTheFold
<1>6. QED
  BY <1>3, <1>4, <1>5 DEF IInv

LEMMA NextPreserves == IInv /\ [Next]_vars => IInv'
<1> SUFFICES ASSUME IInv, [Next]_vars PROVE IInv'
  OBVIOUS
<1>1. ASSUME NEW i \in Batch, NEW stray \in Strays, NEW completion \in Completion,
             LoreComplete(i, stray, completion)
      PROVE  IInv'
  <2>1. stray \in BOOLEAN
    OBVIOUS
  <2>2. QED
    BY <1>1, <2>1, CompletePreserves
<1>2. ASSUME NEW status \in CallResults, LoreReturn(status) PROVE IInv'
  <2>1. result = None /\ result' = status /\ UNCHANGED <<api, reported, completions, answer>>
    BY <1>2 DEF LoreReturn
  <2>2. Batch' = Batch /\ answer = None
    BY <2>1 DEF Batch, IInv, AnswerIsTheFold
  <2>3. QED
    BY <2>1, <2>2 DEF IInv, TypeOK, SlotsAreTheItemsOwn, AnswerIsTheFold
<1>3. CASE Fold
  <2>1. /\ result # None /\ answer' = Folded
        /\ UNCHANGED <<api, reported, completions, result>>
    BY <1>3 DEF Fold
  <2>2. Batch' = Batch /\ Folded' = Folded
    BY <2>1, FoldLooksAt DEF Batch
  <2>3. QED
    BY <2>1, <2>2 DEF IInv, TypeOK, SlotsAreTheItemsOwn, AnswerIsTheFold
<1>4. CASE UNCHANGED vars
  <2>1. Batch' = Batch /\ Folded' = Folded
    BY <1>4, FoldLooksAt DEF Batch, vars
  <2>2. QED
    BY <1>4, <2>1 DEF vars, IInv, TypeOK, SlotsAreTheItemsOwn, AnswerIsTheFold
<1>5. QED
  BY <1>1, <1>2, <1>3, <1>4 DEF Next

(***************************************************************************)
(* The inductive invariant of a call over items holds throughout.          *)
(***************************************************************************)
THEOREM Invariance == Spec => []IInv
<1>1. QED
  BY InitEstablishes, NextPreserves, PTL DEF Spec

(* The types: a completion is filed as Lore reported it, under an item of  *)
(* the call.                                                               *)
THEOREM TypeCorrect == Spec => []TypeOK
<1>1. IInv => TypeOK
  BY DEF IInv
<1>2. QED
  BY Invariance, <1>1, PTL

-----------------------------------------------------------------------------
(* What the verbs make of their slots.                                     *)

(* A batch that is Ok is Ok of one slot per item, none of them missing.    *)
LEMMA BatchesAnswerBySlot ==
  ASSUME IInv
  PROVE  /\ IsOk(PutOutcomes) =>
              /\ ~Missing
              /\ PutOutcomes.value = [i \in Batch |-> PutOutcome(completions[i])]
         /\ IsOk(ResolveOutcomes) =>
              /\ ~Missing
              /\ ResolveOutcomes.value = [i \in Batch |-> ResolveOutcome(i, completions[i])]
  BY DEF PutOutcomes, ResolveOutcomes, IsOk, Ok, Unreported, CallError, MissingEvent

(* The result a caller looks at for an item is the slot of that item.      *)
ItemsResult(i) ==
  CASE api \in {"put_many", "put"} -> PutOutcome(completions[i])
    [] api = "resolve_many"        -> ResolveOutcome(i, completions[i])
    [] api = "resolve"             -> ResolveOne(i)
    [] api = "metadata"            -> MetadataOne(i)
    [] api = "put_resolved"        -> PutResolvedOne(i)

LEMMA ResultsAreTheItems ==
  ASSUME IInv, NEW i \in DOMAIN Results, IsOk(Results[i])
  PROVE  /\ i \in Batch /\ completions[i] # None
         /\ Results[i] = ItemsResult(i)
<1>1. answer # None /\ answer = Folded /\ api \in ManyApis \cup OneApis
  BY DEF Results, IInv, AnswerIsTheFold, TypeOK
<1>2. CASE api = "put_many"
  <2>1. answer = PutOutcomes
    BY <1>1, <1>2 DEF Folded
  <2>2. IsOk(answer) /\ Results = answer.value
    BY <1>1, <1>2 DEF Results, OneApis
  <2>3. QED
    BY <1>2, <2>1, <2>2, BatchesAnswerBySlot DEF ItemsResult, Missing
<1>3. CASE api = "resolve_many"
  <2>1. answer = ResolveOutcomes
    BY <1>1, <1>3 DEF Folded
  <2>2. IsOk(answer) /\ Results = answer.value
    BY <1>1, <1>3 DEF Results, OneApis
  <2>3. QED
    BY <1>3, <2>1, <2>2, BatchesAnswerBySlot DEF ItemsResult, Missing
<1>4. CASE api \in OneApis
  <2>1. Batch = {0} /\ i = 0 /\ Results[i] = answer /\ IsOk(answer)
    BY <1>1, <1>4 DEF Results, Batch
  <2>2. CASE api = "put"
    <3>1. answer = PutOne(0)
      BY <1>1, <2>2 DEF Folded
    <3>2. IsOk(PutOutcomes) /\ answer = PutOutcomes.value[0]
      BY <2>1, <3>1 DEF PutOne
    <3>3. QED
      BY <2>1, <2>2, <3>2, BatchesAnswerBySlot DEF ItemsResult, Missing
  <2>3. CASE api = "resolve"
    <3>1. answer = ResolveOne(0)
      BY <1>1, <2>3 DEF Folded
    <3>2. completions[0] # None
      BY <2>1, <3>1 DEF ResolveOne, Unreported, IsOk, CallError, MissingEvent
    <3>3. QED
      BY <2>1, <2>3, <3>1, <3>2 DEF ItemsResult
  <2>4. CASE api = "metadata"
    <3>1. answer = MetadataOne(0)
      BY <1>1, <2>4 DEF Folded
    <3>2. completions[0] # None
      BY <2>1, <3>1 DEF MetadataOne, Unreported, IsOk, CallError, MissingEvent
    <3>3. QED
      BY <2>1, <2>4, <3>1, <3>2 DEF ItemsResult
  <2>5. CASE api = "put_resolved"
    <3>1. answer = PutResolvedOne(0)
      BY <1>1, <2>5 DEF Folded
    <3>2. completions[0] # None
      BY <2>1, <3>1 DEF PutResolvedOne, Unreported, IsOk, CallError, MissingEvent
    <3>3. QED
      BY <2>1, <2>5, <3>1, <3>2 DEF ItemsResult
  <2>6. QED
    BY <1>4, <2>2, <2>3, <2>4, <2>5 DEF OneApis
<1>5. QED
  BY <1>1, <1>2, <1>3, <1>4 DEF ManyApis

(* What a slot may be answered with when it succeeds, by the verb: the     *)
(* item's hash, its address in the item's own context, or that there is    *)
(* nothing.                                                                *)
LEMMA SlotsSucceed ==
  ASSUME NEW i \in Batch, NEW c \in Completion, c # None, completions[i] = c,
         api \in ManyApis \cup OneApis, IsOk(ItemsResult(i))
  PROVE  LET value == ItemsResult(i).value
         IN  \/ /\ api \in {"put_many", "put", "put_resolved", "metadata"}
                /\ c.code = NoError /\ value = c.hash
             \/ /\ api \in {"resolve_many", "resolve"}
                /\ c.code = NoError /\ c.hash # ZeroHash
                /\ value = [hash |-> c.hash, context |-> i]
             \/ /\ api \in {"resolve_many", "resolve", "metadata"}
                /\ c.code = NotFound /\ value = None
             \/ /\ api \in {"resolve_many", "resolve"}
                /\ c.code = NoError /\ c.hash = ZeroHash /\ value = None
<1>1. c.code \in RawCodes /\ NotFound # NoError /\ None \notin RawCodes
  BY DEF Completion, RawCodes
<1>2. CASE api \in {"put_many", "put"}
  <2>1. ItemsResult(i) = PutOutcome(c)
    BY <1>2 DEF ItemsResult
  <2>2. c.code = NoError /\ ItemsResult(i) = Ok(c.hash)
    BY <1>1, <2>1 DEF PutOutcome, FromRaw, IsOk, Failed
  <2>3. QED
    BY <1>2, <2>2 DEF Ok
<1>3. CASE api = "resolve_many"
  BY <1>1, <1>3 DEF ItemsResult, ResolveOutcome, ResolvedAddress, FromRaw, IsOk, Ok, Failed
<1>4. CASE api = "resolve"
  BY <1>1, <1>4 DEF ItemsResult, ResolveOne, ResolvedAddress, Resolve, FromRaw, IsOk, Ok, Failed, CallError
<1>5. CASE api = "metadata"
  BY <1>1, <1>5 DEF ItemsResult, MetadataOne, Resolve, FromRaw, IsOk, Ok, Failed, CallError
<1>6. CASE api = "put_resolved"
  BY <1>1, <1>6 DEF ItemsResult, PutResolvedOne, Resolve, FromRaw, IsOk, Ok, Failed, CallError
<1>7. QED
  BY <1>2, <1>3, <1>4, <1>5, <1>6 DEF ManyApis, OneApis

(* A success comes from what Lore reported of its item.                    *)
LEMMA SuccessIsReported ==
  ASSUME IInv, NEW i \in DOMAIN Results, IsOk(Results[i])
  PROVE  LET value == Results[i].value
             c     == reported[i]
         IN  /\ c # None
             /\ \/ /\ api \in {"put_many", "put", "put_resolved", "metadata"}
                   /\ c.code = NoError /\ value = c.hash /\ value # None
                \/ /\ api \in {"resolve_many", "resolve"}
                   /\ c.code = NoError /\ c.hash # ZeroHash
                   /\ value = [hash |-> c.hash, context |-> i] /\ value # None
                \/ /\ c.code = NotFound /\ value = None
                \/ /\ c.code = NoError /\ c.hash = ZeroHash /\ value = None
<1>1. i \in Batch /\ completions[i] # None /\ Results[i] = ItemsResult(i)
  BY ResultsAreTheItems
<1>2. /\ completions[i] \in Completion /\ completions[i] = reported[i]
      /\ api \in ManyApis \cup OneApis /\ i \in Items
  BY <1>1 DEF IInv, TypeOK, SlotsAreTheItemsOwn, Batch
<1>3. reported[i].hash \in Hashes
  BY <1>2 DEF Completion
<1>4. None # reported[i].hash /\ None # [hash |-> reported[i].hash, context |-> i]
  BY <1>2, <1>3
<1>5. QED
  BY <1>1, <1>2, <1>4, SlotsSucceed

(***************************************************************************)
(* An item succeeds only with what Lore reported of that very item, under  *)
(* its own context, for any batch and however its completions interleave   *)
(* or go astray (put_outcomes, resolve_outcomes and the one-item verbs).   *)
(***************************************************************************)
THEOREM SuccessesAreTheItemsOwn == Spec => []OkIsTheItemsOwn
<1>1. IInv => OkIsTheItemsOwn
  <2> SUFFICES ASSUME IInv, NEW i \in DOMAIN Results, IsOk(Results[i]), Results[i].value # None
               PROVE  reported[i] # None /\ Whole(i, Results[i].value)
    BY DEF OkIsTheItemsOwn
  <2>1. QED
    BY SuccessIsReported DEF Whole
<1>2. QED
  BY Invariance, <1>1, PTL

(***************************************************************************)
(* None is answered only of an item that Lore reported as missing, or as   *)
(* retracted: never because the call failed or a completion went astray.   *)
(***************************************************************************)
THEOREM MissesAreReported == Spec => []NoneIsAReportedMiss
<1>1. IInv => NoneIsAReportedMiss
  <2> SUFFICES ASSUME IInv, NEW i \in DOMAIN Results, IsOk(Results[i]), Results[i].value = None
               PROVE  /\ reported[i] # None
                      /\ \/ reported[i].code = NotFound
                         \/ reported[i].code = NoError /\ reported[i].hash = ZeroHash
    BY DEF NoneIsAReportedMiss
  <2>1. QED
    BY SuccessIsReported
<1>2. QED
  BY Invariance, <1>1, PTL

(***************************************************************************)
(* A miss never fails anything: a resolve or a metadata lookup of which    *)
(* every item was filed, none with worse than a miss, is answered in every *)
(* slot, and with None in those of the misses, however the call returned   *)
(* (resolve_outcomes and its accounted_for).                               *)
(***************************************************************************)
THEOREM MissesDoNotFail == Spec => []MissesFailNothing
<1>1. IInv => MissesFailNothing
  <2> SUFFICES ASSUME IInv, answer # None, api \in {"resolve_many", "resolve", "metadata"},
                      \A i \in Batch : completions[i] # None /\ completions[i].code \in {NoError, NotFound},
                      NEW j \in Batch, completions[j].code = NotFound
               PROVE  /\ IsOk(answer)
                      /\ \A i \in Batch :
                           /\ IsOk(Results[i])
                           /\ completions[i].code = NotFound => Results[i].value = None
    BY DEF MissesFailNothing
  <2>1. answer = Folded /\ ~Missing
    BY DEF IInv, AnswerIsTheFold, Missing
  <2>2. FromRaw(NotFound) # None /\ FromRaw(NoError) = None
    BY DEF FromRaw, RawCodes
  <2>3. CASE api = "resolve_many"
    <3>1. answer = ResolveOutcomes
      BY <2>1, <2>3 DEF Folded
    <3>2. IsOk(ResolveOutcomes)
      BY <2>1, <2>2 DEF ResolveOutcomes, IsOk, Ok
    <3>3. Results = [i \in Batch |-> ResolveOutcome(i, completions[i])]
      BY <2>3, <3>1, <3>2, BatchesAnswerBySlot DEF Results, OneApis
    <3>4. ASSUME NEW i \in Batch
          PROVE  /\ IsOk(ResolveOutcome(i, completions[i]))
                 /\ completions[i].code = NotFound => ResolveOutcome(i, completions[i]).value = None
      <4>1. completions[i].code \in {NoError, NotFound}
        OBVIOUS
      <4>2. QED
        BY <2>2, <4>1 DEF ResolveOutcome, IsOk, Ok
    <3>5. QED
      BY <3>1, <3>2, <3>3, <3>4
  <2>4. CASE api \in {"resolve", "metadata"}
    <3>1. Batch = {0} /\ j = 0
      BY <2>4 DEF Batch, OneApis
    <3>2. answer = IF api = "resolve" THEN ResolveOne(0) ELSE MetadataOne(0)
      BY <2>1, <2>4 DEF Folded
    <3>3. answer = Ok(None)
      BY <2>4, <3>1, <3>2 DEF ResolveOne, MetadataOne
    <3>4. Results = [i \in Batch |-> answer]
      BY <2>4 DEF Results, OneApis
    <3>5. QED
      BY <3>1, <3>3, <3>4 DEF IsOk, Ok
  <2>5. QED
    BY <2>3, <2>4
<1>2. QED
  BY Invariance, <1>1, PTL

(***************************************************************************)
(* A call failure no item accounts for is the batch's own: with nothing    *)
(* but successes filed, or nothing at all, a failed call is answered by    *)
(* its error (put_outcomes and resolve_outcomes).                          *)
(***************************************************************************)
THEOREM UnaccountedFailuresAreReported == Spec => []UnaccountedFailureIsReported
<1>1. IInv => UnaccountedFailureIsReported
  <2> SUFFICES ASSUME IInv, answer # None, result = "Call",
                      \A i \in Batch : completions[i] = None \/ completions[i].code = NoError
               PROVE  answer = CallError
    BY DEF UnaccountedFailureIsReported
  <2>1. answer = Folded /\ api \in ManyApis \cup OneApis
    BY DEF IInv, AnswerIsTheFold, TypeOK
  <2>2. FromRaw(NoError) = None /\ NotFound # NoError
    BY DEF FromRaw
  <2>3. PutOutcomes = CallError
    <3>1. CASE Missing
      BY <3>1 DEF PutOutcomes, Unreported
    <3>2. CASE ~Missing
      <4>1. \A i \in Batch : IsOk(PutOutcome(completions[i]))
        BY <2>2, <3>2 DEF Missing, PutOutcome, IsOk, Ok
      <4>2. QED
        BY <3>2, <4>1 DEF PutOutcomes
    <3>3. QED
      BY <3>1, <3>2
  <2>4. ResolveOutcomes = CallError
    BY <2>2 DEF ResolveOutcomes, Unreported, Missing
  <2>5. CASE api \in ManyApis
    BY <2>1, <2>3, <2>4, <2>5 DEF Folded, ManyApis
  <2>6. CASE api = "put"
    BY <2>1, <2>3, <2>6 DEF Folded, PutOne, IsOk, CallError
  <2>7. CASE api \in {"resolve", "metadata", "put_resolved"}
    <3>1. completions[0] = None \/ completions[0].code = NoError
      BY <2>7 DEF Batch, OneApis
    <3>2. answer = CASE api = "resolve"      -> ResolveOne(0)
                     [] api = "metadata"     -> MetadataOne(0)
                     [] api = "put_resolved" -> PutResolvedOne(0)
      BY <2>1, <2>7 DEF Folded
    <3>3. QED
      BY <2>2, <2>7, <3>1, <3>2 DEF ResolveOne, MetadataOne, PutResolvedOne, Unreported, Resolve,
                                    IsOk, Ok, CallError
  <2>8. QED
    BY <2>1, <2>5, <2>6, <2>7 DEF OneApis
<1>2. QED
  BY Invariance, <1>1, PTL
=============================================================================
