----------------------------- MODULE BatchRead -----------------------------
(***************************************************************************)
(* Store's buffered reads: get_range_many (with get_many and               *)
(* get_resolved_many, which fold alike) and the one-item get_range (with   *)
(* get and get_resolved).  The caller makes one FFI call for the whole     *)
(* batch and blocks in it; Lore reads the items concurrently and reports   *)
(* each by events that carry the item's position as their id, interleaved  *)
(* with the other items' as it likes.  Each event reaches the callback on  *)
(* Lore's thread, which routes it to its item's Reassembly.  When the call *)
(* has returned, the caller folds what was recorded with how it returned.  *)
(*                                                                         *)
(* Lore is the environment.  Its contract is in call.rs's and store.rs's   *)
(* comments: a header before the fragments, fragments within the range and *)
(* in any order, each part of the range once, one completion per item, a   *)
(* failing status whenever an item failed.  Faults names the ways in which *)
(* a run lets it depart from that; the code has to notice each of them.    *)
(***************************************************************************)
EXTENDS Reassembly, FiniteSets

CONSTANTS
  Items,        \* the batch's positions, which are the ids of its items
  Addresses,    \* the contents a request may name
  Size,         \* Size[a]: how many bytes the content of address a has
  Batches,      \* the batches a run chooses from, a request by position
  Faults,       \* which departures from Lore's contract a run allows
  MaxFragments  \* bound, by position: fragments Lore sends for the item

AllFaults ==
  { "stray",      \* an event's id is none of the batch's, so it is lost
    "repeat",     \* a part of the range is delivered again
    "overrun" }   \* a fragment reaches outside of the range

Request == [address : Addresses, start : U64, length : Lengths]

ASSUME BatchAssumption ==
  /\ IsFiniteSet(Items) /\ Items # {}
  /\ Size \in [Addresses -> U64]
  /\ Batches \subseteq [Items -> Request]
  /\ Zero \notin Addresses \X Nat
  /\ Faults \subseteq AllFaults
  /\ MaxFragments \in [Items -> Nat]

VARIABLES
  api,        \* "many" for get_range_many, "one" for get_range
  requests,   \* the batch, by position
  item,       \* the Reassembly of each position
  served,     \* Lore's side of each item; `clean` until it departs from the contract
  result,     \* how the call returned, None until it has
  answer,     \* what the caller got, None until it has it
  phase

vars == <<api, requests, item, served, result, answer, phase>>

-----------------------------------------------------------------------------
(* The batch.                                                              *)

(* A bounded range that is empty is answered here: Lore reads a zero       *)
(* length as "to the end", so it is kept out of the call.                  *)
IsEmpty(request) == request.length = 0

InCall == {i \in Items : ~IsEmpty(requests[i])}

(* get_range's only item; a batch of one has empty ranges everywhere else. *)
Alone == CHOOSE i \in Items : TRUE
IsAlone == \A i \in Items \ {Alone} : IsEmpty(requests[i])

NewItem(request) ==
  IF IsEmpty(request) THEN Empty ELSE Ranged(request.start, request.length)

(* The positions of the content that Lore is asked for, by the offset and  *)
(* the length on the wire, where zero means "to the end".                  *)
Wanted(request) ==
  {p \in 0..(Size[request.address] - 1) :
     /\ p >= request.start
     /\ request.length \in {None, 0} \/ p < request.start + request.length}

-----------------------------------------------------------------------------
Byte == {Zero} \cup (Addresses \X Nat)

(* A buffer is allocated with its size and never changes it; nothing is    *)
(* counted before there is one.                                            *)
IsReassembly(r) ==
  /\ r \in [start : U64, length : Lengths, size : Lengths, bytes : {r.bytes},
           covered : Nat, end : U64, overflow : Lengths, completion : RawCodes \cup {None}]
  /\ IF r.size = None
     THEN r.bytes = Blank(0) /\ r.covered = 0 /\ r.end = 0
     ELSE r.bytes \in [0..(r.size - 1) -> Byte]

Service == [announced : BOOLEAN, sent : SUBSET U64, fragments : Nat,
            clean : BOOLEAN, code : RawCodes \cup {None}]

TypeOK ==
  /\ api \in {"many", "one"}
  /\ requests \in Batches
  /\ phase \in {"building", "calling", "returned", "answered"}
  /\ result \in CallResults \cup {None}
  /\ item = [i \in Items |-> item[i]]
  /\ \A i \in Items : IsReassembly(item[i])
  /\ served \in [Items -> Service]

Init ==
  /\ api \in {"many", "one"}
  /\ requests \in Batches
  /\ api = "one" => IsAlone
  /\ item = [i \in Items |-> Ranged(0, None)]
  /\ served = [i \in Items |->
       [announced |-> FALSE, sent |-> {}, fragments |-> 0, clean |-> TRUE, code |-> None]]
  /\ result = None
  /\ answer = None
  /\ phase = "building"

-----------------------------------------------------------------------------
(* The caller builds the batch; a call without items is not made.          *)
Build ==
  /\ phase = "building"
  /\ item' = [i \in Items |-> NewItem(requests[i])]
  /\ IF InCall = {}
     THEN phase' = "returned" /\ result' = "Ok"
     ELSE phase' = "calling" /\ UNCHANGED result
  /\ UNCHANGED <<api, requests, served, answer>>

(* An event of item i arrives with its own id, or with one from outside of *)
(* the batch, which route drops; a one-item read looks at no id.           *)
Route(i, stray, recorded) ==
  item' = IF stray /\ api = "many" THEN item ELSE [item EXCEPT ![i] = recorded]

Strays == IF "stray" \in Faults THEN BOOLEAN ELSE {FALSE}

Serving(i) ==
  /\ phase = "calling"
  /\ i \in InCall
  /\ served[i].code = None

LoreHeader(i, stray) ==
  /\ Serving(i)
  /\ ~served[i].announced
  /\ served' = [served EXCEPT ![i] = [served[i] EXCEPT !.announced = TRUE, !.clean = @ /\ ~stray]]
  /\ Route(i, stray, RecordHeader(item[i], Size[requests[i].address]))
  /\ UNCHANGED <<api, requests, result, answer, phase>>

LoreData(i, stray, from, to) ==
  LET part     == from..(to - 1)
      inside   == part \subseteq Wanted(requests[i])
      firstOne == part \cap served[i].sent = {}
  IN  /\ Serving(i)
      /\ served[i].announced
      /\ served[i].fragments < MaxFragments[i]
      /\ from < to
      /\ inside \/ "overrun" \in Faults
      /\ firstOne \/ "repeat" \in Faults
      /\ served' = [served EXCEPT ![i] =
           [served[i] EXCEPT !.sent = @ \cup part,
                             !.fragments = @ + 1,
                             !.clean = @ /\ ~stray /\ inside /\ firstOne]]
      /\ Route(i, stray, RecordData(item[i], requests[i].address, from, to - from))
      /\ UNCHANGED <<api, requests, result, answer, phase>>

(* Lore is done with item i: it has delivered what was asked, or it fails  *)
(* the item, at any point, as it does for a start past the content's end.  *)
LoreComplete(i, stray, code) ==
  /\ Serving(i)
  /\ code = NoError =>
       /\ served[i].announced
       /\ Wanted(requests[i]) \subseteq served[i].sent
       /\ requests[i].start <= Size[requests[i].address]
  /\ served' = [served EXCEPT ![i] = [served[i] EXCEPT !.code = code, !.clean = @ /\ ~stray]]
  /\ Route(i, stray, RecordComplete(item[i], code))
  /\ UNCHANGED <<api, requests, result, answer, phase>>

(* The call returns, every item's events delivered: with a failure when an *)
(* item failed, and it may also fail on its own account at any time.       *)
LoreReturn(status) ==
  /\ phase = "calling"
  /\ status = "Ok" => \A i \in InCall : served[i].code = NoError
  /\ result' = status
  /\ phase' = "returned"
  /\ UNCHANGED <<api, requests, item, served, answer>>

-----------------------------------------------------------------------------
(* One item's Result: its code, or what was delivered.                     *)
Outcome(r) ==
  IF FromRaw(r.completion) = None THEN Finish(r) ELSE Failed(FromRaw(r.completion))

Outcomes == [i \in Items |-> Outcome(item[i])]

(* Variants: an unreported item is left to its own slot; a failed call     *)
(* fails the batch; a call failure no item accounts for is dropped.        *)
GetOutcomesUngated ==
  IF (\A i \in Items : IsOk(Outcomes[i])) /\ result = "Call" THEN CallError ELSE Ok(Outcomes)

GetOutcomesCallFirst ==
  IF \E i \in Items : item[i].completion = None
  THEN Unreported(result, "storage_get_item_complete")
  ELSE IF result = "Call" THEN CallError
  ELSE Ok(Outcomes)

GetOutcomesCallLost ==
  IF \E i \in Items : item[i].completion = None
  THEN Unreported(result, "storage_get_item_complete")
  ELSE Ok(Outcomes)

(* get_outcomes: one Result per item, in the batch's order.                *)
GetOutcomes ==
  IF \E i \in Items : item[i].completion = None
  THEN Unreported(result, "storage_get_item_complete")
  ELSE IF (\A i \in Items : IsOk(Outcomes[i])) /\ result = "Call" THEN CallError
  ELSE Ok(Outcomes)

(* Variant: the call's status is looked at before the item's code.         *)
GetOneCallFirst(r) ==
  IF result = "Call" THEN CallError
  ELSE IF IsOk(Resolve(result, r.completion)) THEN Finish(r) ELSE Resolve(result, r.completion)

(* get_range: the item's code, then the call, then what was delivered.     *)
GetOne(r) ==
  IF IsOk(Resolve(result, r.completion)) THEN Finish(r) ELSE Resolve(result, r.completion)

Folded == IF api = "many" THEN GetOutcomes ELSE GetOne(item[Alone])

Fold ==
  /\ phase = "returned"
  /\ answer' = Folded
  /\ phase' = "answered"
  /\ UNCHANGED <<api, requests, item, served, result>>

Lore ==
  \/ \E i \in Items, stray \in Strays :
       \/ LoreHeader(i, stray)
       \/ \E from, to \in U64 : LoreData(i, stray, from, to)
       \/ \E code \in RawCodes : LoreComplete(i, stray, code)
  \/ \E status \in CallResults : LoreReturn(status)

Next == Build \/ Lore \/ Fold

Spec == Init /\ [][Next]_vars

-----------------------------------------------------------------------------
(* What the read promises, the verdicts being the completions that reached *)
(* their item; an empty range is settled before the call.                  *)
Contract == INSTANCE ReadContract WITH
  verdicts <- [i \in Items |-> IF IsEmpty(requests[i]) THEN NoError ELSE item[i].completion]

(***************************************************************************)
(* The read implements its contract: from the verdicts that arrived and    *)
(* the call's own result, and from nothing else, the caller gets one       *)
(* answer, each found item's slice or an error in its slot.                *)
(***************************************************************************)
ReadsAsPromised == Contract!Spec

Expected(request) == Contract!Expected(request)

(* The results the caller can look at, by position.                        *)
Results ==
  IF answer = None THEN << >>
  ELSE IF api = "one" THEN [i \in {Alone} |-> answer]
  ELSE IF IsOk(answer) THEN answer.value ELSE << >>

(***************************************************************************)
(* `covered` counts bytes actually written (SizeMismatch's doc): however   *)
(* the fragments came, it is never less than the number of the buffer's    *)
(* positions one of them was copied over, so too low a count means a hole; *)
(* and as long as Lore repeats no part of a range, it is that number.      *)
(***************************************************************************)
Written(r) == {k \in DOMAIN r.bytes : r.bytes[k] # Zero}

WrittenIsCounted ==
  \A i \in Items :
    /\ Cardinality(Written(item[i])) <= item[i].covered
    /\ "repeat" \notin Faults => item[i].covered = Cardinality(Written(item[i]))

(***************************************************************************)
(* A read that succeeds returns exactly the asked part of the content, in  *)
(* order and complete, whatever order the fragments came in and whatever   *)
(* was lost or delivered past the range: Reassembly::finish refuses the    *)
(* rest.  (A part delivered twice is the exception, see the README.)       *)
(***************************************************************************)
OkIsTheSlice ==
  \A i \in DOMAIN Results :
    IsOk(Results[i]) => Results[i].value = Expected(requests[i])

(***************************************************************************)
(* error.rs says of SizeMismatch that a skipped range fails even when the  *)
(* delivered ranges add up: no buffer with a byte that was never written   *)
(* is handed out.  It does not hold once Lore repeats a part of the range, *)
(* as `covered` sums lengths and `end` only knows the furthest reach.      *)
(***************************************************************************)
SkippedRangeFails ==
  \A i \in DOMAIN Results :
    IsOk(Results[i]) => \A k \in DOMAIN Results[i].value : Results[i].value[k] # Zero

(***************************************************************************)
(* The offset and length of a request select what the caller's bounds do:  *)
(* whichever bounds `span` made them from, up to the largest u64, where    *)
(* its sums saturate, the buffer is for exactly the content's positions    *)
(* within them, and a range answered without a call holds none.            *)
(***************************************************************************)
NamedBy(request, from, to) ==
  request.start = SpanStart(from) /\ request.length = SpanLength(from, to)

SpanSelectsTheRange ==
  phase = "building" =>
    \A i \in Items : \A from, to \in Bounds :
      NamedBy(requests[i], from, to) => SpanSelects(from, to, Size[requests[i].address])

(***************************************************************************)
(* One failed item does not fail the call (get_many's and get_range_many's *)
(* docs): when Lore has reported every item and failed some of them, the   *)
(* caller gets each item's own answer, the failed ones' codes and the      *)
(* others' contents, although the call itself returned a failure.          *)
(***************************************************************************)
Reported(i) == i \in InCall => served[i].clean /\ served[i].code # None
FailedItem(i) == i \in InCall /\ served[i].code \in Codes

OneFailureFailsOneItem ==
  answer # None /\ api = "many" /\ (\A i \in Items : Reported(i)) /\ (\E i \in Items : FailedItem(i))
  => /\ IsOk(answer)
     /\ \A i \in Items :
          Results[i] = IF FailedItem(i) THEN Failed(served[i].code) ELSE Ok(Expected(requests[i]))

(***************************************************************************)
(* A failed call is never folded into a full success: the caller gets an   *)
(* error for the batch or, at least, for one of its items.                 *)
(***************************************************************************)
NoFailureIsLost ==
  answer # None /\ result = "Call"
  => ~IsOk(answer) \/ \E i \in DOMAIN Results : ~IsOk(Results[i])

(***************************************************************************)
(* An item is never answered on another's behalf: one whose completion did *)
(* not arrive, its id lost, fails the whole batch (route's doc), even when *)
(* the call itself succeeded.                                              *)
(***************************************************************************)
UnreportedFailsTheBatch ==
  answer # None /\ (\E i \in InCall : item[i].completion = None) => ~IsOk(answer)

(***************************************************************************)
(* At every moment of every assembly, each byte of a buffer is one not yet *)
(* written or the content's own for that place: never another item's, and  *)
(* never one shifted by the range's start, whatever Lore sends.            *)
(***************************************************************************)
NoForeignByte ==
  \A i \in Items : \A k \in DOMAIN item[i].bytes :
    item[i].bytes[k] \in {Zero, <<requests[i].address, requests[i].start + k>>}

-----------------------------------------------------------------------------
(* The inductive invariant of BatchRead_proofs.  An item is the request's, *)
(* its buffer as long as the slice, what was written had been sent, and    *)
(* the answer is the fold of items that do not change after the call.      *)
SliceSize(request) ==
  SatSub(RangeEnd(request.start, request.length, Size[request.address]), request.start)

ItemIsTheRequests(i) ==
  IF phase = "building"
  THEN item[i] = Ranged(0, None) /\ served[i].sent = {} /\ ~served[i].announced
  ELSE IF IsEmpty(requests[i]) THEN item[i] = Empty
  ELSE /\ item[i].start = requests[i].start
       /\ item[i].length = requests[i].length
       /\ item[i].size \in {None, SliceSize(requests[i])}
       /\ ~served[i].announced => item[i].size = None

WrittenWasSent(i) ==
  "repeat" \notin Faults => \A k \in Written(item[i]) : requests[i].start + k \in served[i].sent

AnswerIsTheFold ==
  IF phase = "answered" THEN answer = Folded ELSE answer = None

IInv ==
  /\ TypeOK
  /\ api = "one" => IsAlone
  /\ \A i \in Items : ItemIsTheRequests(i) /\ WrittenWasSent(i)
  /\ NoForeignByte
  /\ WrittenIsCounted
  /\ AnswerIsTheFold
=============================================================================
