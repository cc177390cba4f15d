---------------------------- MODULE ReadContract ----------------------------
(***************************************************************************)
(* What a buffered read promises its caller, with no buffer, fragment or   *)
(* event id in it: Lore gives a verdict on each item, the call returns,    *)
(* and the answer follows from the two.  The docs of get_many,             *)
(* get_range_many, get_range and put_outcomes state it; BatchRead, the     *)
(* detailed model, is checked to implement it.                             *)
(***************************************************************************)
EXTENDS LoreOutcome, Integers

CONSTANTS Items, Addresses, Size, Batches

VARIABLES
  api,
  requests,
  verdicts,   \* the code Lore reported for each item, None until it has
  result,
  answer

contractVars == <<api, requests, verdicts, result, answer>>

(* The part of its content a request is for, and the buffer that holds it: *)
(* what the docs of get_range promise, without the clamping the code does. *)
Slice(request) ==
  {p \in 0..(Size[request.address] - 1) :
     /\ p >= request.start
     /\ request.length = None \/ p < request.start + request.length}

Expected(request) ==
  [k \in {p - request.start : p \in Slice(request)} |-> <<request.address, request.start + k>>]

-----------------------------------------------------------------------------
(* A read of one item names it; the other positions ask for nothing.       *)
Alone == CHOOSE i \in Items : TRUE

Init ==
  /\ api \in {"many", "one"}
  /\ requests \in Batches
  /\ api = "one" => \A i \in Items \ {Alone} : requests[i].length = 0
  \* an empty range needs no verdict of Lore's
  /\ verdicts = [i \in Items |-> IF requests[i].length = 0 THEN NoError ELSE None]
  /\ result = None
  /\ answer = None

Report(i, code) ==
  /\ result = None
  /\ verdicts[i] = None
  /\ verdicts' = [verdicts EXCEPT ![i] = code]
  /\ UNCHANGED <<api, requests, result, answer>>

Return(status) ==
  /\ result = None
  /\ status = "Ok" => \A i \in Items : verdicts[i] \notin Codes
  /\ result' = status
  /\ UNCHANGED <<api, requests, verdicts, answer>>

(* An item Lore found reads as its slice, or as an error of this crate's   *)
(* own when what was delivered is not that; one it failed as its code; one *)
(* it said nothing of is never a success.                                  *)
IsSlot(i, outcome) ==
  CASE verdicts[i] \in Codes  -> outcome = Failed(verdicts[i])
    [] verdicts[i] = NoError  -> outcome = Ok(Expected(requests[i])) \/ LocalError(outcome)
    [] verdicts[i] = None     -> LocalError(outcome)

AnswerMany ==
  IF \E i \in Items : verdicts[i] = None
  THEN answer' = Unreported(result, "storage_get_item_complete")
  ELSE \/ /\ result = "Call"
          /\ \A i \in Items : verdicts[i] = NoError
          /\ answer' = CallError
       \/ /\ IsOk(answer')
          /\ DOMAIN answer'.value = Items
          /\ \A i \in Items : IsSlot(i, answer'.value[i])
          /\ result = "Call" => \E i \in Items : ~IsOk(answer'.value[i])

AnswerOne ==
  IF result = "Call" /\ verdicts[Alone] \notin Codes
  THEN answer' = CallError
  ELSE IsSlot(Alone, answer')

Answer ==
  /\ result # None
  /\ answer = None
  /\ IF api = "many" THEN AnswerMany ELSE AnswerOne
  /\ UNCHANGED <<api, requests, verdicts, result>>

Next ==
  \/ \E i \in Items, code \in RawCodes : Report(i, code)
  \/ \E status \in CallResults : Return(status)
  \/ Answer

Spec == Init /\ [][Next]_contractVars
=============================================================================
