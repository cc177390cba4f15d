-------------------------- MODULE LoreCall_proofs --------------------------
(***************************************************************************)
(* Proofs about LoreCall, for any number of calls and of events in each,   *)
(* and whatever the callbacks do.  The argument follows the events: what   *)
(* the callback was run for is what dispatch is through with, until a      *)
(* panic; what the context holds is what told of a failure among them; and *)
(* Lore returns only when dispatch is through with all.                    *)
(***************************************************************************)
EXTENDS LoreCall, TLAPS

USE CallAssumption

TellsOfError(event) == event.tag = "ERROR" \/ (event.tag = "COMPLETE" /\ ~event.decodes)
TellsWhy(event) ==
  event.tag = "COMPLETE" /\ event.decodes /\ event.status = "nonzero" /\ event.text

(* Lore completes a call once.                                             *)
OneCompletion ==
  /\ status = None => \A n \in 1..Len(stream) : stream[n].tag # "COMPLETE"
  /\ \A i, j \in 1..Len(stream) :
       stream[i].tag = "COMPLETE" /\ stream[j].tag = "COMPLETE" => i = j

(* The callback has been run for every event dispatch is through with.     *)
HandedSoFar == panic = None => invoked = [n \in 1..handled |-> n]

(* The context holds what told of the failure so far.                      *)
RecordedSoFar ==
  /\ InOrder(errors, {n \in 1..handled : TellsOfError(stream[n])})
  /\ {n \in 1..handled : TellsWhy(stream[n])} = IF complete = None THEN {} ELSE {complete}

(* Lore has returned only when dispatch was through, and only then is      *)
(* there an outcome.                                                       *)
EndIsReached ==
  /\ phase \in {"ended", "returned"} => handled = Len(stream)
  /\ phase = "returned" => outcome = Conclude
  /\ phase # "returned" => outcome = None

IInv == TypeOK /\ OneCompletion /\ HandedSoFar /\ RecordedSoFar /\ EndIsReached

-----------------------------------------------------------------------------
LEMMA InitEstablishes == Init => IInv
<1> SUFFICES ASSUME Init PROVE IInv
  OBVIOUS
<1>1. /\ stream = << >> /\ Len(stream) = 0 /\ handled = 0 /\ errors = << >>
      /\ invoked = << >> /\ complete = None /\ panic = None
  BY DEF Init
<1>2. TypeOK
  BY <1>1 DEF Init, TypeOK
<1>3. 1..0 = {} /\ [n \in 1..0 |-> n] = << >> /\ DOMAIN errors = {}
  BY <1>1
<1>4. RecordedSoFar
  BY <1>1, <1>3 DEF RecordedSoFar, InOrder, ToSet
<1>5. QED
  BY <1>1, <1>2, <1>3, <1>4 DEF Init, IInv, OneCompletion, HandedSoFar, EndIsReached

(* A call begins with nothing.                                             *)
LEMMA BeginPreserves ==
  ASSUME IInv, Begin
  PROVE  IInv'
<1>1. /\ stream' = << >> /\ Len(stream') = 0 /\ handled' = 0 /\ errors' = << >>
      /\ invoked' = << >> /\ complete' = None /\ panic' = None /\ status' = None
      /\ phase' = "inside" /\ outcome' = None
  BY DEF Begin
<1>2. calls' \in 0..MaxCalls
  BY DEF Begin, IInv, TypeOK
<1>3. TypeOK'
  BY <1>1, <1>2 DEF TypeOK
<1>4. 1..0 = {} /\ [n \in 1..0 |-> n] = << >> /\ DOMAIN errors' = {}
  BY <1>1
<1>5. RecordedSoFar'
  BY <1>1, <1>4 DEF RecordedSoFar, InOrder, ToSet
<1>6. QED
  BY <1>1, <1>3, <1>4, <1>5 DEF IInv, OneCompletion, HandedSoFar, EndIsReached

(* An event Lore adds is one dispatch has not looked at.                   *)
LEMMA EmitPreserves ==
  ASSUME IInv, NEW event \in Event, Emit(event),
         \/ event.tag # "COMPLETE" /\ status' = status
         \/ status = None /\ status' \in Statuses
  PROVE  IInv'
<1>1. /\ phase = "inside" /\ stream' = Append(stream, event)
      /\ UNCHANGED <<phase, handled, errors, complete, panic, invoked, outcome, calls>>
  BY DEF Emit
<1>2. stream \in Seq(Event) /\ handled \in 0..Len(stream)
  BY DEF IInv, TypeOK
<1>3. /\ stream' \in Seq(Event) /\ Len(stream') = Len(stream) + 1
      /\ stream'[Len(stream) + 1] = event
      /\ \A n \in 1..Len(stream) : stream'[n] = stream[n]
  BY <1>1, <1>2
<1>4. TypeOK'
  <2>1. 1..Len(stream) \subseteq 1..Len(stream')
    BY <1>2, <1>3
  <2>2. errors' \in Seq(1..Len(stream')) /\ invoked' \in Seq(1..Len(stream'))
    BY <1>1, <2>1 DEF IInv, TypeOK
  <2>3. handled' \in 0..Len(stream') /\ status' \in Statuses \cup {None}
    BY <1>1, <1>2, <1>3 DEF IInv, TypeOK
  <2>4. complete' \in 1..Len(stream') \cup {None} /\ panic' \in 1..Len(stream') \cup {None}
    BY <1>1, <2>1 DEF IInv, TypeOK
  <2>5. QED
    BY <1>1, <1>3, <2>2, <2>3, <2>4 DEF IInv, TypeOK
<1>5. OneCompletion'
  <2>1. \A n \in 1..Len(stream') : n = Len(stream) + 1 \/ n \in 1..Len(stream)
    BY <1>2, <1>3
  <2>2. CASE event.tag # "COMPLETE" /\ status' = status
    BY <2>1, <2>2, <1>3 DEF IInv, OneCompletion
  <2>3. CASE status = None /\ status' \in Statuses
    BY <2>1, <2>3, <1>3 DEF IInv, OneCompletion
  <2>4. QED
    BY <2>2, <2>3
<1>6. HandedSoFar'
  BY <1>1 DEF IInv, HandedSoFar
<1>7. RecordedSoFar'
  <2>1. \A n \in 1..handled : stream'[n] = stream[n]
    BY <1>2, <1>3
  <2>2. QED
    BY <2>1, <1>1 DEF IInv, RecordedSoFar
<1>8. EndIsReached'
  BY <1>1 DEF IInv, EndIsReached
<1>9. QED
  BY <1>4, <1>5, <1>6, <1>7, <1>8 DEF IInv

(* Lore returns: it has delivered all, or there was nothing to deliver.    *)
LEMMA ReturnsPreserves ==
  ASSUME IInv, LoreReturns \/ LoreRefuses
  PROVE  IInv'
<1>1. /\ phase = "inside" /\ phase' = "ended" /\ handled = Len(stream)
      /\ UNCHANGED <<stream, handled, errors, complete, panic, invoked, outcome, calls>>
      /\ status' = status \/ (status' = "nonzero" /\ stream = << >>)
  <2>1. CASE LoreReturns
    <3>1. UNCHANGED <<stream, status, handled, errors, complete, panic, invoked, outcome, calls>>
      BY <2>1 DEF LoreReturns
    <3>2. phase = "inside" /\ phase' = "ended" /\ handled = Len(stream)
      BY <2>1 DEF LoreReturns
    <3>3. QED
      BY <3>1, <3>2
  <2>2. CASE LoreRefuses
    <3>1. stream = << >> /\ handled \in 0..Len(stream)
      BY <2>2 DEF LoreRefuses, IInv, TypeOK
    <3>2. Len(stream) = 0 /\ handled = Len(stream)
      BY <3>1
    <3>3. QED
      BY <2>2, <3>2 DEF LoreRefuses
  <2>3. QED
    BY <2>1, <2>2
<1>2. TypeOK'
  BY <1>1 DEF IInv, TypeOK, Statuses
<1>3. OneCompletion'
  BY <1>1 DEF IInv, OneCompletion
<1>4. HandedSoFar' /\ RecordedSoFar' /\ EndIsReached'
  BY <1>1 DEF IInv, HandedSoFar, RecordedSoFar, EndIsReached
<1>5. QED
  BY <1>2, <1>3, <1>4 DEF IInv

LEMMA ReturnPreserves ==
  ASSUME IInv, Return
  PROVE  IInv'
<1>1. /\ phase = "ended" /\ phase' = "returned" /\ outcome' = Conclude
      /\ UNCHANGED <<stream, status, handled, errors, complete, panic, invoked, calls>>
  BY DEF Return
<1>2. Conclude \in Outcomes
  <2>1. IntoMessages \in Seq(Nat)
    BY DEF IntoMessages, IInv, TypeOK
  <2>2. QED
    BY <2>1 DEF Conclude, Outcomes, IInv, TypeOK
<1>3. TypeOK'
  BY <1>1, <1>2 DEF IInv, TypeOK
<1>4. Conclude' = Conclude
  BY <1>1 DEF Conclude, IntoMessages
<1>5. QED
  BY <1>1, <1>3, <1>4 DEF IInv, OneCompletion, HandedSoFar, RecordedSoFar, EndIsReached

(* A sequence in order stays so when a later position is added.            *)
LEMMA AppendInOrder ==
  ASSUME NEW n \in Nat, NEW s \in Seq(1..n), NEW S, InOrder(s, S)
  PROVE  InOrder(Append(s, n + 1), S \cup {n + 1})
<1> DEFINE t == Append(s, n + 1)
<1>1. /\ DOMAIN s = 1..Len(s) /\ DOMAIN t = 1..(Len(s) + 1) /\ Len(s) \in Nat
      /\ \A i \in 1..Len(s) : t[i] = s[i] /\ s[i] \in 1..n
      /\ t[Len(s) + 1] = n + 1
  OBVIOUS
<1>2. ToSet(t) = S \cup {n + 1}
  <2>1. ToSet(s) = S
    BY DEF InOrder
  <2>2. ToSet(t) = {t[i] : i \in 1..(Len(s) + 1)} /\ S = {s[i] : i \in 1..Len(s)}
    BY <1>1, <2>1 DEF ToSet
  <2>3. 1..(Len(s) + 1) = 1..Len(s) \cup {Len(s) + 1}
    BY <1>1
  <2> HIDE DEF t
  <2>4. \A x : x \in ToSet(t) <=> x \in S \cup {n + 1}
    BY <1>1, <2>2, <2>3
  <2>5. QED
    BY <2>4
<1>3. \A i, j \in DOMAIN t : i < j => t[i] < t[j]
  <2>1. \A i, j \in 1..Len(s) : i < j => s[i] < s[j]
    BY <1>1 DEF InOrder
  <2> HIDE DEF t
  <2>2. SUFFICES ASSUME NEW i \in 1..(Len(s) + 1), NEW j \in 1..(Len(s) + 1), i < j
                 PROVE  t[i] < t[j]
    BY <1>1
  <2>3. i \in 1..Len(s) /\ t[i] = s[i] /\ s[i] \in 1..n
    BY <1>1, <2>2
  <2>4. CASE j \in 1..Len(s)
    BY <1>1, <2>1, <2>2, <2>3, <2>4
  <2>5. CASE j = Len(s) + 1
    BY <1>1, <2>3, <2>5
  <2>6. QED
    BY <1>1, <2>4, <2>5
<1>4. QED
  BY <1>2, <1>3 DEF InOrder

(* Dispatch takes in what its event tells of a failure.                    *)
LEMMA DispatchRecords ==
  ASSUME IInv, phase = "inside", handled < Len(stream), Record(handled + 1),
         handled' = handled + 1, stream' = stream
  PROVE  /\ RecordedSoFar'
         /\ errors' \in Seq(1..Len(stream)) /\ complete' \in 1..Len(stream) \cup {None}
<1> DEFINE n == handled + 1
           Errors == {k \in 1..handled : TellsOfError(stream[k])}
           Whys == {k \in 1..handled : TellsWhy(stream[k])}
<1>1. /\ stream \in Seq(Event) /\ handled \in Nat /\ n \in 1..Len(stream)
      /\ errors \in Seq(1..Len(stream)) /\ complete \in 1..Len(stream) \cup {None}
  BY DEF IInv, TypeOK
<1>2. 1..n = 1..handled \cup {n}
  BY <1>1
<1>3. /\ InOrder(errors, Errors)
      /\ Whys = IF complete = None THEN {} ELSE {complete}
  BY DEF IInv, RecordedSoFar
<1>4. /\ {k \in 1..n : TellsOfError(stream[k])} =
           IF TellsOfError(stream[n]) THEN Errors \cup {n} ELSE Errors
      /\ {k \in 1..n : TellsWhy(stream[k])} =
           IF TellsWhy(stream[n]) THEN Whys \cup {n} ELSE Whys
  BY <1>2
<1>5. errors' = IF TellsOfError(stream[n]) THEN Append(errors, n) ELSE errors
  BY DEF Record, Terminal, TellsOfError
<1>6. complete' = IF TellsWhy(stream[n]) THEN n ELSE complete
  BY DEF Record, TellsWhy
<1>7. InOrder(errors', {k \in 1..n : TellsOfError(stream[k])})
  <2>1. errors \in Seq(1..handled)
    <3>1. ToSet(errors) \subseteq 1..handled
      BY <1>3 DEF InOrder
    <3>2. \A i \in 1..Len(errors) : errors[i] \in 1..handled
      BY <1>1, <3>1 DEF ToSet
    <3>3. QED
      BY <1>1, <3>2
  <2>2. InOrder(Append(errors, n), Errors \cup {n})
    BY <1>1, <1>3, <2>1, AppendInOrder
  <2>3. QED
    BY <1>3, <1>4, <1>5, <2>2
<1>8. TellsWhy(stream[n]) => Whys = {}
  <2>1. ASSUME TellsWhy(stream[n]), NEW k \in Whys PROVE FALSE
    <3>1. stream[k].tag = "COMPLETE" /\ stream[n].tag = "COMPLETE" /\ k \in 1..Len(stream)
      BY <1>1, <2>1 DEF TellsWhy
    <3>2. k = n
      BY <1>1, <3>1 DEF IInv, OneCompletion
    <3>3. QED
      BY <1>1, <3>2
  <2>2. QED
    BY <2>1
<1>9. {k \in 1..n : TellsWhy(stream[k])} = IF complete' = None THEN {} ELSE {complete'}
  <2>1. CASE TellsWhy(stream[n])
    <3>1. complete' = n /\ n # None
      BY <1>1, <1>6, <2>1
    <3>2. QED
      BY <1>4, <1>8, <2>1, <3>1
  <2>2. CASE ~TellsWhy(stream[n])
    BY <1>3, <1>4, <1>6, <2>2
  <2>3. QED
    BY <2>1, <2>2
<1>10. errors' \in Seq(1..Len(stream)) /\ complete' \in 1..Len(stream) \cup {None}
  <2>1. Append(errors, n) \in Seq(1..Len(stream)) /\ n \in 1..Len(stream)
    BY <1>1
  <2> HIDE DEF n
  <2>2. errors' \in Seq(1..Len(stream))
    BY <1>1, <1>5, <2>1
  <2>3. complete' \in 1..Len(stream) \cup {None}
    BY <1>1, <1>6, <2>1
  <2>4. QED
    BY <2>2, <2>3
<1> HIDE DEF n, Errors, Whys
<1>11. RecordedSoFar'
  <2>1. handled' = n /\ stream' = stream
    BY DEF n
  <2>2. QED
    BY <1>7, <1>9, <2>1 DEF RecordedSoFar
<1>12. QED
  BY <1>10, <1>11

LEMMA DispatchPreserves ==
  ASSUME IInv, NEW panics \in BOOLEAN, Dispatch(panics)
  PROVE  IInv'
<1>1. /\ phase = "inside" /\ handled < Len(stream) /\ Record(handled + 1)
      /\ handled' = handled + 1 /\ UNCHANGED <<phase, stream, status, outcome, calls>>
      /\ IF panic # None
         THEN UNCHANGED <<panic, invoked>>
         ELSE /\ invoked' = Append(invoked, handled + 1)
              /\ panic' = IF panics THEN handled + 1 ELSE None
  BY DEF Dispatch
<1>2. /\ handled + 1 \in 1..Len(stream) /\ handled \in Nat /\ Len(stream) \in Nat
      /\ invoked \in Seq(1..Len(stream))
      /\ panic \in 1..Len(stream) \cup {None}
  BY <1>1 DEF IInv, TypeOK
<1>3. /\ RecordedSoFar'
      /\ errors' \in Seq(1..Len(stream)) /\ complete' \in 1..Len(stream) \cup {None}
  BY <1>1, DispatchRecords
<1>4. invoked' \in Seq(1..Len(stream)) /\ panic' \in 1..Len(stream) \cup {None}
  <2>1. Append(invoked, handled + 1) \in Seq(1..Len(stream))
    BY <1>2
  <2>2. CASE panic # None
    BY <1>1, <1>2, <2>2
  <2>3. CASE panic = None
    BY <1>1, <1>2, <2>1, <2>3
  <2>4. QED
    BY <2>2, <2>3
<1>5. TypeOK'
  <2>1. handled' \in 0..Len(stream')
    BY <1>1, <1>2
  <2>2. QED
    BY <1>1, <1>3, <1>4, <2>1 DEF IInv, TypeOK
<1>6. HandedSoFar'
  <2>1. SUFFICES ASSUME panic' = None PROVE invoked' = [k \in 1..(handled + 1) |-> k]
    BY <1>1 DEF HandedSoFar
  <2>2. panic = None /\ invoked' = Append(invoked, handled + 1)
    BY <1>1, <1>2, <2>1
  <2>3. invoked = [k \in 1..handled |-> k]
    BY <2>2 DEF IInv, HandedSoFar
  <2>4. Len(invoked) = handled
    BY <1>2, <2>3
  <2>5. DOMAIN invoked' = 1..(handled + 1) /\ invoked' \in Seq(1..Len(stream))
    BY <1>2, <1>4, <2>2, <2>4
  <2>6. \A k \in 1..(handled + 1) : invoked'[k] = k
    <3>1. \A k \in 1..handled : invoked'[k] = k
      BY <1>2, <2>2, <2>3, <2>4
    <3>2. invoked'[handled + 1] = handled + 1
      BY <1>2, <2>2, <2>4
    <3>3. QED
      BY <1>2, <3>1, <3>2
  <2>7. QED
    BY <2>5, <2>6
<1>7. OneCompletion' /\ EndIsReached'
  BY <1>1 DEF IInv, OneCompletion, EndIsReached
<1>8. QED
  BY <1>3, <1>5, <1>6, <1>7 DEF IInv

LEMMA StepPreserves == IInv /\ [Next]_vars => IInv'
<1> SUFFICES ASSUME IInv, [Next]_vars PROVE IInv'
  OBVIOUS
<1>1. CASE Begin
  BY <1>1, BeginPreserves
<1>2. CASE \E tag \in {"ERROR", "OTHER"}, decodes \in BOOLEAN : EmitEvent(tag, decodes)
  <2>1. PICK tag \in {"ERROR", "OTHER"}, decodes \in BOOLEAN : EmitEvent(tag, decodes)
    BY <1>2
  <2>2. /\ Plain(tag, decodes) \in Event /\ Plain(tag, decodes).tag # "COMPLETE"
        /\ Emit(Plain(tag, decodes)) /\ status' = status
    BY <2>1 DEF EmitEvent, Plain, Event, Statuses
  <2>3. QED
    BY <2>2, EmitPreserves
<1>3. CASE \E decodes, text \in BOOLEAN, code \in Statuses : EmitComplete(decodes, code, text)
  <2>1. PICK decodes \in BOOLEAN, text \in BOOLEAN, code \in Statuses :
          EmitComplete(decodes, code, text)
    BY <1>3
  <2> DEFINE event == [tag |-> "COMPLETE", decodes |-> decodes, status |-> code, text |-> text]
  <2>2. event \in Event /\ Emit(event) /\ status = None /\ status' \in Statuses
    BY <2>1 DEF EmitComplete, Event
  <2>3. QED
    BY <2>2, EmitPreserves
<1>4. CASE EmitEnd
  <2>1. /\ Plain("END", TRUE) \in Event /\ Plain("END", TRUE).tag # "COMPLETE"
        /\ Emit(Plain("END", TRUE)) /\ status' = status
    BY <1>4 DEF EmitEnd, Plain, Event, Statuses
  <2>2. QED
    BY <2>1, EmitPreserves
<1>5. CASE LoreReturns \/ LoreRefuses
  BY <1>5, ReturnsPreserves
<1>6. CASE \E panics \in BOOLEAN : Dispatch(panics)
  BY <1>6, DispatchPreserves
<1>7. CASE Return
  BY <1>7, ReturnPreserves
<1>8. CASE UNCHANGED vars
  BY <1>8 DEF vars, IInv, TypeOK, OneCompletion, HandedSoFar, RecordedSoFar, EndIsReached,
              Conclude, IntoMessages
<1>9. QED
  BY <1>1, <1>2, <1>3, <1>4, <1>5, <1>6, <1>7, <1>8 DEF Next

(***************************************************************************)
(* The inductive invariant of a call holds in every reachable state: for   *)
(* every stream of events, decoding or not, and every callback.            *)
(***************************************************************************)
THEOREM Invariance == Spec => []IInv
<1>1. QED
  BY InitEstablishes, StepPreserves, PTL DEF Spec

-----------------------------------------------------------------------------
(***************************************************************************)
(* The type invariant of a call, the positions its context holds included: *)
(* nothing of an earlier call's is left in them.                           *)
(***************************************************************************)
THEOREM TypeCorrect == Spec => []TypeOK
<1>1. IInv => TypeOK
  BY DEF IInv
<1>2. QED
  BY <1>1, Invariance, PTL

(***************************************************************************)
(* A call whose callback panicked resumes that panic on the caller's       *)
(* thread, whatever the status, and no other call panics.                  *)
(***************************************************************************)
THEOREM PanicsReachTheCaller == Spec => []PanicReachesTheCaller
<1>1. IInv => PanicReachesTheCaller
  BY DEF IInv, EndIsReached, PanicReachesTheCaller, Conclude
<1>2. QED
  BY <1>1, Invariance, PTL

(***************************************************************************)
(* An Err of a call names the events of this call that tell of a failure,  *)
(* in order, or else the reason its completion gives, and nothing else.    *)
(***************************************************************************)
THEOREM FailuresNameTheirCause == Spec => []FailureNamesItsCause
<1>1. IInv => FailureNamesItsCause
  <2>1. SUFFICES ASSUME IInv, outcome # None, outcome.is = "Call"
                 PROVE  InOrder(outcome.messages, IF ErrorEvents # {} THEN ErrorEvents ELSE Reasons)
    BY DEF FailureNamesItsCause
  <2>2. outcome = Conclude /\ handled = Len(stream) /\ stream \in Seq(Event)
    BY <2>1 DEF IInv, EndIsReached, TypeOK
  <2>3. outcome.messages = IntoMessages
    BY <2>1, <2>2 DEF Conclude
  <2>4. /\ ErrorEvents = {n \in 1..handled : TellsOfError(stream[n])}
        /\ Reasons = {n \in 1..handled : TellsWhy(stream[n])}
    BY <2>2 DEF ErrorEvents, Reasons, TellsOfError, TellsWhy
  <2>5. /\ InOrder(errors, ErrorEvents)
        /\ Reasons = IF complete = None THEN {} ELSE {complete}
    BY <2>1, <2>4 DEF IInv, RecordedSoFar
  <2>6. ErrorEvents # {} <=> errors # << >>
    <3>1. errors \in Seq(1..Len(stream)) /\ ErrorEvents = {errors[i] : i \in DOMAIN errors}
      BY <2>1, <2>5 DEF IInv, TypeOK, InOrder, ToSet
    <3>2. QED
      BY <3>1
  <2>7. CASE errors # << >>
    BY <2>3, <2>5, <2>6, <2>7 DEF IntoMessages
  <2>8. CASE errors = << >>
    <3>1. CASE complete = None
      <4>1. outcome.messages = << >> /\ Reasons = {} /\ DOMAIN << >> = {}
        BY <2>3, <2>5, <2>8, <3>1 DEF IntoMessages
      <4>2. QED
        BY <2>6, <2>8, <4>1 DEF InOrder, ToSet
    <3>2. CASE complete # None
      <4>1. outcome.messages = <<complete>> /\ Reasons = {complete}
        BY <2>3, <2>5, <2>8, <3>2 DEF IntoMessages
      <4>2. DOMAIN <<complete>> = {1} /\ <<complete>>[1] = complete
        OBVIOUS
      <4>3. InOrder(<<complete>>, {complete})
        BY <4>2 DEF InOrder, ToSet
      <4>4. QED
        BY <2>6, <2>8, <4>1, <4>3
    <3>3. QED
      BY <3>1, <3>2
  <2>9. QED
    BY <2>7, <2>8
<1>2. QED
  BY <1>1, Invariance, PTL

-----------------------------------------------------------------------------
(* What the callback was run for, and the refinement of CallContract.      *)
(* These take two facts more: what a stream of Lore's looks like, and up   *)
(* to where the callback has been run.                                     *)

(* A call completes before it ends, and returns the completion's status.   *)
StreamTellsTheStatus ==
  /\ \A n \in 1..Len(stream) : stream[n].tag = "END" => n = Len(stream) /\ status # None
  /\ \A n \in 1..Len(stream) : stream[n].tag = "COMPLETE" => stream[n].status = status
  /\ stream = << >> => status = IF phase \in {"ended", "returned"} THEN "nonzero" ELSE None
  /\ status # None /\ stream # << >> => \E n \in 1..Len(stream) : stream[n].tag = "COMPLETE"
  /\ phase \in {"ended", "returned"} /\ stream # << >> => stream[Len(stream)].tag = "END"

SeenSoFar == IF panic = None THEN handled ELSE panic

RunUpToThePanic ==
  /\ SeenSoFar \in 0..handled
  /\ invoked = [n \in 1..SeenSoFar |-> n]

CInv == IInv /\ StreamTellsTheStatus /\ RunUpToThePanic
LEMMA AppendPosition ==
  ASSUME NEW m \in Nat
  PROVE  Append([n \in 1..m |-> n], m + 1) = [n \in 1..(m + 1) |-> n]
<1> DEFINE s == [n \in 1..m |-> n]
           t == Append(s, m + 1)
<1>1. s \in Seq(Nat) /\ Len(s) = m
  OBVIOUS
<1> HIDE DEF s
<1>2. t \in Seq(Nat) /\ Len(t) = m + 1 /\ t[m + 1] = m + 1
      /\ \A n \in 1..m : t[n] = s[n]
  BY <1>1
<1>3. \A n \in 1..(m + 1) : t[n] = n
  <2>1. \A n \in 1..m : s[n] = n
    BY DEF s
  <2>2. \A n \in 1..(m + 1) : n \in 1..m \/ n = m + 1
    OBVIOUS
  <2>3. QED
    BY <1>2, <2>1, <2>2
<1>4. DOMAIN t = 1..(m + 1)
  BY <1>2
<1> HIDE DEF t
<1>5. t = [n \in 1..(m + 1) |-> n]
  <2>1. t = [n \in DOMAIN t |-> t[n]]
    BY <1>2
  <2>2. QED
    BY <1>3, <1>4, <2>1
<1>6. QED
  BY <1>5 DEF s, t

LEMMA ContractFactsInit == Init => CInv
<1> SUFFICES ASSUME Init PROVE CInv
  OBVIOUS
<1>1. /\ stream = << >> /\ Len(stream) = 0 /\ handled = 0 /\ invoked = << >>
      /\ panic = None /\ status = None /\ phase = "idle"
  BY DEF Init
<1>2. 1..0 = {} /\ [n \in 1..0 |-> n] = << >>
  OBVIOUS
<1>3. RunUpToThePanic
  BY <1>1, <1>2 DEF RunUpToThePanic, SeenSoFar
<1>4. QED
  BY <1>1, <1>2, <1>3, InitEstablishes DEF CInv, StreamTellsTheStatus

(* The stream grows by Lore's events, within its contract.                 *)
LEMMA EmitTells ==
  ASSUME CInv, NEW event \in Event, Emit(event),
         \/ event.tag \notin {"COMPLETE", "END"} /\ status = None /\ status' = None
         \/ event.tag = "COMPLETE" /\ status = None /\ status' = event.status
         \/ /\ event.tag = "END" /\ status # None /\ status' = status
            /\ stream = << >> \/ stream[Len(stream)].tag # "END"
  PROVE  StreamTellsTheStatus'
<1>1. /\ phase = "inside" /\ phase' = "inside" /\ stream' = Append(stream, event)
      /\ stream \in Seq(Event) /\ Len(stream) \in Nat
      /\ status \in Statuses \cup {None} /\ event.status \in Statuses
  BY DEF Emit, CInv, IInv, TypeOK, Event
<1>2. /\ stream' # << >> /\ Len(stream') = Len(stream) + 1
      /\ stream'[Len(stream) + 1] = event
      /\ \A n \in 1..Len(stream) : stream'[n] = stream[n]
      /\ \A n \in 1..Len(stream') : n \in 1..Len(stream) \/ n = Len(stream) + 1
  BY <1>1
<1>3. \A n \in 1..Len(stream) : stream[n].tag # "END"
  <2>1. SUFFICES ASSUME NEW n \in 1..Len(stream), stream[n].tag = "END" PROVE FALSE
    OBVIOUS
  <2>2. n = Len(stream) /\ status # None /\ stream # << >>
    BY <1>1, <2>1 DEF CInv, StreamTellsTheStatus
  <2>3. QED
    BY <1>1, <2>1, <2>2
<1>4. status = None => \A n \in 1..Len(stream) : stream[n].tag # "COMPLETE"
  BY DEF CInv, IInv, OneCompletion
<1>5. \A n \in 1..Len(stream') : stream'[n].tag = "END" => n = Len(stream') /\ status' # None
  BY <1>1, <1>2, <1>3
<1>6. \A n \in 1..Len(stream') : stream'[n].tag = "COMPLETE" => stream'[n].status = status'
  <2>1. SUFFICES ASSUME NEW n \in 1..Len(stream'), stream'[n].tag = "COMPLETE"
                 PROVE  stream'[n].status = status'
    OBVIOUS
  <2>2. CASE n \in 1..Len(stream)
    <3>1. stream[n].tag = "COMPLETE" /\ status' = status
      BY <1>2, <1>4, <2>1, <2>2
    <3>2. QED
      BY <1>2, <2>2, <3>1 DEF CInv, StreamTellsTheStatus
  <2>3. CASE n = Len(stream) + 1
    BY <1>2, <2>1, <2>3
  <2>4. QED
    BY <1>2, <2>1, <2>2, <2>3
<1>7. status' # None => \E n \in 1..Len(stream') : stream'[n].tag = "COMPLETE"
  <2>1. CASE event.tag = "COMPLETE"
    <3>1. Len(stream) + 1 \in 1..Len(stream')
      BY <1>1, <1>2
    <3>2. QED
      BY <1>2, <2>1, <3>1
  <2>2. CASE event.tag = "END"
    <3>1. stream # << >>
      BY <1>1, <2>2 DEF CInv, StreamTellsTheStatus
    <3>2. PICK n \in 1..Len(stream) : stream[n].tag = "COMPLETE"
      BY <2>2, <3>1 DEF CInv, StreamTellsTheStatus
    <3>3. n \in 1..Len(stream')
      BY <1>1, <1>2
    <3>4. QED
      BY <1>2, <3>2, <3>3
  <2>3. QED
    BY <2>1, <2>2
<1>8. QED
  BY <1>1, <1>2, <1>5, <1>6, <1>7 DEF StreamTellsTheStatus

LEMMA EmitsTell ==
  ASSUME CInv,
         \/ \E tag \in {"ERROR", "OTHER"}, decodes \in BOOLEAN : EmitEvent(tag, decodes)
         \/ \E decodes, text \in BOOLEAN, code \in Statuses : EmitComplete(decodes, code, text)
         \/ EmitEnd
  PROVE  /\ StreamTellsTheStatus'
         /\ \E event \in Event : Emit(event)
<1>1. CASE \E tag \in {"ERROR", "OTHER"}, decodes \in BOOLEAN : EmitEvent(tag, decodes)
  <2>1. PICK tag \in {"ERROR", "OTHER"}, decodes \in BOOLEAN : EmitEvent(tag, decodes)
    BY <1>1
  <2>2. /\ Plain(tag, decodes) \in Event /\ Plain(tag, decodes).tag \notin {"COMPLETE", "END"}
        /\ Emit(Plain(tag, decodes)) /\ status = None /\ status' = None
    BY <2>1 DEF EmitEvent, Plain, Event, Statuses
  <2>3. QED
    BY <2>2, EmitTells
<1>2. CASE \E decodes, text \in BOOLEAN, code \in Statuses : EmitComplete(decodes, code, text)
  <2>1. PICK decodes \in BOOLEAN, text \in BOOLEAN, code \in Statuses :
          EmitComplete(decodes, code, text)
    BY <1>2
  <2> DEFINE event == [tag |-> "COMPLETE", decodes |-> decodes, status |-> code, text |-> text]
  <2>2. event \in Event /\ Emit(event) /\ event.tag = "COMPLETE"
        /\ status = None /\ status' = event.status
    BY <2>1 DEF EmitComplete, Event
  <2> HIDE DEF event
  <2>3. QED
    BY <2>2, EmitTells
<1>3. CASE EmitEnd
  <2>1. /\ Plain("END", TRUE) \in Event /\ Plain("END", TRUE).tag = "END"
        /\ Emit(Plain("END", TRUE)) /\ status # None /\ status' = status
        /\ stream[Len(stream)].tag # "END"
    BY <1>3 DEF EmitEnd, Plain, Event, Statuses, Last
  <2>2. QED
    BY <2>1, EmitTells
<1>4. QED
  BY <1>1, <1>2, <1>3

LEMMA ContractFactsStep == CInv /\ [Next]_vars => CInv'
<1> SUFFICES ASSUME CInv, [Next]_vars PROVE CInv'
  OBVIOUS
<1>1. IInv'
  BY StepPreserves DEF CInv
<1> SUFFICES StreamTellsTheStatus' /\ RunUpToThePanic'
  BY <1>1 DEF CInv
<1>2. CASE Begin
  <2>1. /\ stream' = << >> /\ Len(stream') = 0 /\ handled' = 0 /\ invoked' = << >>
        /\ panic' = None /\ status' = None /\ phase' = "inside"
    BY <1>2 DEF Begin
  <2>2. 1..0 = {} /\ [n \in 1..0 |-> n] = << >>
    OBVIOUS
  <2>3. RunUpToThePanic'
    BY <2>1, <2>2 DEF RunUpToThePanic, SeenSoFar
  <2>4. QED
    BY <2>1, <2>2, <2>3 DEF StreamTellsTheStatus
<1>3. CASE \/ \E tag \in {"ERROR", "OTHER"}, decodes \in BOOLEAN : EmitEvent(tag, decodes)
           \/ \E decodes, text \in BOOLEAN, code \in Statuses : EmitComplete(decodes, code, text)
           \/ EmitEnd
  <2>1. UNCHANGED <<handled, panic, invoked>>
    BY <1>3, EmitsTell DEF Emit
  <2>2. QED
    BY <1>3, <2>1, EmitsTell DEF CInv, RunUpToThePanic, SeenSoFar
<1>4. CASE LoreReturns \/ LoreRefuses
  <2>1. /\ UNCHANGED <<stream, handled, panic, invoked>> /\ phase' = "ended"
        /\ \/ stream # << >> /\ stream[Len(stream)].tag = "END" /\ status' = status
           \/ stream = << >> /\ status' = "nonzero"
    BY <1>4 DEF LoreReturns, LoreRefuses, Last
  <2>2. StreamTellsTheStatus'
    <3>1. CASE stream # << >> /\ stream[Len(stream)].tag = "END" /\ status' = status
      BY <2>1, <3>1 DEF CInv, StreamTellsTheStatus
    <3>2. CASE stream = << >> /\ status' = "nonzero"
      <4>1. Len(stream) = 0 /\ 1..0 = {}
        BY <3>2
      <4>2. QED
        BY <2>1, <3>2, <4>1 DEF StreamTellsTheStatus
    <3>3. QED
      BY <2>1, <3>1, <3>2
  <2>3. QED
    BY <2>1, <2>2 DEF CInv, RunUpToThePanic, SeenSoFar
<1>5. CASE \E panics \in BOOLEAN : Dispatch(panics)
  <2>1. PICK panics \in BOOLEAN : Dispatch(panics)
    BY <1>5
  <2>2. /\ UNCHANGED <<phase, stream, status>> /\ handled' = handled + 1
        /\ IF panic # None
           THEN UNCHANGED <<panic, invoked>>
           ELSE /\ invoked' = Append(invoked, handled + 1)
                /\ panic' = IF panics THEN handled + 1 ELSE None
    BY <2>1 DEF Dispatch
  <2>3. /\ handled \in Nat /\ panic \in Nat \cup {None}
        /\ SeenSoFar \in 0..handled /\ invoked = [n \in 1..SeenSoFar |-> n]
    BY DEF CInv, IInv, TypeOK, RunUpToThePanic
  <2>4. StreamTellsTheStatus'
    BY <2>2 DEF CInv, StreamTellsTheStatus
  <2>5. RunUpToThePanic'
    <3>1. CASE panic # None
      BY <2>2, <2>3, <3>1 DEF RunUpToThePanic, SeenSoFar
    <3>2. CASE panic = None
      <4>1. SeenSoFar = handled /\ SeenSoFar' = handled + 1
        BY <2>2, <2>3, <3>2 DEF SeenSoFar
      <4>2. Append([n \in 1..handled |-> n], handled + 1) = [n \in 1..(handled + 1) |-> n]
        BY <2>3, AppendPosition
      <4>3. QED
        BY <2>2, <2>3, <3>2, <4>1, <4>2 DEF RunUpToThePanic
    <3>3. QED
      BY <3>1, <3>2
  <2>6. QED
    BY <2>4, <2>5
<1>6. CASE Return \/ UNCHANGED vars
  <2>1. /\ UNCHANGED <<stream, status, handled, panic, invoked>>
        /\ phase' \in {"ended", "returned"} <=> phase \in {"ended", "returned"}
    BY <1>6 DEF Return, vars
  <2>2. QED
    BY <2>1 DEF CInv, StreamTellsTheStatus, RunUpToThePanic, SeenSoFar
<1>7. QED
  BY <1>2, <1>3, <1>4, <1>5, <1>6 DEF Next
(* What the callback has seen is the stream, up to there.                  *)
LEMMA SeenIsTheBeginning ==
  ASSUME CInv
  PROVE  /\ SeenSoFar \in Nat /\ SeenSoFar <= handled /\ handled <= Len(stream)
         /\ SeenEvents \in Seq(Event) /\ Len(SeenEvents) = SeenSoFar
         /\ DOMAIN SeenEvents = 1..SeenSoFar
         /\ \A n \in 1..SeenSoFar : SeenEvents[n] = stream[n] /\ n \in 1..Len(stream)
<1>1. /\ stream \in Seq(Event) /\ handled \in 0..Len(stream)
      /\ SeenSoFar \in 0..handled /\ invoked = [n \in 1..SeenSoFar |-> n]
  BY DEF CInv, IInv, TypeOK, RunUpToThePanic
<1>2. SeenSoFar \in Nat /\ SeenSoFar <= handled /\ handled <= Len(stream)
  BY <1>1
<1>3. SeenEvents = [n \in 1..SeenSoFar |-> stream[n]]
  BY <1>1 DEF SeenEvents
<1>4. \A n \in 1..SeenSoFar : n \in 1..Len(stream) /\ stream[n] \in Event
  BY <1>1, <1>2
<1>5. QED
  BY <1>2, <1>3, <1>4

(* A dispatch that runs the callback is a delivery; one after a panic is   *)
(* nothing the verb can tell.                                              *)
LEMMA DispatchDelivers ==
  ASSUME CInv, CInv', NEW panics \in BOOLEAN, Dispatch(panics)
  PROVE  [Promised!Next]_(Promised!contractVars)
<1>1. /\ phase = "inside" /\ handled < Len(stream)
      /\ UNCHANGED <<phase, stream, status, outcome>> /\ handled' = handled + 1
      /\ IF panic # None
         THEN UNCHANGED <<panic, invoked>>
         ELSE panic' = IF panics THEN handled + 1 ELSE None
  BY DEF Dispatch
<1>2. WithoutMessages' = WithoutMessages
  BY <1>1 DEF WithoutMessages
<1>3. CASE panic # None
  <2>1. SeenEvents' = SeenEvents
    BY <1>1, <1>3 DEF SeenEvents
  <2>2. QED
    BY <1>1, <1>2, <1>3, <2>1 DEF Promised!contractVars
<1>4. CASE panic = None
  <2> DEFINE n == handled + 1
             event == stream[n]
  <2>1. /\ handled \in Nat /\ stream \in Seq(Event) /\ n \in 1..Len(stream)
        /\ SeenSoFar = handled /\ SeenSoFar' = n /\ event \in Event
        /\ panic' # None <=> panics
    BY <1>1, <1>4 DEF CInv, IInv, TypeOK, SeenSoFar
  <2>2. /\ SeenEvents \in Seq(Event) /\ Len(SeenEvents) = handled
        /\ DOMAIN SeenEvents = 1..handled
        /\ \A k \in 1..handled : SeenEvents[k] = stream[k]
    BY <2>1, SeenIsTheBeginning
  <2>3. SeenEvents' = [k \in 1..n |-> stream[k]]
    <3>1. invoked' = [k \in 1..n |-> k]
      BY <2>1 DEF CInv, RunUpToThePanic
    <3>2. QED
      BY <1>1, <3>1 DEF SeenEvents
  <2>4. SeenEvents' = Append(SeenEvents, event)
    <3> DEFINE longer == Append(SeenEvents, event)
    <3>1. /\ longer \in Seq(Event) /\ DOMAIN longer = 1..n
          /\ \A k \in 1..handled : longer[k] = SeenEvents[k]
          /\ longer[n] = event
      BY <2>1, <2>2
    <3>2. \A k \in 1..n : k \in 1..handled \/ k = n
      BY <2>1
    <3> HIDE DEF longer
    <3>3. \A k \in 1..n : longer[k] = stream[k]
      BY <2>2, <3>1, <3>2
    <3>4. longer = [k \in DOMAIN longer |-> longer[k]]
      BY <3>1
    <3>5. SeenEvents' = longer
      BY <2>3, <3>1, <3>3, <3>4
    <3>6. QED
      BY <3>5 DEF longer
  <2>5. ~Promised!Seen("END")
    BY <1>1, <2>1, <2>2 DEF Promised!Seen, CInv, StreamTellsTheStatus
  <2>6. event.tag = "COMPLETE" => ~Promised!Seen("COMPLETE")
    BY <1>1, <2>1, <2>2 DEF Promised!Seen, CInv, IInv, OneCompletion
  <2> HIDE DEF event, n
  <2>7. Promised!Deliver(event, panics)
    BY <1>1, <1>2, <1>4, <2>1, <2>4, <2>5, <2>6 DEF Promised!Deliver
  <2>8. QED
    BY <2>1, <2>7 DEF Promised!Next
<1>5. QED
  BY <1>3, <1>4

(* The caller goes on as the events say it does.                           *)
LEMMA ReturnAnswers ==
  ASSUME CInv, Return
  PROVE  Promised!Return
<1>1. /\ phase = "ended" /\ phase' = "returned" /\ outcome' = Conclude
      /\ UNCHANGED <<stream, panic, invoked>> /\ handled = Len(stream)
  BY DEF Return, CInv, IInv, EndIsReached
<1>2. SeenEvents' = SeenEvents
  BY <1>1 DEF SeenEvents
<1>3. WithoutMessages' =
        IF Conclude.is = "Call" THEN [is |-> "Call"] ELSE Conclude
  BY <1>1 DEF WithoutMessages
<1>4. CASE panic # None
  <2>1. Len(SeenEvents) = panic
    BY <1>4, SeenIsTheBeginning DEF SeenSoFar
  <2>2. WithoutMessages' = [is |-> "Panic", payload |-> Len(SeenEvents)]
    BY <1>3, <1>4, <2>1 DEF Conclude
  <2>3. QED
    BY <1>1, <1>2, <1>4, <2>2 DEF Promised!Return
<1>5. CASE panic = None
  <2>1. /\ DOMAIN SeenEvents = 1..Len(stream) /\ SeenEvents \in Seq(Event)
        /\ Len(SeenEvents) = Len(stream) /\ Len(stream) \in Nat
        /\ \A n \in 1..Len(stream) : SeenEvents[n] = stream[n]
    BY <1>1, <1>5, SeenIsTheBeginning DEF SeenSoFar
  <2>2. /\ stream = << >> => status = "nonzero"
        /\ stream # << >> => status # None /\ stream[Len(stream)].tag = "END"
        /\ stream # << >> => \E n \in 1..Len(stream) : stream[n].tag = "COMPLETE"
        /\ \A n \in 1..Len(stream) : stream[n].tag = "COMPLETE" => stream[n].status = status
    <3>1. stream # << >> => Len(stream) \in 1..Len(stream)
      BY DEF CInv, IInv, TypeOK
    <3>2. QED
      BY <1>1, <3>1 DEF CInv, StreamTellsTheStatus
  <2>3. stream # << >> => Promised!Seen("COMPLETE") /\ Promised!Seen("END")
    <3>1. stream # << >> => Len(stream) \in 1..Len(stream)
      BY DEF CInv, IInv, TypeOK
    <3>2. QED
      BY <2>1, <2>2, <3>1 DEF Promised!Seen
  <2>4. Promised!Succeeded <=> status = "zero"
    BY <2>1, <2>2 DEF Promised!Succeeded
  <2>5. CASE status = "zero"
    <3>1. stream # << >> /\ WithoutMessages' = [is |-> "Ok"]
      BY <1>3, <1>5, <2>2, <2>5 DEF Conclude
    <3>2. QED
      BY <1>1, <1>2, <1>5, <2>3, <2>4, <2>5, <3>1 DEF Promised!Return
  <2>6. CASE status # "zero"
    <3>1. WithoutMessages' = [is |-> "Call"]
      BY <1>3, <1>5, <2>6 DEF Conclude
    <3>2. stream = << >> => SeenEvents = << >>
      BY <2>1
    <3>3. QED
      BY <1>1, <1>2, <1>5, <2>3, <2>4, <2>6, <3>1, <3>2 DEF Promised!Return
  <2>7. QED
    BY <2>5, <2>6
<1>6. QED
  BY <1>4, <1>5

LEMMA StepRefines ==
  CInv /\ CInv' /\ [Next]_vars => [Promised!Next]_(Promised!contractVars)
<1> SUFFICES ASSUME CInv, CInv', [Next]_vars
             PROVE  [Promised!Next]_(Promised!contractVars)
  OBVIOUS
<1>1. CASE Begin
  <2>1. /\ phase \in {"idle", "returned"} /\ phase' = "inside"
        /\ invoked' = << >> /\ panic' = None /\ DOMAIN invoked' = {}
    BY <1>1 DEF Begin
  <2>2. SeenEvents' = << >> /\ WithoutMessages' = None
    BY <2>1 DEF SeenEvents, WithoutMessages
  <2>3. Promised!Begin
    BY <2>1, <2>2 DEF Promised!Begin
  <2>4. QED
    BY <2>3 DEF Promised!Next
<1>2. CASE \/ \E tag \in {"ERROR", "OTHER"}, decodes \in BOOLEAN : EmitEvent(tag, decodes)
           \/ \E decodes, text \in BOOLEAN, code \in Statuses : EmitComplete(decodes, code, text)
           \/ EmitEnd
  <2>1. PICK event \in Event : Emit(event)
    BY <1>2, EmitsTell
  <2>2. UNCHANGED <<phase, handled, panic, invoked, outcome>>
        /\ stream' = Append(stream, event) /\ stream \in Seq(Event)
    BY <2>1 DEF Emit, CInv, IInv, TypeOK
  <2>3. \A n \in 1..Len(stream) : stream'[n] = stream[n]
    BY <2>2
  <2>4. SeenEvents' = SeenEvents
    <3>1. /\ invoked = [n \in 1..SeenSoFar |-> n]
          /\ \A n \in 1..SeenSoFar : n \in 1..Len(stream)
      BY SeenIsTheBeginning DEF CInv, RunUpToThePanic
    <3>2. \A n \in DOMAIN invoked : stream'[invoked[n]] = stream[invoked[n]]
      BY <2>3, <3>1
    <3>3. QED
      BY <2>2, <3>2 DEF SeenEvents
  <2>5. WithoutMessages' = WithoutMessages
    BY <2>2 DEF WithoutMessages
  <2>6. QED
    BY <2>2, <2>4, <2>5 DEF Promised!contractVars
<1>3. CASE LoreReturns \/ LoreRefuses
  <2>1. /\ phase = "inside" /\ phase' = "ended"
        /\ UNCHANGED <<stream, panic, invoked, outcome>>
    BY <1>3 DEF LoreReturns, LoreRefuses
  <2>2. QED
    BY <2>1 DEF Promised!contractVars, SeenEvents, WithoutMessages
<1>4. CASE \E panics \in BOOLEAN : Dispatch(panics)
  BY <1>4, DispatchDelivers
<1>5. CASE Return
  BY <1>5, ReturnAnswers DEF Promised!Next
<1>6. CASE UNCHANGED vars
  BY <1>6 DEF vars, Promised!contractVars, SeenEvents, WithoutMessages
<1>7. QED
  BY <1>1, <1>2, <1>3, <1>4, <1>5, <1>6 DEF Next

LEMMA ContractFacts == Spec => []CInv
<1>1. QED
  BY ContractFactsInit, ContractFactsStep, PTL DEF Spec

(***************************************************************************)
(* A call that returns has handed every event to its callback, once and in *)
(* order, up to the first at which it panicked (dispatch).                 *)
(***************************************************************************)
THEOREM EventsAreHanded == Spec => []EveryEventIsHanded
<1>1. CInv => EveryEventIsHanded
  BY DEF CInv, IInv, RunUpToThePanic, SeenSoFar, EndIsReached, EveryEventIsHanded
<1>2. QED
  BY <1>1, ContractFacts, PTL

(***************************************************************************)
(* A call as the code makes it, for any number of events and calls and     *)
(* whatever the callback does, is one of CallContract's, from which the    *)
(* other modules take how their callbacks run and their calls return.      *)
(***************************************************************************)
THEOREM ImplementsContract == Spec => CallsAsPromised
<1>1. Init => Promised!Init
  <2>1. SUFFICES ASSUME Init PROVE Promised!Init
    OBVIOUS
  <2>2. /\ phase = "idle" /\ panic = None /\ invoked = << >> /\ DOMAIN invoked = {}
    BY <2>1 DEF Init
  <2>3. SeenEvents = << >> /\ WithoutMessages = None
    BY <2>2 DEF SeenEvents, WithoutMessages
  <2>4. QED
    BY <2>2, <2>3 DEF Promised!Init
<1>2. QED
  BY <1>1, ContractFacts, StepRefines, PTL DEF Spec, CallsAsPromised, Promised!Spec
=============================================================================
