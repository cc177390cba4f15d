------------------------------ MODULE LoreCall ------------------------------
(***************************************************************************)
(* call.rs's call_with_callback, which every verb of the crate goes        *)
(* through.  The caller blocks in the FFI call while Lore, on a worker     *)
(* thread of its own, delivers the call's events one at a time: any        *)
(* number of events, a completion, then End.  `dispatch` decodes each      *)
(* event, lets FailureContext look at it and hands it to the verb's        *)
(* callback, which may panic.  When Lore has returned, the caller takes    *)
(* the panic, the status and the messages out of the context on its stack. *)
(*                                                                         *)
(* An event's text is its position in the stream.  Text that is not UTF-8  *)
(* does not decode, and the callback gets the error in place of the event. *)
(***************************************************************************)
EXTENDS Integers, Sequences, SequencesExt

CONSTANTS
  None,
  MaxEvents,  \* bound: events Lore emits before the completion
  MaxCalls    \* bound: calls the caller makes, each with a new context

Statuses == {"zero", "nonzero"}

ASSUME CallAssumption ==
  /\ MaxEvents \in Nat /\ MaxCalls \in Nat
  /\ None \notin Nat /\ None \notin Statuses

(* `status` and `text` matter on a completion only: whether it says the    *)
(* call failed, and whether it says why.                                   *)
Event == [tag : {"ERROR", "COMPLETE", "OTHER", "END"}, decodes : BOOLEAN,
          status : Statuses, text : BOOLEAN]

Plain(tag, decodes) == [tag |-> tag, decodes |-> decodes, status |-> "zero", text |-> FALSE]

VARIABLES
  phase,     \* "idle", "inside" Lore, "ended" (End delivered), "returned"
  stream,    \* the events Lore has emitted in this call
  status,    \* the status this call returns, from its completion on
  handled,   \* how many events dispatch is through with
  errors,    \* FailureContext::errors
  complete,  \* FailureContext::complete
  panic,     \* Context::panic: the event whose callback panicked first
  invoked,   \* the events the callback was run for
  outcome,   \* what call_with_callback did: Ok, Err(Call), or panic
  calls      \* how many calls the caller has begun

vars == <<phase, stream, status, handled, errors, complete, panic, invoked, outcome, calls>>

Outcomes ==
  [is : {"Ok"}] \cup [is : {"Call"}, messages : Seq(Nat)] \cup [is : {"Panic"}, payload : Nat]

-----------------------------------------------------------------------------
TypeOK ==
  /\ phase \in {"idle", "inside", "ended", "returned"}
  /\ stream \in Seq(Event)
  /\ status \in Statuses \cup {None}
  /\ handled \in 0..Len(stream)
  /\ errors \in Seq(1..Len(stream))
  /\ complete \in 1..Len(stream) \cup {None}
  /\ panic \in 1..Len(stream) \cup {None}
  /\ invoked \in Seq(1..Len(stream))
  /\ outcome \in Outcomes \cup {None}
  /\ calls \in 0..MaxCalls

Init ==
  /\ phase = "idle"
  /\ stream = << >>
  /\ status = None
  /\ handled = 0
  /\ errors = << >>
  /\ complete = None
  /\ panic = None
  /\ invoked = << >>
  /\ outcome = None
  /\ calls = 0

(* Variant: the context of the call before is used again.                  *)
BeginAgain ==
  /\ phase \in {"idle", "returned"}
  /\ calls < MaxCalls
  /\ calls' = calls + 1
  /\ phase' = "inside"
  /\ stream' = << >> /\ status' = None /\ handled' = 0
  /\ invoked' = << >> /\ outcome' = None
  /\ UNCHANGED <<errors, complete, panic>>

(* The caller makes a call, with a context of its own.                     *)
Begin ==
  /\ phase \in {"idle", "returned"}
  /\ calls < MaxCalls
  /\ calls' = calls + 1
  /\ phase' = "inside"
  /\ stream' = << >> /\ status' = None /\ handled' = 0
  /\ errors' = << >> /\ complete' = None /\ panic' = None
  /\ invoked' = << >> /\ outcome' = None

-----------------------------------------------------------------------------
(* Lore.  It emits the next event when dispatch is through with the last.  *)
Emit(event) ==
  /\ phase = "inside"
  /\ handled = Len(stream)
  /\ stream' = Append(stream, event)
  /\ UNCHANGED <<phase, handled, errors, complete, panic, invoked, outcome, calls>>

EmitEvent(tag, decodes) ==
  /\ status = None
  /\ Len(stream) < MaxEvents
  /\ Emit(Plain(tag, decodes))
  /\ UNCHANGED status

EmitComplete(decodes, code, text) ==
  /\ status = None
  /\ Emit([tag |-> "COMPLETE", decodes |-> decodes, status |-> code, text |-> text])
  /\ status' = code

EmitEnd ==
  /\ phase = "inside"
  /\ status # None
  /\ Last(stream).tag # "END"
  /\ Emit(Plain("END", TRUE))
  /\ UNCHANGED status

(* A synchronous entry point returns once End has been delivered...        *)
LoreReturns ==
  /\ phase = "inside"
  /\ stream # << >> /\ Last(stream).tag = "END"
  /\ handled = Len(stream)
  /\ phase' = "ended"
  /\ UNCHANGED <<stream, status, handled, errors, complete, panic, invoked, outcome, calls>>

(* ... or fails before any event (bad arguments, a dead connection).       *)
LoreRefuses ==
  /\ phase = "inside"
  /\ stream = << >>
  /\ phase' = "ended"
  /\ status' = "nonzero"
  /\ UNCHANGED <<stream, handled, errors, complete, panic, invoked, outcome, calls>>

-----------------------------------------------------------------------------
Terminal(event) == event.tag \in {"ERROR", "COMPLETE"}

(* Variant: every event that does not decode is taken for the failure.     *)
RecordUndecoded(n) ==
  LET event == stream[n]
  IN  /\ errors' = IF event.tag = "ERROR" \/ ~event.decodes
                   THEN Append(errors, n) ELSE errors
      /\ complete' = IF /\ event.tag = "COMPLETE" /\ event.decodes
                        /\ event.status = "nonzero" /\ event.text
                     THEN n ELSE complete

(* FailureContext::record, for the event at position n: an error event, or *)
(* a terminal one that did not decode, and the reason a completion gives.  *)
Record(n) ==
  LET event == stream[n]
  IN  /\ errors' = IF event.tag = "ERROR" \/ (Terminal(event) /\ ~event.decodes)
                   THEN Append(errors, n) ELSE errors
      /\ complete' = IF /\ event.tag = "COMPLETE" /\ event.decodes
                        /\ event.status = "nonzero" /\ event.text
                     THEN n ELSE complete

(* Variants: an event that does not decode is kept from the callback; its  *)
(* panic unwinds Lore's thread.                                            *)
DispatchDecoded(panics) ==
  LET n == handled + 1
  IN  /\ phase = "inside"
      /\ handled < Len(stream)
      /\ Record(n)
      /\ IF panic # None \/ ~stream[n].decodes
         THEN ~panics /\ UNCHANGED <<panic, invoked>>
         ELSE /\ invoked' = Append(invoked, n)
              /\ panic' = IF panics THEN n ELSE None
      /\ handled' = n
      /\ UNCHANGED <<phase, stream, status, outcome, calls>>

DispatchUnwinds(panics) ==
  LET n == handled + 1
  IN  /\ phase = "inside"
      /\ handled < Len(stream)
      /\ panic = None
      /\ Record(n)
      /\ invoked' = Append(invoked, n)
      /\ panic' = IF panics THEN n ELSE None
      /\ handled' = n
      /\ UNCHANGED <<phase, stream, status, outcome, calls>>

(* dispatch, on Lore's thread: record, then the callback unless it has     *)
(* panicked before; `panics` is what this invocation does.                 *)
Dispatch(panics) ==
  LET n == handled + 1
  IN  /\ phase = "inside"
      /\ handled < Len(stream)
      /\ Record(n)
      /\ IF panic # None
         THEN ~panics /\ UNCHANGED <<panic, invoked>>
         ELSE /\ invoked' = Append(invoked, n)
              /\ panic' = IF panics THEN n ELSE None
      /\ handled' = n
      /\ UNCHANGED <<phase, stream, status, outcome, calls>>

-----------------------------------------------------------------------------
(* FailureContext::into_messages.                                          *)
IntoMessages ==
  IF errors # << >> THEN errors ELSE IF complete = None THEN << >> ELSE <<complete>>

(* Variant: a status of zero is an Ok, whatever the callback did.          *)
ConcludeStatusFirst ==
  IF status = "zero" THEN [is |-> "Ok"]
  ELSE IF panic # None THEN [is |-> "Panic", payload |-> panic]
  ELSE [is |-> "Call", messages |-> IntoMessages]

(* Back on the caller's thread: the panic resumes, or the status decides.  *)
Conclude ==
  IF panic # None THEN [is |-> "Panic", payload |-> panic]
  ELSE IF status = "zero" THEN [is |-> "Ok"]
  ELSE [is |-> "Call", messages |-> IntoMessages]

Return ==
  /\ phase = "ended"
  /\ outcome' = Conclude
  /\ phase' = "returned"
  /\ UNCHANGED <<stream, status, handled, errors, complete, panic, invoked, calls>>

Next ==
  \/ Begin
  \/ \E tag \in {"ERROR", "OTHER"}, decodes \in BOOLEAN : EmitEvent(tag, decodes)
  \/ \E decodes, text \in BOOLEAN, code \in Statuses : EmitComplete(decodes, code, text)
  \/ EmitEnd
  \/ LoreReturns
  \/ LoreRefuses
  \/ \E panics \in BOOLEAN : Dispatch(panics)
  \/ Return

Spec == Init /\ [][Next]_vars

(***************************************************************************)
(* Lore's contract is that every call ends in a completion and End, and    *)
(* that the entry point then returns; its thread and the caller's run on.  *)
(* Nothing is asked of the callback but that it returns or panics.         *)
(***************************************************************************)
Fairness ==
  /\ WF_vars(\E decodes, text \in BOOLEAN, code \in Statuses : EmitComplete(decodes, code, text))
  /\ WF_vars(EmitEnd)
  /\ WF_vars(LoreReturns)
  /\ WF_vars(\E panics \in BOOLEAN : Dispatch(panics))
  /\ WF_vars(Return)

FairSpec == Spec /\ Fairness

-----------------------------------------------------------------------------
(* The positions of the events that tell why a call failed.                *)
ErrorEvents ==
  {n \in DOMAIN stream :
     stream[n].tag = "ERROR" \/ (stream[n].tag = "COMPLETE" /\ ~stream[n].decodes)}
Reasons ==
  {n \in DOMAIN stream :
     LET event == stream[n]
     IN  event.tag = "COMPLETE" /\ event.decodes /\ event.status = "nonzero" /\ event.text}

InOrder(sequence, positions) ==
  /\ ToSet(sequence) = positions
  /\ \A i, j \in DOMAIN sequence : i < j => sequence[i] < sequence[j]

(***************************************************************************)
(* LoreError::Call's docs: its messages are every error event's, or the    *)
(* failed completion's when there were none, and empty when the call       *)
(* failed before any event; never those of an earlier call, nor those of   *)
(* an event that merely failed to decode in the middle of the stream.      *)
(***************************************************************************)
FailureNamesItsCause ==
  outcome # None /\ outcome.is = "Call" =>
    InOrder(outcome.messages, IF ErrorEvents # {} THEN ErrorEvents ELSE Reasons)

(***************************************************************************)
(* A panic of the callback always reaches the caller, with the payload of  *)
(* the invocation that raised it, and whatever status Lore returned: a     *)
(* call whose callback stopped half way never passes for an Ok.            *)
(***************************************************************************)
PanicReachesTheCaller ==
  phase = "returned" =>
    IF panic # None THEN outcome = [is |-> "Panic", payload |-> panic] ELSE outcome.is # "Panic"

(***************************************************************************)
(* A verb that returns Ok or Err has seen every event of its call exactly  *)
(* once and in Lore's order, those that do not decode included: the folds  *)
(* that look for a completion afterwards rest on it.  One whose callback   *)
(* panicked has seen those up to the first panic, and none that came while *)
(* its closure was half updated.                                           *)
(***************************************************************************)
EveryEventIsHanded ==
  phase = "returned" =>
    invoked = [n \in 1..(IF panic = None THEN Len(stream) ELSE panic) |-> n]

(***************************************************************************)
(* A call that is made returns to its caller, also when its callback       *)
(* panics in the middle of the stream.                                     *)
(***************************************************************************)
EveryCallReturns == phase = "inside" ~> phase = "returned"
-----------------------------------------------------------------------------
(* What a verb can tell of a call: the events its callback was run for,    *)
(* and what it got, whose messages CallContract leaves out.                *)
SeenEvents == [n \in DOMAIN invoked |-> stream[invoked[n]]]
WithoutMessages ==
  IF phase # "returned" THEN None
  ELSE IF outcome.is = "Call" THEN [is |-> "Call"] ELSE outcome

Promised == INSTANCE CallContract WITH
  Events   <- Event,
  running  <- phase \in {"inside", "ended"},
  seen     <- SeenEvents,
  panicked <- panic # None,
  outcome  <- WithoutMessages

(***************************************************************************)
(* The context, the flag of a panic and the threads do what CallContract   *)
(* promises of a call: the callback is run for one event at a time, up to  *)
(* its first panic; the caller goes on when it has seen the last, or has   *)
(* panicked; and an Ok is of a completion that the callback has seen to    *)
(* succeed.                                                                *)
(***************************************************************************)
CallsAsPromised == Promised!Spec
=============================================================================
