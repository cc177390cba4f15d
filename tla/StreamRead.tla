----------------------------- MODULE StreamRead -----------------------------
(***************************************************************************)
(* Store's read_to: one content written into the caller's sink fragment by *)
(* fragment, from within the callback.  Lore's streaming read delivers the *)
(* fragments in offset order; a fragment that is not the next one is not   *)
(* written, and a sink that refuses bytes stops the writing but not the    *)
(* read, which Lore drives to its end either way.                          *)
(***************************************************************************)
EXTENDS LoreOutcome, Integers, Sequences

CONSTANTS
  Size,          \* the content's size
  Faults,        \* departures from Lore's contract a run allows
  MaxFragments   \* bound: fragments Lore sends

AllFaults ==
  { "disorder",   \* events come in any order, repeated, or not at all
    "overrun" }   \* a fragment reaches past the content's end

ASSUME StreamAssumption ==
  /\ Size \in Nat
  /\ Faults \subseteq AllFaults
  /\ MaxFragments \in Nat

(* How far an offset of a fragment may reach.                              *)
Reach == IF "overrun" \in Faults THEN Size + 1 ELSE Size

VARIABLES
  expected,     \* the size the header announced, None before it
  written,      \* bytes of the fragments the sink took whole
  outOfOrder,   \* a fragment was not the next one
  ioError,      \* the sink refused bytes
  outcome,      \* the code of the completion, None before it
  sink,         \* what is in the caller's sink: positions of the content
  sent,         \* where Lore's stream is, the furthest it has been, its fragments
  result,       \* how the call returned, None until it has
  answer        \* what read_to returned, None until it has

vars == <<expected, written, outOfOrder, ioError, outcome, sink, sent, result, answer>>

(* Written counts no byte twice, and the sink is given none twice: neither *)
(* is ever more than can be delivered.                                     *)
TypeOK ==
  /\ expected \in {None, Size}
  /\ written \in 0..Reach
  /\ outOfOrder \in BOOLEAN /\ ioError \in BOOLEAN
  /\ outcome \in RawCodes \cup {None}
  /\ sink \in Seq(Nat) /\ Len(sink) <= Reach
  /\ sent \in [to : 0..Reach, reach : 0..Reach, fragments : 0..MaxFragments]
  /\ result \in CallResults \cup {None}

Init ==
  /\ expected = None
  /\ written = 0
  /\ outOfOrder = FALSE
  /\ ioError = FALSE
  /\ outcome = None
  /\ sink = << >>
  /\ sent = [to |-> 0, reach |-> 0, fragments |-> 0]
  /\ result = None
  /\ answer = None

-----------------------------------------------------------------------------
Streaming == result = None /\ outcome = None

LoreHeader ==
  /\ Streaming
  /\ expected = None
  /\ expected' = Size
  /\ UNCHANGED <<written, outOfOrder, ioError, outcome, sink, sent, result, answer>>

(* sink.write_all: it takes the whole fragment, or fails having taken any  *)
(* part of it.                                                             *)
Write(from, to, taken) ==
  /\ sink' = sink \o [k \in 1..taken |-> from + k - 1]
  /\ IF taken = to - from
     THEN written' = written + (to - from) /\ UNCHANGED ioError
     ELSE ioError' = TRUE /\ UNCHANGED written

(* Variants: any fragment is written; writing goes on after a failure.     *)
TakeAnyOrder(from, to, taken) ==
  IF ioError THEN UNCHANGED <<written, outOfOrder, ioError, sink>>
  ELSE Write(from, to, taken) /\ outOfOrder' = (outOfOrder \/ from # written)

TakeAfterFailure(from, to, taken) ==
  IF from # written
  THEN outOfOrder' = TRUE /\ UNCHANGED <<written, ioError, sink>>
  ELSE Write(from, to, taken) /\ UNCHANGED outOfOrder

(* The callback, given the fragment of the positions from..(to - 1).       *)
Take(from, to, taken) ==
  IF ioError
  THEN UNCHANGED <<written, outOfOrder, ioError, sink>>
  ELSE IF from # written
  THEN outOfOrder' = TRUE /\ UNCHANGED <<written, ioError, sink>>
  ELSE Write(from, to, taken) /\ UNCHANGED outOfOrder

LoreData(from, to, taken) ==
  /\ Streaming
  /\ expected # None
  /\ sent.fragments < MaxFragments
  /\ from < to
  /\ from = sent.to \/ "disorder" \in Faults
  /\ sent' = [to |-> to,
               reach |-> IF to > sent.reach THEN to ELSE sent.reach,
               fragments |-> sent.fragments + 1]
  /\ Take(from, to, taken)
  /\ UNCHANGED <<expected, outcome, result, answer>>

(* Lore found the content and has sent it, or it fails, at any point.      *)
LoreComplete(code) ==
  /\ Streaming
  /\ code = NoError =>
       \/ expected # None /\ sent.to >= Size
       \/ "disorder" \in Faults
  /\ outcome' = code
  /\ UNCHANGED <<expected, written, outOfOrder, ioError, sink, sent, result, answer>>

LoreReturn(status) ==
  /\ result = None
  /\ status = "Ok" => outcome = NoError \/ (outcome = None /\ "disorder" \in Faults)
  /\ result' = status
  /\ UNCHANGED <<expected, written, outOfOrder, ioError, outcome, sink, sent, answer>>

-----------------------------------------------------------------------------
(* Variants: the sink's refusal is forgotten; a short stream is let pass.  *)
ConcludeIoForgotten ==
  IF ~IsOk(Resolve(result, outcome)) THEN Resolve(result, outcome)
  ELSE IF expected = None THEN MissingEvent("storage_get_header")
  ELSE IF outOfOrder THEN SizeMismatch(expected, written)
  ELSE Ok(written)

ConcludeShort ==
  IF ~IsOk(Resolve(result, outcome)) THEN Resolve(result, outcome)
  ELSE IF ioError THEN IoError
  ELSE IF expected = None THEN MissingEvent("storage_get_header")
  ELSE IF outOfOrder THEN SizeMismatch(expected, written)
  ELSE Ok(written)

(* read_to's checks once the call is back, in their order.                 *)
Conclude ==
  IF ~IsOk(Resolve(result, outcome)) THEN Resolve(result, outcome)
  ELSE IF ioError THEN IoError
  ELSE IF expected = None THEN MissingEvent("storage_get_header")
  ELSE IF outOfOrder \/ written # expected THEN SizeMismatch(expected, written)
  ELSE Ok(written)

Return ==
  /\ result # None
  /\ answer = None
  /\ answer' = Conclude
  /\ UNCHANGED <<expected, written, outOfOrder, ioError, outcome, sink, sent, result>>

Next ==
  \/ LoreHeader
  \/ \E from, to \in 0..Reach : \E taken \in 0..(to - from) : LoreData(from, to, taken)
  \/ \E code \in RawCodes : LoreComplete(code)
  \/ \E status \in CallResults : LoreReturn(status)
  \/ Return

Spec == Init /\ [][Next]_vars

-----------------------------------------------------------------------------
(***************************************************************************)
(* Whatever Lore sends and whatever the sink refuses, and at every moment, *)
(* the sink holds a beginning of what Lore sends, which is the content     *)
(* until a fragment overruns it: no byte missing before one that is there, *)
(* none twice, none after a fragment it refused, and none past the         *)
(* content's end that no fragment had there.  The callback does not        *)
(* compare a fragment with the announced size, so the bytes of one that    *)
(* overruns do reach the sink; the length check of the end is what fails   *)
(* such a read (OkWroteItAll).                                             *)
(***************************************************************************)
SinkHoldsABeginning ==
  /\ \A k \in DOMAIN sink : sink[k] = k - 1
  /\ Len(sink) <= sent.reach
  /\ sent.reach <= Size => Len(sink) <= Size

(***************************************************************************)
(* A read that succeeds has written the whole content, and the length it   *)
(* answers is the sink's.                                                  *)
(***************************************************************************)
OkWroteItAll ==
  answer # None /\ IsOk(answer) => Len(sink) = Size /\ answer.value = Size

(***************************************************************************)
(* Bytes the sink refused are never lost silently: read_to fails with the  *)
(* sink's error, or with Lore's own when the call failed as well, and      *)
(* never with a complaint about the stream the refusal cut short.          *)
(***************************************************************************)
RefusedBytesFailTheRead ==
  answer # None /\ ioError =>
    answer = IF IsOk(Resolve(result, outcome)) THEN IoError ELSE Resolve(result, outcome)
=============================================================================
