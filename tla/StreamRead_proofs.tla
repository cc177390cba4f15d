-------------------------- MODULE StreamRead_proofs --------------------------
(***************************************************************************)
(* Proofs about StreamRead, for a content of any size, any bound on the    *)
(* fragments and any of the faults.  The argument is that `written` is how *)
(* many bytes the sink has as long as it has refused none: a fragment is   *)
(* written only if it begins there, so what is appended continues what     *)
(* the sink holds.                                                         *)
(***************************************************************************)
EXTENDS StreamRead, TLAPS

USE OutcomeAssumption, StreamAssumption

(* What the callback wrote is what the sink has, until the sink refuses;   *)
(* from there on the sink does not change.                                 *)
SinkIsWritten == ~ioError => Len(sink) = written

(* The answer is what the checks made of the call's end.                   *)
AnswerIsConcluded == answer # None => result # None /\ answer = Conclude

IInv == TypeOK /\ SinkHoldsABeginning /\ SinkIsWritten /\ AnswerIsConcluded

LEMMA InitEstablishes == Init => IInv
<1> SUFFICES ASSUME Init PROVE IInv
  OBVIOUS
<1>1. TypeOK
  <2>1. sent \in [to : 0..Reach, reach : 0..Reach, fragments : 0..MaxFragments]
    BY DEF Init, Reach
  <2>2. written \in 0..Reach /\ sink \in Seq(Nat) /\ Len(sink) <= Reach
    BY DEF Init, Reach
  <2>3. QED
    BY <2>1, <2>2 DEF Init, TypeOK
<1>2. sink = << >> /\ Len(sink) = 0 /\ sent.reach = 0
  BY DEF Init
<1>3. QED
  BY <1>1, <1>2 DEF Init, IInv, SinkHoldsABeginning, SinkIsWritten, AnswerIsConcluded

(* A fragment that is not the next one, or comes after a refusal, leaves   *)
(* the sink as it is.                                                      *)
LEMMA TakenOrLeft ==
  ASSUME IInv, NEW from \in 0..Reach, NEW to \in 0..Reach, NEW taken \in 0..(to - from),
         from < to, Take(from, to, taken)
  PROVE  \/ UNCHANGED <<written, ioError, sink>> /\ outOfOrder' \in BOOLEAN
         \/ /\ ~ioError /\ from = written
            /\ Write(from, to, taken) /\ UNCHANGED outOfOrder
  BY DEF Take, IInv, TypeOK

(* The bytes a sink takes of the next fragment continue what it holds.     *)
LEMMA WriteContinues ==
  ASSUME IInv, NEW from \in 0..Reach, NEW to \in 0..Reach, NEW taken \in 0..(to - from),
         from < to, ~ioError, from = written, Write(from, to, taken)
  PROVE  /\ sink' \in Seq(Nat) /\ Len(sink') <= to
         /\ \A k \in DOMAIN sink' : sink'[k] = k - 1
         /\ SinkIsWritten'
         /\ written' \in 0..Reach /\ ioError' \in BOOLEAN
<1> DEFINE part == [k \in 1..taken |-> from + k - 1]
<1>1. /\ Reach \in Nat /\ from \in Nat /\ to \in Nat /\ taken \in Nat
      /\ taken <= to - from
  BY DEF Reach
<1>2. part \in Seq(Nat) /\ Len(part) = taken
  BY <1>1
<1>3. sink \in Seq(Nat) /\ Len(sink) = from
  BY DEF IInv, TypeOK, SinkIsWritten
<1>4. sink' = sink \o part
  BY DEF Write
<1>5. sink' \in Seq(Nat) /\ Len(sink') = from + taken
  BY <1>2, <1>3, <1>4
<1>6. Len(sink') <= to
  BY <1>1, <1>5
<1>7. \A k \in DOMAIN sink' : sink'[k] = k - 1
  <2> SUFFICES ASSUME NEW k \in 1..(from + taken)
               PROVE  sink'[k] = k - 1
    <3>1. DOMAIN sink' = 1..(from + taken)
      BY <1>5
    <3>2. QED
      BY <3>1
  <2>1. CASE k <= from
    <3>1. k \in DOMAIN sink /\ sink'[k] = sink[k]
      BY <2>1, <1>1, <1>2, <1>3, <1>4
    <3>2. QED
      BY <3>1 DEF IInv, SinkHoldsABeginning
  <2>2. CASE k > from
    <3>1. sink'[k] = part[k - from] /\ k - from \in 1..taken
      BY <2>2, <1>1, <1>2, <1>3, <1>4
    <3>2. QED
      BY <3>1, <1>1
  <2>3. QED
    BY <2>1, <2>2, <1>1
<1>8. CASE taken = to - from
  <2>1. written' = written + (to - from) /\ ioError' = ioError
    BY <1>8 DEF Write
  <2>2. written' = to
    BY <2>1, <1>1
  <2>3. QED
    BY <2>1, <2>2, <1>1, <1>5, <1>7, <1>8, <1>6 DEF SinkIsWritten, IInv, TypeOK
<1>9. CASE taken # to - from
  <2>1. written' = written /\ ioError' = TRUE
    BY <1>9 DEF Write
  <2>2. QED
    BY <2>1, <1>5, <1>7, <1>6 DEF SinkIsWritten, IInv, TypeOK
<1>10. QED
  BY <1>8, <1>9

LEMMA DataPreserves ==
  ASSUME IInv, NEW from \in 0..Reach, NEW to \in 0..Reach, NEW taken \in 0..(to - from),
         LoreData(from, to, taken)
  PROVE  IInv'
<1>1. from < to /\ Take(from, to, taken)
  BY DEF LoreData
<1>2. /\ Reach \in Nat /\ to \in Nat /\ sent.reach \in Nat /\ sent'.reach \in 0..Reach
      /\ to <= sent'.reach /\ sent.reach <= sent'.reach
  BY DEF LoreData, IInv, TypeOK, Reach
<1>3. /\ sink' \in Seq(Nat) /\ Len(sink') <= sent'.reach
      /\ \A k \in DOMAIN sink' : sink'[k] = k - 1
      /\ SinkIsWritten'
      /\ written' \in 0..Reach /\ ioError' \in BOOLEAN /\ outOfOrder' \in BOOLEAN
  <2>1. CASE UNCHANGED <<written, ioError, sink>> /\ outOfOrder' \in BOOLEAN
    BY <2>1, <1>2 DEF IInv, TypeOK, SinkHoldsABeginning, SinkIsWritten
  <2>2. CASE ~ioError /\ from = written /\ Write(from, to, taken) /\ UNCHANGED outOfOrder
    <3>1. /\ sink' \in Seq(Nat) /\ Len(sink') <= to
          /\ \A k \in DOMAIN sink' : sink'[k] = k - 1
          /\ SinkIsWritten' /\ written' \in 0..Reach /\ ioError' \in BOOLEAN
      BY <2>2, <1>1, WriteContinues
    <3>2. Len(sink') \in Nat /\ Len(sink') <= sent'.reach
      BY <3>1, <1>2
    <3>3. QED
      BY <2>2, <3>1, <3>2 DEF IInv, TypeOK
  <2>3. QED
    BY <2>1, <2>2, <1>1, TakenOrLeft
<1>4. sent' \in [to : 0..Reach, reach : 0..Reach, fragments : 0..MaxFragments]
  BY DEF LoreData, IInv, TypeOK, Reach
<1>5. TypeOK'
  <2>1. Len(sink') <= Reach
    BY <1>3, <1>2
  <2>2. QED
    BY <1>3, <1>4, <2>1 DEF LoreData, IInv, TypeOK
<1>6. SinkHoldsABeginning'
  <2>1. Len(sink') \in Nat /\ sent'.reach \in Nat /\ Size \in Nat
    BY <1>3, <1>2
  <2>2. QED
    BY <2>1, <1>3 DEF SinkHoldsABeginning
<1>7. AnswerIsConcluded'
  BY DEF LoreData, Streaming, IInv, AnswerIsConcluded
<1>8. QED
  BY <1>3, <1>5, <1>7, <1>6 DEF IInv

LEMMA StepPreserves == IInv /\ [Next]_vars => IInv'
<1> SUFFICES ASSUME IInv, [Next]_vars PROVE IInv'
  OBVIOUS
<1>1. CASE LoreHeader
  BY <1>1 DEF LoreHeader, Streaming, IInv, TypeOK, SinkHoldsABeginning, SinkIsWritten, AnswerIsConcluded
<1>2. ASSUME NEW from \in 0..Reach, NEW to \in 0..Reach, NEW taken \in 0..(to - from),
             LoreData(from, to, taken)
      PROVE  IInv'
  BY <1>2, DataPreserves
<1>3. ASSUME NEW code \in RawCodes, LoreComplete(code)
      PROVE  IInv'
  BY <1>3 DEF LoreComplete, Streaming, IInv, TypeOK, SinkHoldsABeginning, SinkIsWritten, AnswerIsConcluded
<1>4. ASSUME NEW status \in CallResults, LoreReturn(status)
      PROVE  IInv'
  BY <1>4 DEF LoreReturn, IInv, TypeOK, SinkHoldsABeginning, SinkIsWritten, AnswerIsConcluded
<1>5. CASE Return
  BY <1>5 DEF Return, Conclude, IInv, TypeOK, SinkHoldsABeginning, SinkIsWritten, AnswerIsConcluded
<1>6. CASE UNCHANGED vars
  BY <1>6 DEF vars, Conclude, IInv, TypeOK, SinkHoldsABeginning, SinkIsWritten, AnswerIsConcluded
<1>7. QED
  BY <1>1, <1>2, <1>3, <1>4, <1>5, <1>6 DEF Next

(***************************************************************************)
(* The inductive invariant of a streamed read holds in every reachable     *)
(* state (read_to's callback and its checks).                              *)
(***************************************************************************)
THEOREM Invariance == Spec => []IInv
<1>1. IInv /\ [Next]_vars => IInv'
  BY StepPreserves
<1>2. QED
  BY InitEstablishes, <1>1, PTL DEF Spec

(* The type invariant: what read_to counts as written and what the sink    *)
(* holds stay within what Lore can deliver.                                *)
THEOREM TypeCorrect == Spec => []TypeOK
<1>1. IInv => TypeOK
  BY DEF IInv
<1>2. QED
  BY Invariance, <1>1, PTL

(***************************************************************************)
(* The sink holds a beginning of what Lore sends at every moment, no       *)
(* longer than the content unless a fragment overran it, however Lore      *)
(* orders, repeats or drops fragments and wherever the sink stops          *)
(* (read_to's data arm).                                                   *)
(***************************************************************************)
THEOREM SinkIsABeginning == Spec => []SinkHoldsABeginning
<1>1. IInv => SinkHoldsABeginning
  BY DEF IInv
<1>2. QED
  BY Invariance, <1>1, PTL

(***************************************************************************)
(* A read that answers Ok has written every byte of the content, once, and *)
(* answers their number (read_to's checks).                                *)
(***************************************************************************)
THEOREM SuccessWroteItAll == Spec => []OkWroteItAll
<1>1. IInv => OkWroteItAll
  <2> SUFFICES ASSUME IInv, answer # None, IsOk(answer)
               PROVE  Len(sink) = Size /\ answer.value = Size
    BY DEF OkWroteItAll
  <2>1. answer = Conclude /\ Conclude.is = "Ok"
    BY DEF IInv, AnswerIsConcluded, IsOk
  <2>2. ~ioError /\ expected # None /\ written = expected /\ Conclude = Ok(written)
    BY <2>1 DEF Conclude, IsOk, Ok, IoError, MissingEvent, SizeMismatch
  <2>3. expected = Size /\ Len(sink) = written
    BY <2>2 DEF IInv, TypeOK, SinkIsWritten
  <2>4. QED
    BY <2>1, <2>2, <2>3 DEF Ok
<1>2. QED
  BY Invariance, <1>1, PTL

(***************************************************************************)
(* A read whose sink refused bytes answers the sink's error, or Lore's own *)
(* when the call failed too (read_to's checks, in their order).            *)
(***************************************************************************)
THEOREM RefusalIsReported == Spec => []RefusedBytesFailTheRead
<1>1. IInv => RefusedBytesFailTheRead
  <2> SUFFICES ASSUME IInv, answer # None, ioError
               PROVE  answer = IF IsOk(Resolve(result, outcome))
                               THEN IoError ELSE Resolve(result, outcome)
    BY DEF RefusedBytesFailTheRead
  <2>1. answer = Conclude
    BY DEF IInv, AnswerIsConcluded
  <2>2. QED
    BY <2>1 DEF Conclude
<1>2. QED
  BY Invariance, <1>1, PTL
=============================================================================
