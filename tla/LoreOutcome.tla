---------------------------- MODULE LoreOutcome ----------------------------
(***************************************************************************)
(* The values a verb of lore-rs is decided from and answers with: the raw  *)
(* code a terminal event carries, the result of the FFI call as a whole,   *)
(* and the Result the caller gets.  A call fails with messages; they are   *)
(* left out here, as nothing in this crate decides by them (LoreCall       *)
(* models where they come from).                                           *)
(***************************************************************************)
EXTENDS Naturals

CONSTANTS
  None,   \* Rust's None: no header, no completion, no range end
  Codes   \* the codes of a failed item, ErrorCode's variants

(* LORE_ERROR_CODE_NONE, the code of an item that did not fail.            *)
NoError == "NONE"
RawCodes == Codes \cup {NoError}

(* Result<(), LoreError> of call_with_callback: Err is always Call.        *)
CallResults == {"Ok", "Call"}

ASSUME OutcomeAssumption ==
  /\ None \notin Nat /\ None \notin RawCodes /\ None \notin CallResults
  /\ NoError \notin Codes

Ok(value) == [is |-> "Ok", value |-> value]
Failed(code) == [is |-> "Failed", code |-> code]
CallError == [is |-> "Call"]
MissingEvent(expected) == [is |-> "MissingEvent", expected |-> expected]
SizeMismatch(expected, covered) ==
  [is |-> "SizeMismatch", expected |-> expected, covered |-> covered]
IoError == [is |-> "Io"]

IsOk(outcome) == outcome.is = "Ok"

(* Lore said nothing was wrong, but what it delivered cannot be used.      *)
LocalError(outcome) == outcome.is \in {"MissingEvent", "SizeMismatch"}

(* ErrorCode::from_raw: LORE_ERROR_CODE_NONE is success, hence None.       *)
FromRaw(code) == IF code = NoError THEN None ELSE code

(***************************************************************************)
(* LoreError::resolve: a failing code of the terminal event wins over how  *)
(* the call returned; without one (no event, or a success) the call's own  *)
(* result stands.  Ok stands for the Ok(()) the caller goes on after.      *)
(***************************************************************************)
Resolve(result, outcome) ==
  LET code == IF outcome = None THEN None ELSE FromRaw(outcome)
  IN  CASE code # None   -> Failed(code)
        [] code = None /\ result = "Call" -> CallError
        [] OTHER         -> Ok(None)

(***************************************************************************)
(* What a batch in which an item was never reported answers: the call's    *)
(* own failure when there is one, the event that is missing otherwise.     *)
(***************************************************************************)
Unreported(result, expected) ==
  IF result = "Call" THEN CallError ELSE MissingEvent(expected)
=============================================================================
