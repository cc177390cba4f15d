---------------------------- MODULE CallContract ----------------------------
(***************************************************************************)
(* What call_with_callback promises a verb, with no context, thread or     *)
(* FailureContext in it: the callback is run for one event after the       *)
(* other, the caller goes on when the last has been, and what it goes on   *)
(* with follows from the events.  The other modules run their callbacks    *)
(* and return in this way; LoreCall, the detailed model, is checked to     *)
(* implement it.                                                           *)
(***************************************************************************)
EXTENDS Integers, Sequences

CONSTANTS None, Events

VARIABLES
  running,    \* the caller is blocked in the call
  seen,       \* the events the callback has been run for
  panicked,   \* it has panicked, at the last of them
  outcome     \* what the caller got, None until it has it

contractVars == <<running, seen, panicked, outcome>>

Seen(tag) == \E n \in DOMAIN seen : seen[n].tag = tag

(* The callback has seen the call complete with a status of zero.          *)
Succeeded == \E n \in DOMAIN seen : seen[n].tag = "COMPLETE" /\ seen[n].status = "zero"

-----------------------------------------------------------------------------
Init ==
  /\ ~running
  /\ seen = << >>
  /\ panicked = FALSE
  /\ outcome = None

Begin ==
  /\ ~running
  /\ running' = TRUE
  /\ seen' = << >>
  /\ panicked' = FALSE
  /\ outcome' = None

(* A call completes once and ends once, and nothing comes after its end.   *)
Deliver(event, panics) ==
  /\ running
  /\ ~panicked
  /\ ~Seen("END")
  /\ event.tag = "COMPLETE" => ~Seen("COMPLETE")
  /\ seen' = Append(seen, event)
  /\ panicked' = panics
  /\ UNCHANGED <<running, outcome>>

(* A panic resumes.  An Ok has shown the callback everything, a completion *)
(* with a status of zero among it; an error everything, or nothing at all. *)
Return ==
  /\ running
  /\ running' = FALSE
  /\ \/ panicked /\ outcome' = [is |-> "Panic", payload |-> Len(seen)]
     \/ ~panicked /\ Succeeded /\ Seen("END") /\ outcome' = [is |-> "Ok"]
     \/ /\ ~panicked /\ ~Succeeded
        /\ seen = << >> \/ (Seen("COMPLETE") /\ Seen("END"))
        /\ outcome' = [is |-> "Call"]
  /\ UNCHANGED <<seen, panicked>>

Next ==
  \/ Begin
  \/ \E event \in Events, panics \in BOOLEAN : Deliver(event, panics)
  \/ Return

Spec == Init /\ [][Next]_contractVars
=============================================================================
