--------------------------- MODULE RepositoryVerbs ---------------------------
(***************************************************************************)
(* The verbs that run against a repository instance (repository.rs) or ask *)
(* a server (repository_info, repository_clone, auth_login_with_token):    *)
(* each folds the events of one call into a value.  Of some kinds of event *)
(* the last one counts, of others every one is listed; a verb that cannot  *)
(* do without a kind fails when the call ends without it.  A commit pairs  *)
(* each tally of files with the revision it was counted for.               *)
(*                                                                         *)
(* An event is its position in the stream, so that a property can tell any *)
(* two apart; what it carries is reduced to whether its text decodes and   *)
(* whether the identifier the verb checks is all zeroes.                   *)
(***************************************************************************)
EXTENDS LoreOutcome, FiniteSets, Sequences, SequencesExt

CONSTANTS
  Verbs,      \* the verbs a run goes through
  MaxEvents   \* bound: events Lore emits in a call

(***************************************************************************)
(* A verb, by kinds of event: the ones it lists, the ones it keeps the     *)
(* last of, the one it cannot answer without, the ones whose text may not  *)
(* be UTF-8 (the others always decode), and the one whose identifier it    *)
(* looks at.                                                               *)
(***************************************************************************)
Verb(list, last, needs, text, checked) ==
  [listed |-> list, latest |-> last, required |-> needs, textual |-> text, checked |-> checked]

Status    == Verb({"file"}, {"header", "count", "summary"}, {"header"}, {"header", "file"}, {})
Stage     == Verb({"file", "revision"}, {"end"}, {"end"}, {"file"}, {})
Unstage   == Verb({"file", "revision"}, {"end"}, {}, {"file"}, {})
Commit    == Verb({"revision"}, {"tally"}, {}, {}, {"revision"})
Push      == Verb({"push", "upload"}, {}, {"push"}, {"push"}, {})
Switch    == Verb({}, {"end"}, {"end"}, {"end"}, {})
Sync      == Verb({}, {"header", "revision"}, {"header"}, {"header"}, {})
Clone     == Verb({"progress"}, {"end"}, {"end"}, {"end"}, {})
Info      == Verb({}, {"header"}, {"header"}, {"header"}, {"header"})
Branch    == Verb({}, {"header"}, {"header"}, {"header"}, {"header"})
Revision  == Verb({}, {"header"}, {"header"}, {}, {"header"})
Instances == Verb({"instance"}, {}, {}, {"instance"}, {})
Login     == Verb({}, {"header"}, {"header"}, {"header"}, {"header"})

Folds ==
  [status |-> Status, stage |-> Stage, unstage |-> Unstage, commit |-> Commit, push |-> Push,
   switch |-> Switch, sync |-> Sync, clone |-> Clone, info |-> Info, branch |-> Branch,
   revision |-> Revision, instances |-> Instances, login |-> Login]

(* What a verb can make of the events of a call.                           *)
Reports(fold) ==
  [latest : [fold.latest -> Nat \cup {None}],
   listed : [fold.listed -> Seq([event : Nat, count : Nat \cup {None}])]]

ASSUME VerbsAssumption ==
  /\ Verbs \subseteq DOMAIN Folds
  /\ MaxEvents \in Nat
  /\ \A v \in Verbs : None \notin Reports(Folds[v])   \* Some(report) is not None

VARIABLES
  verb,
  stream,   \* what Lore emitted: [kind, decodes, zero, of], of being the
            \* group of a commit an event is about, 0 for a linked repository's
  latest,   \* per kind: the position of the last event, None before one
  listed,   \* per kind: the entries pushed so far, [event, count]
  answer    \* what the caller got, None until it has it

vars == <<verb, stream, latest, listed, answer>>

Fold == Folds[verb]

Init ==
  /\ verb \in Verbs
  /\ stream = << >>
  /\ latest = [k \in Fold.latest |-> None]
  /\ listed = [k \in Fold.listed |-> << >>]
  /\ answer = None

-----------------------------------------------------------------------------
(* Lore's order of a commit: per repository or layer the revisions of the  *)
(* linked repositories inside it, then its tally, then its own revision.   *)
Groups == Cardinality({i \in DOMAIN stream : stream[i].kind = "tally"})
Counted == stream # << >> /\ Last(stream).kind = "tally"

CommitOrder(kind, of) ==
  IF Counted THEN kind = "revision" /\ of = Groups
             ELSE of = IF kind = "tally" THEN Groups + 1 ELSE 0

(* Variant: the tally stays where it is for the next revision.             *)
KeepTallyCopied(kind) ==
  LET here  == Len(stream) + 1
      entry == [event |-> here, count |-> IF verb = "commit" THEN latest["tally"] ELSE None]
  IN  IF kind \in Fold.listed
      THEN /\ listed' = [listed EXCEPT ![kind] = Append(@, entry)]
           /\ UNCHANGED latest
      ELSE /\ latest' = [latest EXCEPT ![kind] = here]
           /\ UNCHANGED listed

(* Variant: the files are listed in the value the header starts.           *)
KeepHeaderStarts(kind) ==
  LET here  == Len(stream) + 1
      entry == [event |-> here, count |-> IF verb = "commit" THEN latest["tally"] ELSE None]
  IN  IF kind \in Fold.listed
      THEN /\ listed' = [listed EXCEPT ![kind] = Append(@, entry)]
           /\ latest' = IF verb = "commit" THEN [latest EXCEPT !["tally"] = None] ELSE latest
      ELSE /\ latest' = [latest EXCEPT ![kind] = here]
           /\ listed' = IF kind = "header" THEN [k \in Fold.listed |-> << >>] ELSE listed

(* A verb's callback on an event that decodes.  A commit's revision takes  *)
(* the tally, so that no later revision gets it too.                       *)
Keep(kind) ==
  LET here  == Len(stream) + 1
      entry == [event |-> here, count |-> IF verb = "commit" THEN latest["tally"] ELSE None]
  IN  IF kind \in Fold.listed
      THEN /\ listed' = [listed EXCEPT ![kind] = Append(@, entry)]
           /\ latest' = IF verb = "commit" THEN [latest EXCEPT !["tally"] = None] ELSE latest
      ELSE /\ latest' = [latest EXCEPT ![kind] = here]
           /\ UNCHANGED listed

(* Lore emits an event; the callback passes over one that does not decode. *)
LoreEmit(kind, decodes, zero, of) ==
  /\ answer = None
  /\ Len(stream) < MaxEvents
  /\ decodes \/ kind \in Fold.textual
  /\ zero => kind \in Fold.checked
  /\ IF verb = "commit" THEN CommitOrder(kind, of) ELSE of = 0
  /\ stream' = Append(stream, [kind |-> kind, decodes |-> decodes, zero |-> zero, of |-> of])
  /\ IF decodes THEN Keep(kind) ELSE UNCHANGED <<latest, listed>>
  /\ UNCHANGED <<verb, answer>>

-----------------------------------------------------------------------------
InvalidResponse == [is |-> "InvalidResponse"]

(* Whether the callback kept an event of a kind.                           *)
Kept(kind) == IF kind \in Fold.listed THEN listed[kind] # << >> ELSE latest[kind] # None

(* The events kept of the kind whose identifier the verb looks at.         *)
Identified ==
  UNION {IF k \in Fold.listed THEN {listed[k][i].event : i \in DOMAIN listed[k]}
                               ELSE {latest[k]} \ {None} : k \in Fold.checked}

Value == [latest |-> latest, listed |-> listed]

(* Variants: an absent event is a default value; identifiers are unchecked.*)
ConcludeDefaults(result) ==
  IF result = "Call" THEN CallError
  ELSE IF \E e \in Identified : stream[e].zero
       THEN IF verb = "revision" THEN Ok(None) ELSE InvalidResponse
  ELSE Ok(Value)

ConcludeUnchecked(result) ==
  IF result = "Call" THEN CallError
  ELSE IF \E k \in Fold.required : ~Kept(k) THEN MissingEvent(Fold.required)
  ELSE Ok(Value)

(* What a verb makes of the call's end: the call's error, a missing event, *)
(* a zero identifier (for `revision` an answer: nothing on the branch), or *)
(* what was kept.                                                          *)
Conclude(result) ==
  IF result = "Call" THEN CallError
  ELSE IF \E k \in Fold.required : ~Kept(k) THEN MissingEvent(Fold.required)
  ELSE IF \E e \in Identified : stream[e].zero
       THEN IF verb = "revision" THEN Ok(None) ELSE InvalidResponse
  ELSE Ok(Value)

(* The call returns; a commit that succeeds has ended after a revision.    *)
LoreReturn(result) ==
  /\ answer = None
  /\ verb = "commit" /\ Counted => result = "Call"
  /\ answer' = Conclude(result)
  /\ UNCHANGED <<verb, stream, latest, listed>>

Next ==
  \/ \E kind \in (Fold.listed \cup Fold.latest), decodes, zero \in BOOLEAN, of \in 0..MaxEvents :
       LoreEmit(kind, decodes, zero, of)
  \/ \E result \in CallResults : LoreReturn(result)

Spec == Init /\ [][Next]_vars

-----------------------------------------------------------------------------
HasValue == answer # None /\ IsOk(answer) /\ answer.value # None

(* The positions of the events of a kind, and of those that decoded.       *)
Emitted(kind) == {i \in DOMAIN stream : stream[i].kind = kind}
Reported(kind) == {i \in Emitted(kind) : stream[i].decodes}

(***************************************************************************)
(* A success holds exactly what decoded: its lists have an entry of every  *)
(* such event of their kinds, in Lore's order (Pushed::pushes), and of the *)
(* kinds it keeps one of, the header and the totals, it has the last,      *)
(* wherever among each other they come.  A commit's tallies are below.     *)
(***************************************************************************)
HoldsWhatDecoded ==
  HasValue =>
    /\ \A k \in Fold.listed :
         LET list == answer.value.listed[k]
         IN  /\ {list[i].event : i \in DOMAIN list} = Reported(k)
             /\ \A i, j \in DOMAIN list : i < j => list[i].event < list[j].event
    /\ verb # "commit" =>
         \A k \in Fold.latest :
           LET kept == answer.value.latest[k]
           IN  IF kept = None THEN Reported(k) = {}
               ELSE kept \in Reported(k) /\ \A i \in Reported(k) : i <= kept

(***************************************************************************)
(* What the docs of the values say: a success lists "every path" (Status), *)
(* "each file whose staged state changed" (stage), "one per repository     *)
(* pushed" (Pushed).  It does not hold: the callbacks pass over an event   *)
(* that does not decode, and a success is handed out without it.           *)
(***************************************************************************)
EveryEventIsListed ==
  HasValue =>
    \A k \in Fold.listed :
      {answer.value.listed[k][i].event : i \in DOMAIN answer.value.listed[k]} = Emitted(k)

(***************************************************************************)
(* Commit::count is the tally of that very repository, and None for a      *)
(* linked one, whose files are in the tally of the repository linking it,  *)
(* however many links and layers the commit goes through.                  *)
(***************************************************************************)
CountIsItsRepositorys ==
  HasValue /\ verb = "commit" =>
    \A i \in DOMAIN answer.value.listed["revision"] :
      LET commit == answer.value.listed["revision"][i]
          of     == stream[commit.event].of
      IN  IF of = 0 THEN commit.count = None
          ELSE commit.count # None /\ stream[commit.count].of = of

(***************************************************************************)
(* Nothing is made up.  A success rests on the event the verb speaks of,   *)
(* delivered and decoded; no verb that checks an identifier hands out an   *)
(* all-zero one; and only `revision` answers None, for a revision Lore     *)
(* itself spelled as zero, never for one that was not delivered.           *)
(***************************************************************************)
NothingIsMadeUp ==
  answer # None /\ IsOk(answer) =>
    /\ \A k \in Fold.required : Reported(k) # {}
    /\ IF answer.value = None
       THEN verb = "revision" /\ Last(stream).zero
       ELSE \A e \in Identified : ~stream[e].zero
=============================================================================
