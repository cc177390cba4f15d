----------------------- MODULE RepositoryVerbs_proofs -----------------------
(***************************************************************************)
(* Proofs about RepositoryVerbs, for any number of events in any order the *)
(* verb meets them.  The argument follows the events: what a verb lists of *)
(* a kind is what has reached it of that kind so far, what it keeps is the *)
(* last, and a commit holds a tally only between the tally and its own     *)
(* revision.  The answer is then a reading of that state.                  *)
(***************************************************************************)
EXTENDS RepositoryVerbs, FiniteSetTheorems, TLAPS

USE OutcomeAssumption, VerbsAssumption

Events(fold) ==
  [kind : fold.listed \cup fold.latest, decodes : BOOLEAN, zero : BOOLEAN, of : Nat]

Typed ==
  /\ verb \in Verbs
  /\ stream \in Seq(Events(Fold))
  /\ Value \in Reports(Fold)

(* A list has an entry of each position, in their order.                   *)
Lists(list, positions) ==
  /\ {list[i].event : i \in DOMAIN list} = positions
  /\ \A i, j \in DOMAIN list : i < j => list[i].event < list[j].event

(* Everything that has reached the verb of the kinds it lists is listed.   *)
ListedSoFar == \A k \in Fold.listed : Lists(listed[k], Reported(k))

(* Of the other kinds the last is kept, but for the tally of a commit,     *)
(* which its revision takes.                                               *)
KeptSoFar ==
  verb # "commit" =>
    \A k \in Fold.latest :
      IF latest[k] = None THEN Reported(k) = {}
      ELSE latest[k] \in Reported(k) /\ \A i \in Reported(k) : i <= latest[k]

(* A commit holds a tally only when it comes last, the one of its group;   *)
(* and what a revision has taken is the tally of its own.                  *)
TallyIsTheGroups ==
  verb = "commit" =>
    /\ latest["tally"] = IF Counted THEN Len(stream) ELSE None
    /\ Counted => Last(stream).of = Groups
    /\ \A i \in DOMAIN listed["revision"] :
         LET commit == listed["revision"][i]
             of     == stream[commit.event].of
         IN  IF of = 0 THEN commit.count = None
             ELSE commit.count \in DOMAIN stream /\ stream[commit.count].of = of

(* Events whose text always decodes reach the verb.                        *)
OthersDecode == \A i \in DOMAIN stream : stream[i].decodes \/ stream[i].kind \in Fold.textual

(* The caller gets what the verb concludes.                                *)
AnswerIsConcluded == answer # None => \E result \in CallResults : answer = Conclude(result)

IInv ==
  /\ Typed
  /\ ListedSoFar
  /\ KeptSoFar
  /\ TallyIsTheGroups
  /\ OthersDecode
  /\ AnswerIsConcluded
-----------------------------------------------------------------------------
(* A verb lists an event or keeps it, not both, and looks at its own.      *)
LEMMA Foldings ==
  ASSUME NEW v \in DOMAIN Folds
  PROVE  /\ Folds[v].listed \cap Folds[v].latest = {}
         /\ Folds[v].required \subseteq Folds[v].listed \cup Folds[v].latest
         /\ Folds[v].checked \subseteq Folds[v].listed \cup Folds[v].latest
<1> USE DEF Folds, Verb
<1>1. CASE v \in {"status", "stage", "unstage", "commit"}
  BY <1>1 DEF Status, Stage, Unstage, Commit
<1>2. CASE v \in {"push", "switch", "sync", "clone"}
  BY <1>2 DEF Push, Switch, Sync, Clone
<1>3. CASE v \in {"info", "branch", "revision", "instances", "login"}
  BY <1>3 DEF Info, Branch, Revision, Instances, Login
<1>4. QED
  BY <1>1, <1>2, <1>3

LEMMA CommitFolds ==
  ASSUME verb = "commit"
  PROVE  /\ Fold.listed = {"revision"} /\ Fold.latest = {"tally"}
         /\ Fold.required = {} /\ Fold.textual = {}
BY DEF Fold, Folds, Commit, Verb

LEMMA RevisionFolds ==
  ASSUME verb = "revision"
  PROVE  /\ Fold.listed = {} /\ Fold.latest = {"header"}
         /\ Fold.checked = {"header"} /\ Fold.textual = {}
BY DEF Fold, Folds, Revision, Verb

(* The same of the verb at hand.                                           *)
LEMMA FoldOfTheVerb ==
  ASSUME Typed
  PROVE  /\ Fold = Folds[verb] /\ verb \in Verbs
         /\ Fold.listed \cap Fold.latest = {}
         /\ Fold.required \subseteq Fold.listed \cup Fold.latest
         /\ Fold.checked \subseteq Fold.listed \cup Fold.latest
BY Foldings DEF Typed, Fold

LEMMA FoldTypes ==
  ASSUME Typed
  PROVE  /\ latest \in [Fold.latest -> Nat \cup {None}]
         /\ listed \in [Fold.listed -> Seq([event : Nat, count : Nat \cup {None}])]
BY DEF Typed, Value, Reports

-----------------------------------------------------------------------------
LEMMA InitEstablishes == Init => IInv
<1> SUFFICES ASSUME Init PROVE IInv
  OBVIOUS
<1>1. /\ verb \in Verbs /\ stream = << >> /\ answer = None /\ DOMAIN stream = {}
      /\ latest = [k \in Fold.latest |-> None] /\ listed = [k \in Fold.listed |-> << >>]
  BY DEF Init
<1>2. Typed
  <2>1. << >> \in Seq([event : Nat, count : Nat \cup {None}]) /\ << >> \in Seq(Events(Fold))
    OBVIOUS
  <2>2. latest \in [Fold.latest -> Nat \cup {None}]
    BY <1>1
  <2>3. listed \in [Fold.listed -> Seq([event : Nat, count : Nat \cup {None}])]
    BY <1>1, <2>1
  <2>4. QED
    BY <1>1, <2>1, <2>2, <2>3 DEF Typed, Value, Reports
<1>3. \A k : Reported(k) = {}
  BY <1>1 DEF Reported, Emitted
<1>4. ListedSoFar
  <2>1. SUFFICES ASSUME NEW k \in Fold.listed PROVE Lists(listed[k], Reported(k))
    BY DEF ListedSoFar
  <2>2. listed[k] = << >> /\ DOMAIN listed[k] = {}
    BY <1>1
  <2>3. QED
    BY <1>3, <2>2 DEF Lists
<1>5. KeptSoFar
  BY <1>1, <1>3 DEF KeptSoFar
<1>6. TallyIsTheGroups
  <2>1. SUFFICES ASSUME verb = "commit"
                 PROVE  /\ latest["tally"] = None /\ ~Counted /\ DOMAIN listed["revision"] = {}
    BY DEF TallyIsTheGroups
  <2>2. "tally" \in Fold.latest /\ "revision" \in Fold.listed
    BY <2>1, CommitFolds
  <2>3. QED
    BY <1>1, <2>2 DEF Counted
<1>7. OthersDecode /\ AnswerIsConcluded
  BY <1>1 DEF OthersDecode, AnswerIsConcluded
<1>8. QED
  BY <1>2, <1>4, <1>5, <1>6, <1>7 DEF IInv
-----------------------------------------------------------------------------
Entry == [event : Nat, count : Nat \cup {None}]
Here == Len(stream) + 1

(* A list stays one when an entry of a later position is added.            *)
LEMMA AppendLists ==
  ASSUME NEW list \in Seq(Entry), NEW n \in Nat, NEW positions \in SUBSET (1..n),
         Lists(list, positions), NEW entry \in Entry, entry.event = n + 1
  PROVE  Lists(Append(list, entry), positions \cup {n + 1})
<1> DEFINE longer == Append(list, entry)
<1>1. /\ Len(list) \in Nat /\ DOMAIN list = 1..Len(list)
      /\ DOMAIN longer = 1..(Len(list) + 1)
      /\ \A i \in 1..Len(list) : longer[i] = list[i] /\ list[i].event \in positions
      /\ longer[Len(list) + 1] = entry
  BY DEF Lists
<1>2. 1..(Len(list) + 1) = 1..Len(list) \cup {Len(list) + 1}
  BY <1>1
<1> HIDE DEF longer
<1>3. {longer[i].event : i \in DOMAIN longer} = positions \cup {n + 1}
  <2>1. {list[i].event : i \in 1..Len(list)} = positions
    BY <1>1 DEF Lists
  <2>2. \A x : x \in {longer[i].event : i \in DOMAIN longer} <=> x \in positions \cup {n + 1}
    BY <1>1, <1>2, <2>1
  <2>3. QED
    BY <2>2
<1>4. \A i, j \in DOMAIN longer : i < j => longer[i].event < longer[j].event
  <2>1. \A i, j \in 1..Len(list) : i < j => list[i].event < list[j].event
    BY <1>1 DEF Lists
  <2>2. SUFFICES ASSUME NEW i \in 1..(Len(list) + 1), NEW j \in 1..(Len(list) + 1), i < j
                 PROVE  longer[i].event < longer[j].event
    BY <1>1
  <2>3. i \in 1..Len(list) /\ longer[i] = list[i] /\ list[i].event \in 1..n
    <3>1. i \in 1..Len(list)
      BY <1>1, <2>2
    <3>2. QED
      BY <1>1, <3>1
  <2>4. CASE j \in 1..Len(list)
    BY <1>1, <2>1, <2>2, <2>3, <2>4
  <2>5. CASE j = Len(list) + 1
    BY <1>1, <2>3, <2>5
  <2>6. QED
    BY <1>1, <2>4, <2>5
<1>5. QED
  BY <1>3, <1>4 DEF Lists, longer

(* What an event of Lore's changes: the stream, and what has been reported *)
(* of its kind.                                                            *)
LEMMA StreamGrows ==
  ASSUME Typed, NEW event \in Events(Fold), stream' = Append(stream, event), verb' = verb
  PROVE  /\ Here \in Nat /\ Len(stream) \in Nat /\ Fold' = Fold
         /\ stream' \in Seq(Events(Fold)) /\ Len(stream') = Here
         /\ DOMAIN stream = 1..Len(stream) /\ DOMAIN stream' = DOMAIN stream \cup {Here}
         /\ \A i \in DOMAIN stream : stream'[i] = stream[i] /\ stream[i] \in Events(Fold)
         /\ stream'[Here] = event
         /\ \A k : Reported(k) \in SUBSET (1..Len(stream))
         /\ \A k : Reported(k)' = IF event.kind = k /\ event.decodes
                                  THEN Reported(k) \cup {Here} ELSE Reported(k)
<1>1. stream \in Seq(Events(Fold)) /\ Fold' = Fold
  BY DEF Typed, Fold
<1>2. /\ Here \in Nat /\ Len(stream) \in Nat /\ Len(stream') = Here
      /\ stream' \in Seq(Events(Fold))
      /\ DOMAIN stream = 1..Len(stream) /\ DOMAIN stream' = 1..Here
      /\ \A i \in DOMAIN stream : stream'[i] = stream[i] /\ stream[i] \in Events(Fold)
      /\ stream'[Here] = event
  BY <1>1 DEF Here
<1>3. DOMAIN stream' = DOMAIN stream \cup {Here} /\ Here \notin DOMAIN stream
  BY <1>2 DEF Here
<1>4. \A k : Reported(k) \in SUBSET (1..Len(stream))
  BY <1>2 DEF Reported, Emitted
<1>5. ASSUME NEW k
      PROVE  Reported(k)' = IF event.kind = k /\ event.decodes
                            THEN Reported(k) \cup {Here} ELSE Reported(k)
  <2>1. Reported(k)' = {i \in DOMAIN stream' : stream'[i].kind = k /\ stream'[i].decodes}
    BY DEF Reported, Emitted
  <2>2. Reported(k) = {i \in DOMAIN stream : stream[i].kind = k /\ stream[i].decodes}
    BY DEF Reported, Emitted
  <2>3. CASE event.kind = k /\ event.decodes
    BY <1>2, <1>3, <2>1, <2>2, <2>3
  <2>4. CASE ~(event.kind = k /\ event.decodes)
    BY <1>2, <1>3, <2>1, <2>2, <2>4
  <2>5. QED
    BY <2>3, <2>4
<1>6. QED
  BY <1>1, <1>2, <1>3, <1>4, <1>5

(* A tally begins a group of a commit, nothing else does.                  *)
LEMMA GroupsGrow ==
  ASSUME Typed, NEW event \in Events(Fold), stream' = Append(stream, event), verb' = verb
  PROVE  /\ Groups \in Nat
         /\ Groups' = IF event.kind = "tally" THEN Groups + 1 ELSE Groups
<1> DEFINE Tallies == {i \in DOMAIN stream : stream[i].kind = "tally"}
<1>1. /\ Len(stream) \in Nat /\ DOMAIN stream = 1..Len(stream) /\ Here \notin DOMAIN stream
      /\ DOMAIN stream' = DOMAIN stream \cup {Here} /\ stream'[Here] = event
      /\ \A i \in DOMAIN stream : stream'[i] = stream[i]
  BY StreamGrows DEF Here
<1>2. IsFiniteSet(Tallies)
  <2>1. IsFiniteSet(1..Len(stream))
    BY <1>1, FS_Interval
  <2>2. Tallies \subseteq 1..Len(stream)
    BY <1>1
  <2>3. QED
    BY <2>1, <2>2, FS_Subset
<1>3. Groups = Cardinality(Tallies) /\ Groups \in Nat
  BY <1>2, FS_CardinalityType DEF Groups
<1>4. {i \in DOMAIN stream' : stream'[i].kind = "tally"} =
        IF event.kind = "tally" THEN Tallies \cup {Here} ELSE Tallies
  BY <1>1
<1>5. Here \notin Tallies
  BY <1>1
<1>6. Cardinality(Tallies \cup {Here}) = Cardinality(Tallies) + 1
  BY <1>2, <1>5, FS_AddElement
<1> HIDE DEF Tallies
<1>7. QED
  BY <1>3, <1>4, <1>6 DEF Groups

-----------------------------------------------------------------------------
(* What the callback makes of an event that decodes, whichever it is.      *)
LEMMA KeepsTyped ==
  ASSUME Typed, NEW event \in Events(Fold), stream' = Append(stream, event), verb' = verb,
         verb = "commit" => latest["tally"] \in Nat \cup {None},
         IF event.decodes THEN Keep(event.kind) ELSE UNCHANGED <<latest, listed>>
  PROVE  Typed'
<1> DEFINE kind == event.kind
           entry == [event |-> Here, count |-> IF verb = "commit" THEN latest["tally"] ELSE None]
<1>1. /\ Fold' = Fold /\ Here \in Nat /\ stream' \in Seq(Events(Fold))
      /\ kind \in Fold.listed \cup Fold.latest
  BY StreamGrows DEF Events
<1>2. /\ latest \in [Fold.latest -> Nat \cup {None}]
      /\ listed \in [Fold.listed -> Seq(Entry)]
  BY FoldTypes DEF Entry
<1>3. entry \in Entry
  BY <1>1 DEF Entry
<1> HIDE DEF entry
<1>4. /\ latest' \in [Fold.latest -> Nat \cup {None}]
      /\ listed' \in [Fold.listed -> Seq(Entry)]
  <2>1. CASE ~event.decodes
    BY <1>2, <2>1
  <2>2. CASE event.decodes /\ kind \in Fold.listed
    <3>1. /\ listed' = [listed EXCEPT ![kind] = Append(@, entry)]
          /\ latest' = IF verb = "commit" THEN [latest EXCEPT !["tally"] = None] ELSE latest
      BY <2>2 DEF Keep, entry, Here
    <3>2. Append(listed[kind], entry) \in Seq(Entry)
      BY <1>2, <1>3, <2>2
    <3>3. QED
      BY <1>2, <3>1, <3>2
  <2>3. CASE event.decodes /\ kind \notin Fold.listed
    <3>1. latest' = [latest EXCEPT ![kind] = Here] /\ listed' = listed
      BY <2>3 DEF Keep, Here
    <3>2. QED
      BY <1>1, <1>2, <3>1
  <2>4. QED
    BY <2>1, <2>2, <2>3
<1>5. Typed' <=> /\ verb \in Verbs /\ stream' \in Seq(Events(Fold))
                 /\ latest' \in [Fold.latest -> Nat \cup {None}]
                 /\ listed' \in [Fold.listed -> Seq(Entry)]
  BY <1>1 DEF Typed, Value, Reports, Events, Entry
<1>6. QED
  BY <1>1, <1>4, <1>5 DEF Typed
LEMMA KeepsListed ==
  ASSUME Typed, ListedSoFar,
         NEW event \in Events(Fold), stream' = Append(stream, event), verb' = verb,
         verb = "commit" => latest["tally"] \in Nat \cup {None},
         IF event.decodes THEN Keep(event.kind) ELSE UNCHANGED <<latest, listed>>
  PROVE  ListedSoFar'
<1> DEFINE kind == event.kind
           entry == [event |-> Here, count |-> IF verb = "commit" THEN latest["tally"] ELSE None]
<1>1. /\ Fold' = Fold /\ Here \in Nat /\ Len(stream) \in Nat
      /\ listed \in [Fold.listed -> Seq(Entry)]
      /\ kind \in Fold.listed \cup Fold.latest
  BY StreamGrows, FoldTypes DEF Entry, Events
<1>2. /\ \A k : Reported(k) \in SUBSET (1..Len(stream))
      /\ \A k : Reported(k)' = IF kind = k /\ event.decodes
                               THEN Reported(k) \cup {Here} ELSE Reported(k)
  BY StreamGrows
<1>3. entry \in Entry /\ entry.event = Len(stream) + 1
  BY <1>1 DEF Entry, Here
<1> HIDE DEF entry
<1>4. ASSUME NEW k \in Fold.listed
      PROVE  listed'[k] = IF kind = k /\ event.decodes THEN Append(listed[k], entry) ELSE listed[k]
  <2>1. CASE ~event.decodes
    BY <2>1
  <2>2. CASE event.decodes /\ kind \in Fold.listed
    <3>1. listed' = [listed EXCEPT ![kind] = Append(@, entry)]
      BY <2>2 DEF Keep, entry, Here
    <3>2. QED
      BY <1>1, <1>4, <2>2, <3>1
  <2>3. CASE event.decodes /\ kind \notin Fold.listed
    BY <1>4, <2>3 DEF Keep
  <2>4. QED
    BY <2>1, <2>2, <2>3
<1>5. ASSUME NEW k \in Fold.listed
      PROVE  Lists(listed'[k], Reported(k)')
  <2>1. /\ listed[k] \in Seq(Entry) /\ Lists(listed[k], Reported(k))
        /\ Reported(k) \in SUBSET (1..Len(stream))
    BY <1>1, <1>2, <1>5 DEF ListedSoFar
  <2>2. CASE kind = k /\ event.decodes
    <3>1. Lists(Append(listed[k], entry), Reported(k) \cup {Len(stream) + 1})
      BY <1>1, <1>3, <2>1, AppendLists
    <3>2. QED
      BY <1>2, <1>4, <2>2, <3>1 DEF Here
  <2>3. CASE ~(kind = k /\ event.decodes)
    BY <1>2, <1>4, <2>1, <2>3
  <2>4. QED
    BY <2>2, <2>3
<1>6. ListedSoFar' <=> \A k \in Fold.listed : Lists(listed'[k], Reported(k)')
  BY <1>1 DEF ListedSoFar, Lists
<1>7. QED
  BY <1>5, <1>6

LEMMA KeepsLatest ==
  ASSUME Typed, KeptSoFar,
         NEW event \in Events(Fold), stream' = Append(stream, event), verb' = verb,
         IF event.decodes THEN Keep(event.kind) ELSE UNCHANGED <<latest, listed>>
  PROVE  KeptSoFar'
<1> DEFINE kind == event.kind
           IsLast(k, at, positions) ==
             IF at = None THEN positions = {}
             ELSE at \in positions /\ \A i \in positions : i <= at
<1>1. SUFFICES ASSUME verb # "commit", NEW k \in Fold.latest
               PROVE  IsLast(k, latest'[k], Reported(k)')
  <2>1. Fold' = Fold /\ verb' = verb
    BY StreamGrows
  <2>2. QED
    BY <2>1 DEF KeptSoFar
<1>2. /\ Here \in Nat /\ Len(stream) \in Nat /\ Here = Len(stream) + 1
      /\ latest \in [Fold.latest -> Nat \cup {None}]
      /\ kind \in Fold.listed \cup Fold.latest
      /\ Fold.listed \cap Fold.latest = {}
  BY StreamGrows, FoldTypes, FoldOfTheVerb DEF Events, Here
<1>3. /\ Reported(k) \in SUBSET (1..Len(stream))
      /\ Reported(k)' = IF kind = k /\ event.decodes
                        THEN Reported(k) \cup {Here} ELSE Reported(k)
  BY StreamGrows
<1>4. IsLast(k, latest[k], Reported(k))
  BY <1>1 DEF KeptSoFar
<1>5. CASE kind = k /\ event.decodes
  <2>1. latest'[k] = Here
    BY <1>1, <1>2, <1>5 DEF Keep, Here
  <2>2. Here # None /\ \A i \in Reported(k) \cup {Here} : i <= Here
    BY <1>2, <1>3
  <2>3. QED
    BY <1>3, <1>5, <2>1, <2>2
<1>6. CASE ~(kind = k /\ event.decodes)
  <2>1. latest'[k] = latest[k]
    BY <1>1, <1>2, <1>6 DEF Keep
  <2>2. QED
    BY <1>3, <1>4, <1>6, <2>1
<1>7. QED
  BY <1>5, <1>6

LEMMA EventsStillDecode ==
  ASSUME Typed, OthersDecode,
         NEW event \in Events(Fold), stream' = Append(stream, event), verb' = verb,
         event.decodes \/ event.kind \in Fold.textual
  PROVE  OthersDecode'
<1>1. /\ Fold' = Fold /\ DOMAIN stream' = DOMAIN stream \cup {Here} /\ stream'[Here] = event
      /\ \A i \in DOMAIN stream : stream'[i] = stream[i]
  BY StreamGrows
<1>2. QED
  BY <1>1 DEF OthersDecode
(* A group that has been counted is at least the first.                    *)
LEMMA CountedHasAGroup ==
  ASSUME Typed, Counted
  PROVE  Groups \in Nat \ {0}
<1> DEFINE Tallies == {i \in DOMAIN stream : stream[i].kind = "tally"}
<1>1. stream \in Seq(Events(Fold)) /\ stream # << >> /\ stream[Len(stream)].kind = "tally"
  BY DEF Typed, Counted, Last
<1>2. Len(stream) \in Tallies /\ Tallies \subseteq 1..Len(stream) /\ Len(stream) \in Nat
  BY <1>1
<1>3. IsFiniteSet(Tallies)
  BY <1>2, FS_Interval, FS_Subset
<1>4. Cardinality(Tallies) \in Nat /\ Cardinality(Tallies) # 0
  BY <1>2, <1>3, FS_CardinalityType, FS_EmptySet
<1> HIDE DEF Tallies
<1>5. Groups = Cardinality(Tallies)
  BY DEF Groups, Tallies
<1>6. QED
  BY <1>4, <1>5

(* A tally is held until its group's own revision, which takes it.         *)
LEMMA KeepsTally ==
  ASSUME Typed, ListedSoFar, TallyIsTheGroups,
         NEW event \in Events(Fold), stream' = Append(stream, event), verb' = verb,
         event.decodes \/ event.kind \in Fold.textual,
         verb = "commit" => CommitOrder(event.kind, event.of),
         IF event.decodes THEN Keep(event.kind) ELSE UNCHANGED <<latest, listed>>
  PROVE  TallyIsTheGroups'
<1> DEFINE Paired(commit, events) ==
             IF events[commit.event].of = 0 THEN commit.count = None
             ELSE /\ commit.count \in DOMAIN events
                  /\ events[commit.count].of = events[commit.event].of
<1>1. SUFFICES ASSUME verb = "commit"
               PROVE  /\ latest'["tally"] = IF Counted' THEN Len(stream') ELSE None
                      /\ Counted' => Last(stream').of = Groups'
                      /\ \A i \in DOMAIN listed'["revision"] :
                           Paired(listed'["revision"][i], stream')
  BY DEF TallyIsTheGroups
<1>2. /\ Fold.listed = {"revision"} /\ Fold.latest = {"tally"} /\ Fold.textual = {}
      /\ event.decodes /\ event.kind \in {"revision", "tally"}
  BY <1>1, CommitFolds DEF Events
<1>3. /\ Here \in Nat /\ Len(stream) \in Nat /\ Here = Len(stream) + 1
      /\ stream' \in Seq(Events(Fold)) /\ Len(stream') = Here
      /\ DOMAIN stream = 1..Len(stream) /\ DOMAIN stream' = DOMAIN stream \cup {Here}
      /\ \A i \in DOMAIN stream : stream'[i] = stream[i]
      /\ stream'[Here] = event /\ event.of \in Nat
      /\ Reported("revision") \in SUBSET (1..Len(stream))
  BY StreamGrows DEF Here, Events
<1>4. /\ latest \in [Fold.latest -> Nat \cup {None}] /\ listed["revision"] \in Seq(Entry)
      /\ "revision" \in DOMAIN listed /\ "tally" \in DOMAIN latest
  BY <1>2, FoldTypes DEF Entry
<1>5. Last(stream') = event /\ (Counted' <=> event.kind = "tally")
  <2>1. stream' # << >> /\ Last(stream') = event
    BY <1>3 DEF Last
  <2>2. QED
    BY <2>1 DEF Counted
<1>6. Groups \in Nat /\ Groups' = IF event.kind = "tally" THEN Groups + 1 ELSE Groups
  BY GroupsGrow
<1>7. /\ latest["tally"] = IF Counted THEN Len(stream) ELSE None
      /\ Counted => Last(stream).of = Groups
      /\ \A i \in DOMAIN listed["revision"] : Paired(listed["revision"][i], stream)
  BY <1>1 DEF TallyIsTheGroups
<1>8. ASSUME NEW i \in DOMAIN listed["revision"]
      PROVE  Paired(listed["revision"][i], stream')
  <2>1. listed["revision"][i].event \in Reported("revision")
    BY <1>2, <1>8 DEF ListedSoFar, Lists
  <2>2. listed["revision"][i].event \in DOMAIN stream
    BY <1>3, <2>1
  <2>3. QED
    BY <1>3, <1>7, <1>8, <2>2
<1>9. CASE event.kind = "tally"
  <2>1. ~Counted /\ event.of = Groups + 1
    BY <1>1, <1>9 DEF CommitOrder
  <2>2. latest' = [latest EXCEPT !["tally"] = Here] /\ listed' = listed
    BY <1>2, <1>9 DEF Keep, Here
  <2>3. latest'["tally"] = Len(stream')
    BY <1>3, <1>4, <2>2
  <2>4. QED
    BY <1>5, <1>6, <1>8, <1>9, <2>1, <2>2, <2>3
<1>10. CASE event.kind = "revision"
  <2> DEFINE entry == [event |-> Here, count |-> latest["tally"]]
  <2>1. /\ listed' = [listed EXCEPT !["revision"] = Append(@, entry)]
        /\ latest' = [latest EXCEPT !["tally"] = None]
    BY <1>1, <1>2, <1>10 DEF Keep, Here
  <2>2. latest'["tally"] = None /\ listed'["revision"] = Append(listed["revision"], entry)
    BY <1>4, <2>1
  <2>3. Paired(entry, stream')
    <3>1. CASE Counted
      <4>1. event.of = Groups /\ latest["tally"] = Len(stream) /\ Last(stream).of = Groups
        BY <1>1, <1>7, <3>1 DEF CommitOrder
      <4>2. Len(stream) \in DOMAIN stream /\ Last(stream) = stream[Len(stream)]
        <5>1. stream # << >> /\ stream \in Seq(Events(Fold))
          BY <3>1 DEF Counted, Typed
        <5>2. Len(stream) \in 1..Len(stream)
          BY <5>1
        <5>3. QED
          BY <1>3, <5>2 DEF Last
      <4>3. Groups # 0
        BY <1>7, <3>1, <4>2, CountedHasAGroup
      <4>4. QED
        BY <1>3, <4>1, <4>2, <4>3
    <3>2. CASE ~Counted
      <4>1. event.of = 0 /\ latest["tally"] = None
        BY <1>1, <1>7, <1>10, <3>2 DEF CommitOrder
      <4>2. QED
        BY <1>3, <4>1
    <3>3. QED
      BY <3>1, <3>2
  <2>4. /\ DOMAIN listed'["revision"] = 1..(Len(listed["revision"]) + 1)
        /\ DOMAIN listed["revision"] = 1..Len(listed["revision"])
        /\ Len(listed["revision"]) \in Nat
        /\ \A i \in DOMAIN listed["revision"] :
             listed'["revision"][i] = listed["revision"][i]
        /\ listed'["revision"][Len(listed["revision"]) + 1] = entry
    BY <1>4, <2>2
  <2>5. \A i \in 1..(Len(listed["revision"]) + 1) :
          i \in 1..Len(listed["revision"]) \/ i = Len(listed["revision"]) + 1
    BY <2>4
  <2> HIDE DEF entry
  <2>6. ASSUME NEW i \in DOMAIN listed'["revision"]
        PROVE  Paired(listed'["revision"][i], stream')
    <3>1. CASE i \in 1..Len(listed["revision"])
      BY <1>8, <2>4, <3>1
    <3>2. CASE i = Len(listed["revision"]) + 1
      BY <2>3, <2>4, <3>2
    <3>3. QED
      BY <2>4, <2>5, <2>6, <3>1, <3>2
  <2>7. QED
    BY <1>5, <1>10, <2>2, <2>6
<1>11. QED
  BY <1>2, <1>9, <1>10
LEMMA EmitPreserves ==
  ASSUME IInv, NEW kind \in Fold.listed \cup Fold.latest,
         NEW decodes \in BOOLEAN, NEW zero \in BOOLEAN, NEW of \in 0..MaxEvents,
         LoreEmit(kind, decodes, zero, of)
  PROVE  IInv'
<1> DEFINE event == [kind |-> kind, decodes |-> decodes, zero |-> zero, of |-> of]
<1>1. event \in Events(Fold)
  BY DEF Events
<1>2. /\ stream' = Append(stream, event) /\ verb' = verb
      /\ event.decodes \/ event.kind \in Fold.textual
      /\ verb = "commit" => CommitOrder(event.kind, event.of)
      /\ IF event.decodes THEN Keep(event.kind) ELSE UNCHANGED <<latest, listed>>
      /\ answer = None /\ answer' = answer
  BY DEF LoreEmit
<1> HIDE DEF event
<1>3. Typed /\ ListedSoFar /\ KeptSoFar /\ TallyIsTheGroups /\ OthersDecode
  BY DEF IInv
<1>4. verb = "commit" => latest["tally"] \in Nat \cup {None}
  <2>1. SUFFICES ASSUME verb = "commit" PROVE latest["tally"] \in Nat \cup {None}
    OBVIOUS
  <2>2. latest \in [Fold.latest -> Nat \cup {None}] /\ "tally" \in Fold.latest
    BY <1>3, <2>1, FoldTypes, CommitFolds
  <2>3. QED
    BY <2>2
<1>5. Typed'
  BY <1>1, <1>2, <1>3, <1>4, KeepsTyped
<1>6. ListedSoFar'
  BY <1>1, <1>2, <1>3, <1>4, KeepsListed
<1>7. KeptSoFar'
  BY <1>1, <1>2, <1>3, KeepsLatest
<1>8. TallyIsTheGroups'
  BY <1>1, <1>2, <1>3, KeepsTally
<1>9. OthersDecode'
  BY <1>1, <1>2, <1>3, EventsStillDecode
<1>10. AnswerIsConcluded'
  BY <1>2 DEF AnswerIsConcluded
<1>11. QED
  BY <1>5, <1>6, <1>7, <1>8, <1>9, <1>10 DEF IInv

(* Nothing of the verb's state but its answer changes at the return.       *)
LEMMA AnswerOnlyChanges ==
  ASSUME UNCHANGED <<verb, stream, latest, listed>>,
         Typed, ListedSoFar, KeptSoFar, TallyIsTheGroups, OthersDecode
  PROVE  /\ Typed' /\ ListedSoFar' /\ KeptSoFar' /\ TallyIsTheGroups' /\ OthersDecode'
         /\ \A result : Conclude(result)' = Conclude(result)
<1>1. Fold' = Fold /\ Value' = Value /\ Counted' = Counted /\ Groups' = Groups
  BY DEF Fold, Value, Counted, Groups
<1>2. \A k : Reported(k)' = Reported(k)
  BY DEF Reported, Emitted
<1>3. Typed' /\ OthersDecode'
  BY <1>1 DEF Typed, OthersDecode
<1>4. ListedSoFar' /\ KeptSoFar'
  BY <1>1, <1>2 DEF ListedSoFar, KeptSoFar, Lists
<1>5. TallyIsTheGroups'
  BY <1>1 DEF TallyIsTheGroups
<1>6. Identified' = Identified /\ \A k : Kept(k)' = Kept(k)
  BY <1>1 DEF Identified, Kept
<1>7. \A result : Conclude(result)' = Conclude(result)
  BY <1>1, <1>6 DEF Conclude
<1>8. QED
  BY <1>3, <1>4, <1>5, <1>7

LEMMA ReturnPreserves ==
  ASSUME IInv, NEW result \in CallResults, LoreReturn(result)
  PROVE  IInv'
<1>1. answer' = Conclude(result) /\ UNCHANGED <<verb, stream, latest, listed>>
  BY DEF LoreReturn
<1>2. /\ Typed' /\ ListedSoFar' /\ KeptSoFar' /\ TallyIsTheGroups' /\ OthersDecode'
      /\ Conclude(result)' = Conclude(result)
  BY <1>1, AnswerOnlyChanges DEF IInv
<1>3. AnswerIsConcluded'
  BY <1>1, <1>2 DEF AnswerIsConcluded
<1>4. QED
  BY <1>2, <1>3 DEF IInv

LEMMA StutterPreserves ==
  ASSUME IInv, UNCHANGED vars
  PROVE  IInv'
<1>1. UNCHANGED <<verb, stream, latest, listed>> /\ answer' = answer
  BY DEF vars
<1>2. /\ Typed' /\ ListedSoFar' /\ KeptSoFar' /\ TallyIsTheGroups' /\ OthersDecode'
      /\ \A result : Conclude(result)' = Conclude(result)
  BY <1>1, AnswerOnlyChanges DEF IInv
<1>3. AnswerIsConcluded'
  BY <1>1, <1>2 DEF IInv, AnswerIsConcluded
<1>4. QED
  BY <1>2, <1>3 DEF IInv

(* The inductive invariant: in every reachable state what a verb holds is  *)
(* what the events so far make of it, and its answer is a reading of that. *)
THEOREM Invariance == Spec => []IInv
<1>1. Init => IInv
  BY InitEstablishes
<1>2. IInv /\ [Next]_vars => IInv'
  <2>1. SUFFICES ASSUME IInv, [Next]_vars PROVE IInv'
    OBVIOUS
  <2>2. ASSUME NEW kind \in Fold.listed \cup Fold.latest,
               NEW decodes \in BOOLEAN, NEW zero \in BOOLEAN, NEW of \in 0..MaxEvents,
               LoreEmit(kind, decodes, zero, of)
        PROVE  IInv'
    BY <2>1, <2>2, EmitPreserves
  <2>3. ASSUME NEW result \in CallResults, LoreReturn(result)
        PROVE  IInv'
    BY <2>1, <2>3, ReturnPreserves
  <2>4. CASE UNCHANGED vars
    BY <2>1, <2>4, StutterPreserves
  <2>5. QED
    BY <2>1, <2>2, <2>3, <2>4 DEF Next
<1>3. QED
  BY <1>1, <1>2, PTL DEF Spec

(* The verb's state holds what its fold has places for.                    *)
THEOREM TypeCorrect == Spec => []Typed
<1>1. IInv => Typed
  BY DEF IInv
<1>2. QED
  BY <1>1, Invariance, PTL

-----------------------------------------------------------------------------
(* A success with a report is one of the call that ended well, with the    *)
(* report that the state holds.                                            *)
LEMMA ReportIsTheState ==
  ASSUME IInv, HasValue
  PROVE  answer = Ok(Value) /\ Conclude("Ok") = Ok(Value)
<1>1. PICK result \in CallResults : answer = Conclude(result)
  BY DEF IInv, AnswerIsConcluded, HasValue
<1>2. result # "Call"
  BY <1>1 DEF HasValue, IsOk, Conclude, CallError
<1>3. result = "Ok"
  BY <1>2 DEF CallResults
<1>4. answer = Ok(Value)
  BY <1>1, <1>2 DEF HasValue, IsOk, Ok, Conclude, MissingEvent, InvalidResponse
<1>5. QED
  BY <1>1, <1>3, <1>4

(* A success holds exactly what decoded, in Lore's order, the last of what *)
(* it keeps one of, for any number of events and wherever the others come. *)
THEOREM DecodedIsHeld == Spec => []HoldsWhatDecoded
<1>1. IInv => HoldsWhatDecoded
  <2>1. SUFFICES ASSUME IInv, HasValue PROVE HoldsWhatDecoded
    BY DEF HoldsWhatDecoded
  <2>2. answer.value.listed = listed /\ answer.value.latest = latest
    BY <2>1, ReportIsTheState DEF Ok, Value
  <2>3. ASSUME NEW k \in Fold.listed PROVE Lists(answer.value.listed[k], Reported(k))
    BY <2>1, <2>2 DEF IInv, ListedSoFar
  <2>4. ASSUME verb # "commit", NEW k \in Fold.latest
        PROVE  IF answer.value.latest[k] = None THEN Reported(k) = {}
               ELSE /\ answer.value.latest[k] \in Reported(k)
                    /\ \A i \in Reported(k) : i <= answer.value.latest[k]
    BY <2>1, <2>2, <2>4 DEF IInv, KeptSoFar
  <2>5. QED
    BY <2>3, <2>4 DEF HoldsWhatDecoded, Lists
<1>2. QED
  BY <1>1, Invariance, PTL

(* Commit::count is the tally of that very repository, None for a linked   *)
(* one, for any number of repositories, links and layers.                  *)
THEOREM CountsAreTheirRepositorys == Spec => []CountIsItsRepositorys
<1>1. IInv => CountIsItsRepositorys
  <2>1. SUFFICES ASSUME IInv, HasValue, verb = "commit", NEW i \in DOMAIN listed["revision"],
                        answer.value.listed["revision"] = listed["revision"]
                 PROVE  LET commit == listed["revision"][i]
                            of     == stream[commit.event].of
                        IN  IF of = 0 THEN commit.count = None
                            ELSE commit.count # None /\ stream[commit.count].of = of
    <3>1. IInv /\ HasValue => answer.value.listed["revision"] = listed["revision"]
      BY ReportIsTheState DEF Ok, Value
    <3>2. QED
      BY <3>1 DEF CountIsItsRepositorys
  <2>2. stream \in Seq(Events(Fold)) /\ DOMAIN stream \subseteq Nat
    BY <2>1 DEF IInv, Typed
  <2>3. QED
    BY <2>1, <2>2 DEF IInv, TallyIsTheGroups
<1>2. QED
  BY <1>1, Invariance, PTL
(* What a verb has kept has been reported.                                 *)
LEMMA KeptWasReported ==
  ASSUME IInv, NEW k \in Fold.required, Kept(k)
  PROVE  Reported(k) # {}
<1>1. /\ Typed /\ ListedSoFar /\ KeptSoFar
      /\ k \in Fold.listed \cup Fold.latest /\ verb # "commit"
  BY FoldOfTheVerb, CommitFolds DEF IInv
<1>2. CASE k \in Fold.listed
  <2>1. listed[k] \in Seq(Entry) /\ listed[k] # << >>
    BY <1>1, <1>2, FoldTypes DEF Kept, Entry
  <2>2. 1 \in DOMAIN listed[k]
    BY <2>1
  <2>3. listed[k][1].event \in Reported(k)
    BY <1>1, <1>2, <2>2 DEF ListedSoFar, Lists
  <2>4. QED
    BY <2>3
<1>3. CASE k \notin Fold.listed
  <2>1. latest[k] # None /\ k \in Fold.latest
    BY <1>1, <1>3 DEF Kept
  <2>2. QED
    BY <1>1, <2>1 DEF KeptSoFar
<1>4. QED
  BY <1>2, <1>3

(* What `revision` looks at is the last event, which has decoded.          *)
LEMMA RevisionLooksAtTheLast ==
  ASSUME IInv, verb = "revision", NEW e \in Identified
  PROVE  e = Len(stream) /\ Last(stream) = stream[e]
<1>1. /\ Fold.listed = {} /\ Fold.latest = {"header"}
      /\ Fold.checked = {"header"} /\ Fold.textual = {}
  BY RevisionFolds
<1>2. /\ stream \in Seq(Events(Fold)) /\ Len(stream) \in Nat
      /\ DOMAIN stream = 1..Len(stream)
  BY DEF IInv, Typed
<1>3. e = latest["header"] /\ e # None
  BY <1>1 DEF Identified
<1>4. e \in Reported("header") /\ \A i \in Reported("header") : i <= e
  BY <1>1, <1>3 DEF IInv, KeptSoFar
<1>5. Reported("header") = DOMAIN stream
  <2>1. ASSUME NEW i \in DOMAIN stream
        PROVE  stream[i].kind = "header" /\ stream[i].decodes
    <3>1. stream[i] \in Events(Fold) /\ OthersDecode
      BY <1>2, <2>1 DEF IInv
    <3>2. QED
      BY <1>1, <2>1, <3>1 DEF OthersDecode, Events
  <2>2. QED
    BY <2>1 DEF Reported, Emitted
<1>6. e = Len(stream)
  <2>1. e \in 1..Len(stream)
    BY <1>2, <1>4, <1>5
  <2>2. Len(stream) \in 1..Len(stream)
    BY <1>2, <2>1
  <2>3. e \in Nat /\ e <= Len(stream)
    BY <1>2, <2>1
  <2>4. Len(stream) <= e
    BY <1>2, <1>4, <1>5, <2>2
  <2>5. \A m, n \in Nat : m <= n /\ n <= m => m = n
    OBVIOUS
  <2>6. Len(stream) \in Nat
    BY <1>2
  <2>7. QED
    BY <2>3, <2>4, <2>5, <2>6
<1>7. QED
  BY <1>6 DEF Last

(* No success is made up: it rests on the event its verb speaks of, hands  *)
(* out no all-zero identifier, and only `revision` answers None, for a     *)
(* revision that Lore spelled as zero, for any number of events.           *)
THEOREM AnswersAreNotMadeUp == Spec => []NothingIsMadeUp
<1>1. IInv => NothingIsMadeUp
  <2>1. SUFFICES ASSUME IInv, answer # None, IsOk(answer)
                 PROVE  /\ \A k \in Fold.required : Reported(k) # {}
                        /\ IF answer.value = None
                           THEN verb = "revision" /\ Last(stream).zero
                           ELSE \A e \in Identified : ~stream[e].zero
    BY DEF NothingIsMadeUp
  <2>2. PICK result \in CallResults : answer = Conclude(result)
    BY <2>1 DEF IInv, AnswerIsConcluded
  <2>3. /\ \A k \in Fold.required : Kept(k)
        /\ \/ /\ \E e \in Identified : stream[e].zero
              /\ verb = "revision" /\ answer = Ok(None)
           \/ /\ \A e \in Identified : ~stream[e].zero
              /\ answer = Ok(Value)
    BY <2>1, <2>2 DEF IsOk, Conclude, CallError, MissingEvent, InvalidResponse
  <2>4. \A k \in Fold.required : Reported(k) # {}
    BY <2>1, <2>3, KeptWasReported
  <2>5. Value # None
    BY <2>1, FoldOfTheVerb DEF IInv, Typed
  <2>6. CASE answer = Ok(None) /\ verb = "revision" /\ \E e \in Identified : stream[e].zero
    BY <2>1, <2>4, <2>6, RevisionLooksAtTheLast DEF Ok
  <2>7. CASE answer = Ok(Value) /\ \A e \in Identified : ~stream[e].zero
    BY <2>4, <2>5, <2>7 DEF Ok
  <2>8. QED
    BY <2>3, <2>6, <2>7
<1>2. QED
  BY <1>1, Invariance, PTL
=============================================================================
