--------------------------- MODULE Process_proofs ---------------------------
(***************************************************************************)
(* Proofs about LibraryLoad and about Process, for any number of threads,  *)
(* stores, trees, writes and download attempts.  What a program does with  *)
(* the library is LibraryLoad's, whose theorems come first.  For the       *)
(* handles the argument is who owns them, and for what is written, who     *)
(* will yet flush it: a store that is alive, or being dropped, or a task   *)
(* that a close has spawned.                                               *)
(***************************************************************************)
EXTENDS Process, FiniteSetTheorems, TLAPS

USE LoadAssumption, ProcessAssumption, AttemptsAssumption

-----------------------------------------------------------------------------
(* LibraryLoad, for any finite number of threads, any paths and any        *)
(* images: however the threads race, one library is handed out and it      *)
(* stays mapped.  The argument is the count: the loader has as many opens  *)
(* of an image as there are Lores made from it, and the parked Lore, which *)
(* is never dropped, is one of them.                                       *)

(* A thread that opens an image becomes one more of its holders, and of no *)
(* other image's.                                                          *)
LEMMA OpeningCountsOne ==
  ASSUME TypeOK, NEW c \in Callers, own[c] = None, NEW i \in Images,
         own' = [own EXCEPT ![c] = i], NEW j \in Images
  PROVE  Cardinality(Holders(j)') = Cardinality(Holders(j)) + (IF j = i THEN 1 ELSE 0)
<1>1. IsFiniteSet(Holders(j))
  BY FS_Subset DEF Holders
<1>2. c \notin Holders(j)
  BY DEF Holders
<1>3. CASE j = i
  <2>1. Holders(j)' = Holders(j) \cup {c}
    BY <1>3 DEF Holders, TypeOK
  <2>2. QED
    BY <2>1, <1>1, <1>2, <1>3, FS_AddElement
<1>4. CASE j # i
  <2>1. Holders(j)' = Holders(j)
    BY <1>4, <1>2 DEF Holders, TypeOK
  <2>2. QED
    BY <2>1, <1>1, <1>4, FS_CardinalityType
<1>5. QED
  BY <1>3, <1>4

(* A thread that gives its Lore away is one holder less of that image.     *)
LEMMA GivingAwayCountsOne ==
  ASSUME TypeOK, NEW c \in Callers, own[c] # None,
         own' = [own EXCEPT ![c] = None], NEW j \in Images
  PROVE  Cardinality(Holders(j)') = Cardinality(Holders(j)) - (IF j = own[c] THEN 1 ELSE 0)
<1>1. IsFiniteSet(Holders(j))
  BY FS_Subset DEF Holders
<1>2. c \in Holders(j) <=> j = own[c]
  BY DEF Holders
<1>3. Holders(j)' = Holders(j) \ {c}
  BY DEF Holders, TypeOK
<1>4. QED
  BY <1>1, <1>2, <1>3, FS_RemoveElement, FS_CardinalityType

(* What a thread holds is counted, so closing it leaves a natural number.  *)
LEMMA HeldIsOpen ==
  ASSUME TypeOK, OpensAreCounted, NEW c \in Callers, own[c] # None
  PROVE  own[c] \in Images /\ opens[own[c]] > 0
<1>1. own[c] \in Images
  BY DEF TypeOK
<1>2. IsFiniteSet(Holders(own[c])) /\ Holders(own[c]) # {}
  BY FS_Subset DEF Holders
<1>3. Cardinality(Holders(own[c])) \in Nat \ {0}
  BY <1>2, FS_EmptySet, FS_CardinalityType
<1>4. opens[own[c]] = Cardinality(Holders(own[c])) + Parked(own[c])
  BY <1>1 DEF OpensAreCounted
<1>5. QED
  BY <1>1, <1>3, <1>4 DEF Parked

LEMMA InitEstablishes == Init => IInv
<1> SUFFICES ASSUME Init PROVE IInv
  OBVIOUS
<1>1. \A i \in Images : Holders(i) = {} /\ Parked(i) = 0
  BY DEF Init, Holders, Parked
<1>2. OpensAreCounted
  BY <1>1, FS_EmptySet DEF Init, OpensAreCounted
<1>3. QED
  BY <1>2 DEF Init, IInv, TypeOK, HoldsWhileLoading, OneLibrary

-----------------------------------------------------------------------------
(* One lemma per step of load.                                             *)

LEMMA GetPreserves ==
  ASSUME IInv, NEW c \in Callers, Get(c)
  PROVE  IInv'
<1>1. TypeOK' /\ HoldsWhileLoading' /\ OneLibrary'
  BY DEF IInv, Get, TypeOK, HoldsWhileLoading, OneLibrary
<1>2. OpensAreCounted'
  BY DEF IInv, Get, OpensAreCounted, Holders, Parked
<1>3. QED
  BY <1>1, <1>2 DEF IInv

LEMMA OpenPreserves ==
  ASSUME IInv, NEW c \in Callers, NEW path \in Paths, Open(c, path)
  PROVE  IInv'
<1> DEFINE i == ImageOf[path]
<1>1. i \in Images /\ own[c] = None
  BY DEF IInv, Open, HoldsWhileLoading
<1>2. TypeOK' /\ HoldsWhileLoading' /\ OneLibrary'
  BY <1>1 DEF IInv, Open, TypeOK, HoldsWhileLoading, OneLibrary
<1>3. ASSUME NEW j \in Images
      PROVE  opens'[j] = Cardinality(Holders(j)') + Parked(j)'
  <2>1. Cardinality(Holders(j)') = Cardinality(Holders(j)) + (IF j = i THEN 1 ELSE 0)
    BY <1>1, OpeningCountsOne DEF IInv, Open
  <2>2. opens'[j] = opens[j] + (IF j = i THEN 1 ELSE 0) /\ Parked(j)' = Parked(j)
    BY DEF IInv, Open, TypeOK, Parked
  <2>3. IsFiniteSet(Holders(j))
    BY FS_Subset DEF Holders
  <2>4. Cardinality(Holders(j)) \in Nat
    BY <2>3, FS_CardinalityType
  <2>5. opens[j] = Cardinality(Holders(j)) + Parked(j)
    BY DEF IInv, OpensAreCounted
  <2>6. QED
    BY <2>1, <2>2, <2>4, <2>5 DEF Parked
<1>4. QED
  BY <1>2, <1>3 DEF IInv, OpensAreCounted

LEMMA OpenFailsPreserves ==
  ASSUME IInv, NEW c \in Callers, OpenFails(c)
  PROVE  IInv'
<1>1. TypeOK' /\ HoldsWhileLoading' /\ OneLibrary'
  BY DEF IInv, OpenFails, TypeOK, HoldsWhileLoading, OneLibrary
<1>2. OpensAreCounted'
  BY DEF IInv, OpenFails, OpensAreCounted, Holders, Parked
<1>3. QED
  BY <1>1, <1>2 DEF IInv

(* A Lore is closed: its thread held it, and nobody else's count changes.  *)
LEMMA ClosingPreservesTheCount ==
  ASSUME TypeOK, OpensAreCounted, NEW c \in Callers, own[c] # None,
         opens' = [opens EXCEPT ![own[c]] = @ - 1],
         own' = [own EXCEPT ![c] = None],
         lore' = lore
  PROVE  opens' \in [Images -> Nat] /\ OpensAreCounted'
<1>1. own[c] \in Images /\ opens[own[c]] \in Nat /\ opens[own[c]] > 0
  BY HeldIsOpen DEF TypeOK
<1>2. opens' \in [Images -> Nat]
  BY <1>1 DEF TypeOK
<1>3. ASSUME NEW j \in Images
      PROVE  opens'[j] = Cardinality(Holders(j)') + Parked(j)'
  <2>1. Cardinality(Holders(j)') = Cardinality(Holders(j)) - (IF j = own[c] THEN 1 ELSE 0)
    BY GivingAwayCountsOne
  <2>2. opens'[j] = opens[j] - (IF j = own[c] THEN 1 ELSE 0) /\ Parked(j)' = Parked(j)
    BY <1>1 DEF TypeOK, Parked
  <2>3. IsFiniteSet(Holders(j))
    BY FS_Subset DEF Holders
  <2>4. Cardinality(Holders(j)) \in Nat
    BY <2>3, FS_CardinalityType
  <2>5. opens[j] = Cardinality(Holders(j)) + Parked(j)
    BY DEF OpensAreCounted
  <2>6. QED
    BY <2>1, <2>2, <2>4, <2>5 DEF Parked
<1>4. QED
  BY <1>2, <1>3 DEF OpensAreCounted

LEMMA BindPreserves ==
  ASSUME IInv, NEW c \in Callers, Bind(c)
  PROVE  IInv'
<1>1. own[c] # None
  BY DEF IInv, Bind, HoldsWhileLoading
<1>2. CASE own[c] \in Complete
  <2>1. TypeOK' /\ HoldsWhileLoading' /\ OneLibrary'
    BY <1>1, <1>2 DEF IInv, Bind, TypeOK, HoldsWhileLoading, OneLibrary
  <2>2. OpensAreCounted'
    BY <1>2 DEF IInv, Bind, OpensAreCounted, Holders, Parked
  <2>3. QED
    BY <2>1, <2>2 DEF IInv
<1>3. CASE own[c] \notin Complete
  <2>1. opens' \in [Images -> Nat] /\ OpensAreCounted'
    BY <1>1, <1>3, ClosingPreservesTheCount DEF IInv, Bind
  <2>2. TypeOK' /\ HoldsWhileLoading' /\ OneLibrary'
    BY <1>1, <1>3, <2>1 DEF IInv, Bind, TypeOK, HoldsWhileLoading, OneLibrary
  <2>3. QED
    BY <2>1, <2>2 DEF IInv
<1>4. QED
  BY <1>2, <1>3

LEMMA GetOrInitPreserves ==
  ASSUME IInv, NEW c \in Callers, GetOrInit(c)
  PROVE  IInv'
<1>1. own[c] # None /\ own[c] \in Images
  BY DEF IInv, GetOrInit, HoldsWhileLoading, TypeOK
<1>2. CASE lore = None
  <2>1. TypeOK' /\ HoldsWhileLoading' /\ OneLibrary'
    BY <1>1, <1>2 DEF IInv, GetOrInit, TypeOK, HoldsWhileLoading, OneLibrary
  <2>2. ASSUME NEW j \in Images
        PROVE  opens'[j] = Cardinality(Holders(j)') + Parked(j)'
    <3>1. Cardinality(Holders(j)') = Cardinality(Holders(j)) - (IF j = own[c] THEN 1 ELSE 0)
      BY <1>1, <1>2, GivingAwayCountsOne DEF IInv, GetOrInit
    <3>2. Parked(j) = 0 /\ Parked(j)' = (IF j = own[c] THEN 1 ELSE 0)
      BY <1>2 DEF GetOrInit, Parked
    <3>3. IsFiniteSet(Holders(j))
      BY FS_Subset DEF Holders
    <3>4. Cardinality(Holders(j)) \in Nat
      BY <3>3, FS_CardinalityType
    <3>5. opens'[j] = Cardinality(Holders(j)) + Parked(j)
      BY DEF IInv, GetOrInit, OpensAreCounted
    <3>6. QED
      BY <3>1, <3>2, <3>4, <3>5
  <2>3. QED
    BY <2>1, <2>2 DEF IInv, OpensAreCounted
<1>3. CASE lore # None
  <2>1. TypeOK' /\ HoldsWhileLoading' /\ OneLibrary'
    BY <1>1, <1>3 DEF IInv, GetOrInit, TypeOK, HoldsWhileLoading, OneLibrary
  <2>2. OpensAreCounted'
    BY <1>3 DEF IInv, GetOrInit, OpensAreCounted, Holders, Parked
  <2>3. QED
    BY <2>1, <2>2 DEF IInv
<1>4. QED
  BY <1>2, <1>3

LEMMA DropLoserPreserves ==
  ASSUME IInv, NEW c \in Callers, DropLoser(c)
  PROVE  IInv'
<1>1. own[c] # None
  BY DEF IInv, DropLoser, HoldsWhileLoading
<1>2. opens' \in [Images -> Nat] /\ OpensAreCounted'
  BY <1>1, ClosingPreservesTheCount DEF IInv, DropLoser
<1>3. TypeOK' /\ HoldsWhileLoading' /\ OneLibrary'
  BY <1>1, <1>2 DEF IInv, DropLoser, TypeOK, HoldsWhileLoading, OneLibrary
<1>4. QED
  BY <1>2, <1>3 DEF IInv

-----------------------------------------------------------------------------
LEMMA NextPreserves == IInv /\ [Next]_vars => IInv'
<1> SUFFICES ASSUME IInv, [Next]_vars PROVE IInv'
  OBVIOUS
<1>1. CASE UNCHANGED vars
  BY <1>1 DEF vars, IInv, TypeOK, HoldsWhileLoading, OneLibrary, OpensAreCounted, Holders, Parked
<1>2. CASE Next
  <2>1. PICK c \in Callers :
          \/ Get(c) \/ (\E path \in Paths : Open(c, path)) \/ OpenFails(c)
          \/ Bind(c) \/ GetOrInit(c) \/ DropLoser(c)
    BY <1>2 DEF Next
  <2>2. QED
    BY <2>1, GetPreserves, OpenPreserves, OpenFailsPreserves, BindPreserves,
       GetOrInitPreserves, DropLoserPreserves
<1>3. QED
  BY <1>1, <1>2

(* The inductive invariant holds throughout.                               *)
THEOREM Invariance == Spec => []IInv
<1>1. QED
  BY InitEstablishes, NextPreserves, PTL DEF Spec

(* The types, among them that no count of opens ever goes below zero: load *)
(* closes nothing it did not open.                                         *)
THEOREM TypeCorrect == Spec => []TypeOK
<1>1. IInv => TypeOK
  BY DEF IInv
<1>2. QED
  BY Invariance, <1>1, PTL

(* Every successful load hands out the one parked library.                 *)
THEOREM LoadsHandOutOneLibrary == Spec => []OneLibrary
<1>1. IInv => OneLibrary
  BY DEF IInv
<1>2. QED
  BY Invariance, <1>1, PTL

(* No open is leaked or closed twice, whatever fails and whoever is late.  *)
THEOREM OpensMatchLores == Spec => []OpensAreCounted
<1>1. IInv => OpensAreCounted
  BY DEF IInv
<1>2. QED
  BY Invariance, <1>1, PTL

(* A library that was handed out is parked, and the parked Lore's own open *)
(* is never closed: it stays mapped.  A thread that still holds a Lore has *)
(* an open of its own, so what it calls into is mapped as well.            *)
THEOREM CalledIntoIsMapped == Spec => []UsedIsMapped
<1>1. ASSUME IInv, NEW i \in given PROVE opens[i] > 0
  <2>1. i \in Images /\ Parked(i) = 1
    BY <1>1 DEF IInv, TypeOK, OneLibrary, Parked
  <2>2. IsFiniteSet(Holders(i))
    BY FS_Subset DEF Holders
  <2>3. Cardinality(Holders(i)) \in Nat
    BY <2>2, FS_CardinalityType
  <2>4. opens[i] = Cardinality(Holders(i)) + Parked(i)
    BY <1>1, <2>1 DEF IInv, OpensAreCounted
  <2>5. QED
    BY <2>1, <2>3, <2>4
<1>2. ASSUME IInv, NEW c \in Callers, own[c] # None PROVE opens[own[c]] > 0
  BY <1>2, HeldIsOpen DEF IInv
<1>3. IInv => UsedIsMapped
  BY <1>1, <1>2 DEF UsedIsMapped
<1>4. QED
  BY Invariance, <1>3, PTL

-----------------------------------------------------------------------------
(* What a thread holds, and what is parked, came from one of the paths.    *)
FromPaths ==
  /\ \A c \in Callers : own[c] # None => \E path \in Paths : own[c] = ImageOf[path]
  /\ lore # None => \E path \in Paths : lore = ImageOf[path]

(* A late thread's image is parked, so its close is not the last one.      *)
LEMMA ParkedAndHeldIsOpenTwice ==
  ASSUME IInv, NEW c \in Callers, own[c] # None, own[c] = lore
  PROVE  opens[own[c]] \in Nat /\ opens[own[c]] > 1
<1>1. own[c] \in Images /\ Parked(own[c]) = 1
  BY DEF IInv, TypeOK, Parked
<1>2. IsFiniteSet(Holders(own[c])) /\ Holders(own[c]) # {}
  BY FS_Subset DEF Holders
<1>3. Cardinality(Holders(own[c])) \in Nat \ {0}
  BY <1>2, FS_EmptySet, FS_CardinalityType
<1>4. opens[own[c]] = Cardinality(Holders(own[c])) + 1
  BY <1>1 DEF IInv, OpensAreCounted
<1>5. QED
  BY <1>3, <1>4

(* "The library is never unloaded" holds when every path leads to the one  *)
(* library, a complete one, which is what load's contract asks and its     *)
(* comment on concurrent first calls takes for granted.                    *)
THEOREM SameLibraryIsNeverUnloaded ==
  ASSUME \A p, q \in Paths : ImageOf[p] = ImageOf[q],
         \A p \in Paths : ImageOf[p] \in Complete
  PROVE  Spec => NeverUnloaded
<1>1. Init => FromPaths
  BY DEF Init, FromPaths
<1>2. IInv /\ FromPaths /\ [Next]_vars => FromPaths'
  <2> SUFFICES ASSUME IInv, FromPaths, [Next]_vars PROVE FromPaths'
    OBVIOUS
  <2>1. CASE UNCHANGED vars
    BY <2>1 DEF vars, FromPaths
  <2>2. ASSUME NEW c \in Callers, Get(c) PROVE FromPaths'
    BY <2>2 DEF Get, FromPaths
  <2>3. ASSUME NEW c \in Callers, NEW path \in Paths, Open(c, path) PROVE FromPaths'
    BY <2>3 DEF Open, FromPaths, IInv, TypeOK
  <2>4. ASSUME NEW c \in Callers, OpenFails(c) PROVE FromPaths'
    BY <2>4 DEF OpenFails, FromPaths
  <2>5. ASSUME NEW c \in Callers, Bind(c) PROVE FromPaths'
    BY <2>5 DEF Bind, FromPaths, IInv, TypeOK
  <2>6. ASSUME NEW c \in Callers, GetOrInit(c) PROVE FromPaths'
    BY <2>6 DEF GetOrInit, FromPaths, IInv, TypeOK, HoldsWhileLoading
  <2>7. ASSUME NEW c \in Callers, DropLoser(c) PROVE FromPaths'
    BY <2>7 DEF DropLoser, FromPaths, IInv, TypeOK
  <2>8. QED
    BY <2>1, <2>2, <2>3, <2>4, <2>5, <2>6, <2>7 DEF Next
<1>3. IInv /\ FromPaths /\ [Next]_vars
      => [\A image \in Images : opens[image] > 0 => opens'[image] > 0]_vars
  <2> SUFFICES ASSUME IInv, FromPaths, Next, NEW i \in Images, opens[i] > 0
               PROVE  opens'[i] > 0
    OBVIOUS
  <2> USE DEF IInv, TypeOK
  <2>1. ASSUME NEW c \in Callers, Get(c) PROVE opens'[i] > 0
    BY <2>1 DEF Get
  <2>2. ASSUME NEW c \in Callers, NEW path \in Paths, Open(c, path) PROVE opens'[i] > 0
    BY <2>2 DEF Open
  <2>3. ASSUME NEW c \in Callers, OpenFails(c) PROVE opens'[i] > 0
    BY <2>3 DEF OpenFails
  <2>4. ASSUME NEW c \in Callers, Bind(c) PROVE opens'[i] > 0
    \* what the paths lead to is complete, so no load fails half way
    BY <2>4 DEF Bind, FromPaths, HoldsWhileLoading
  <2>5. ASSUME NEW c \in Callers, GetOrInit(c) PROVE opens'[i] > 0
    BY <2>5 DEF GetOrInit
  <2>6. ASSUME NEW c \in Callers, DropLoser(c) PROVE opens'[i] > 0
    <3>1. own[c] # None /\ own[c] = lore
      BY <2>6 DEF DropLoser, FromPaths, HoldsWhileLoading
    <3>2. opens[own[c]] \in Nat /\ opens[own[c]] > 1
      BY <3>1, ParkedAndHeldIsOpenTwice
    <3>3. opens'[i] = opens[i] - (IF i = own[c] THEN 1 ELSE 0)
      BY <2>6, <3>1 DEF DropLoser
    <3>4. QED
      BY <3>2, <3>3
  <2>7. QED
    BY <2>1, <2>2, <2>3, <2>4, <2>5, <2>6 DEF Next
<1>4. QED
  BY Invariance, <1>1, <1>2, <1>3, PTL DEF Spec, NeverUnloaded

-----------------------------------------------------------------------------
(* The program: its handles and its build.                                 *)

(* A value's close is in progress exactly while its Drop waits.            *)
DropsWait == closing = {v \in Values : value[v] = "dropping"}

(* A flush is of a live store, and nothing is flushed that was not put.    *)
FlushesBorrow ==
  /\ \A s \in Stores : flushing[s] # None => value[s] = "live" /\ flushing[s] \subseteq written
  /\ UNION spawned \subseteq written

(* No value is left once shutdown is called, and no load under way.        *)
EndIsQuiet == proc \in {"shutting down", "finalized"} => AllGone

(* What is not on disk yet has somebody who will flush it.                 *)
Alive == \E s \in Stores : value[s] \in {"live", "dropping"}
PendingIsOwned == unheard \/ proc = "exited" \/ Alive \/ Pending \subseteq UNION spawned

HInv ==
  /\ HandleTypeOK
  /\ DropsWait /\ FlushesBorrow /\ EndIsQuiet /\ PendingIsOwned
  /\ FlushedIsDurable /\ CleanEndIsDurable /\ HandlesAreOwned

FInv == FetchTypeOK /\ FetchedIsTheRelease

-----------------------------------------------------------------------------
LEMMA HandlesInit == ProcessInit => HInv
<1> SUFFICES ASSUME ProcessInit PROVE HInv
  OBVIOUS
<1>1. HandleTypeOK
  <2>1. /\ value = [v \in Values |-> "none"] /\ source = [t \in Trees |-> None]
        /\ flushing = [s \in Stores |-> None]
    BY DEF ProcessInit
  <2>2. /\ closing = {} /\ open = {} /\ broken = {} /\ spawned = {}
        /\ written = {} /\ disk = {} /\ told = {} /\ proc = "running"
    BY DEF ProcessInit
  <2>3. unheard \in BOOLEAN
    BY DEF ProcessInit
  <2>4. /\ value \in [Values -> {"none", "opening", "live", "dropping", "gone"}]
        /\ source \in [Trees -> Stores \cup {None}]
        /\ flushing \in [Stores -> (SUBSET Writes) \cup {None}]
    BY <2>1
  <2>5. QED
    BY <2>2, <2>3, <2>4 DEF HandleTypeOK
<1>2. DropsWait /\ FlushesBorrow /\ EndIsQuiet
  BY DEF ProcessInit, DropsWait, FlushesBorrow, EndIsQuiet
<1>3. PendingIsOwned /\ FlushedIsDurable /\ CleanEndIsDurable /\ HandlesAreOwned
  BY DEF ProcessInit, PendingIsOwned, Pending, FlushedIsDurable, CleanEndIsDurable, HandlesAreOwned
<1>4. QED
  BY <1>1, <1>2, <1>3 DEF HInv

LEMMA FetchSteps ==
  /\ FetchInit => FInv
  /\ FInv /\ [FetchNext]_fetchVars => FInv'
<1>1. FetchInit => FInv
  BY DEF FetchInit, FInv, FetchTypeOK, FetchedIsTheRelease
<1>2. ASSUME FInv, [FetchNext]_fetchVars PROVE FInv'
  <2>1. CASE FetchBegin
    BY <1>2, <2>1 DEF FetchBegin, FInv, FetchTypeOK, FetchedIsTheRelease
  <2>2. ASSUME NEW success \in BOOLEAN, Curl(success) PROVE FInv'
    BY <1>2, <2>2 DEF Curl, FInv, FetchTypeOK, FetchedIsTheRelease
  <2>3. ASSUME NEW success \in BOOLEAN, Extract(success) PROVE FInv'
    BY <1>2, <2>3 DEF Extract, FInv, FetchTypeOK, FetchedIsTheRelease
  <2>4. CASE FetchKilled
    BY <1>2, <2>4 DEF FetchKilled, FInv, FetchTypeOK, FetchedIsTheRelease
  <2>5. CASE UNCHANGED fetchVars
    BY <1>2, <2>5 DEF fetchVars, FInv, FetchTypeOK, FetchedIsTheRelease
  <2>6. QED
    BY <1>2, <2>1, <2>2, <2>3, <2>4, <2>5 DEF FetchNext
<1>3. QED
  BY <1>1, <1>2

-----------------------------------------------------------------------------
(* A value that is opened, by Store::open or by load_revision_tree.        *)
LEMMA OpeningPreserves ==
  ASSUME HInv, NEW v \in Values, proc = "running", value[v] = "none",
         value' = [value EXCEPT ![v] = "opening"],
         source' \in [Trees -> Stores \cup {None}],
         UNCHANGED <<closing, open, broken, flushing, spawned, written, disk, told, unheard, proc>>
  PROVE  HInv'
<1>1. HandleTypeOK'
  BY DEF HInv, HandleTypeOK
<1>2. DropsWait' /\ FlushesBorrow' /\ EndIsQuiet'
  BY DEF HInv, HandleTypeOK, DropsWait, FlushesBorrow, EndIsQuiet, Values
<1>3. PendingIsOwned'
  BY DEF HInv, HandleTypeOK, PendingIsOwned, Pending, Alive, Values
<1>4. FlushedIsDurable' /\ CleanEndIsDurable'
  BY DEF HInv, FlushedIsDurable, CleanEndIsDurable
<1>5. HandlesAreOwned'
  BY DEF HInv, HandleTypeOK, HandlesAreOwned
<1>6. QED
  BY <1>1, <1>2, <1>3, <1>4, <1>5 DEF HInv

LEMMA LoreOpenedPreserves ==
  ASSUME HInv, NEW v \in Values, LoreOpened(v)
  PROVE  HInv'
<1>1. HandleTypeOK'
  BY DEF LoreOpened, HInv, HandleTypeOK
<1>2. DropsWait' /\ FlushesBorrow' /\ PendingIsOwned' /\ FlushedIsDurable' /\ CleanEndIsDurable'
  BY DEF LoreOpened, HInv, DropsWait, FlushesBorrow, PendingIsOwned, Pending, Alive,
         FlushedIsDurable, CleanEndIsDurable
<1>3. HandlesAreOwned'
  BY DEF LoreOpened, HInv, HandleTypeOK, HandlesAreOwned
<1>4. EndIsQuiet'
  BY DEF LoreOpened, HInv, EndIsQuiet, AllGone
<1>5. QED
  BY <1>1, <1>2, <1>3, <1>4 DEF HInv

LEMMA OpenReturnPreserves ==
  ASSUME HInv, NEW v \in Values, NEW result, OpenReturn(v, result)
  PROVE  HInv'
<1>1. /\ value[v] = "opening"
      /\ \/ value' = [value EXCEPT ![v] = "live"] /\ v \in open /\ broken' = broken
         \/ /\ value' = [value EXCEPT ![v] = "gone"] /\ broken \subseteq broken'
            /\ v \in open => v \in broken'
      /\ broken' \subseteq broken \cup {v}
      /\ UNCHANGED <<closing, open, flushing, spawned, written, disk, told, unheard, proc>>
  BY DEF OpenReturn, Made
<1>2. source' \in [Trees -> Stores \cup {None}]
  BY DEF OpenReturn, HInv, HandleTypeOK
<1>3. HandleTypeOK'
  BY <1>1, <1>2 DEF HInv, HandleTypeOK
<1>4. DropsWait' /\ FlushesBorrow'
  BY <1>1 DEF HInv, HandleTypeOK, DropsWait, FlushesBorrow, Values
<1>5. PendingIsOwned'
  BY <1>1 DEF HInv, HandleTypeOK, PendingIsOwned, Pending, Alive, Values
<1>6. FlushedIsDurable' /\ CleanEndIsDurable'
  BY <1>1 DEF HInv, FlushedIsDurable, CleanEndIsDurable
<1>7. HandlesAreOwned'
  BY <1>1 DEF HInv, HandleTypeOK, HandlesAreOwned
<1>8. EndIsQuiet'
  BY <1>1 DEF HInv, HandleTypeOK, EndIsQuiet, AllGone
<1>9. QED
  BY <1>3, <1>4, <1>5, <1>6, <1>7, <1>8 DEF HInv

(* A store that is alive will flush what is put through it.                *)
LEMMA PutPreserves ==
  ASSUME HInv, NEW s \in Stores, NEW w \in Writes, Put(s, w)
  PROVE  HInv'
<1>1. HandleTypeOK'
  BY DEF Put, HInv, HandleTypeOK
<1>2. DropsWait' /\ FlushesBorrow' /\ HandlesAreOwned'
  BY DEF Put, HInv, DropsWait, FlushesBorrow, HandlesAreOwned
<1>3. PendingIsOwned'
  BY DEF Put, PendingIsOwned, Alive
<1>4. FlushedIsDurable' /\ CleanEndIsDurable' /\ EndIsQuiet'
  BY DEF Put, HInv, FlushedIsDurable, CleanEndIsDurable, EndIsQuiet
<1>5. QED
  BY <1>1, <1>2, <1>3, <1>4 DEF HInv

LEMMA FlushBeginPreserves ==
  ASSUME HInv, NEW s \in Stores, FlushBegin(s)
  PROVE  HInv'
<1>1. Pending \subseteq written /\ Pending \in SUBSET Writes
  BY DEF HInv, HandleTypeOK, Pending
<1>2. HandleTypeOK'
  BY <1>1 DEF FlushBegin, HInv, HandleTypeOK
<1>3. FlushesBorrow'
  BY <1>1 DEF FlushBegin, HInv, HandleTypeOK, FlushesBorrow
<1>4. DropsWait' /\ HandlesAreOwned' /\ PendingIsOwned'
  BY DEF FlushBegin, HInv, DropsWait, HandlesAreOwned, PendingIsOwned, Pending, Alive
<1>5. FlushedIsDurable' /\ CleanEndIsDurable' /\ EndIsQuiet'
  BY DEF FlushBegin, HInv, FlushedIsDurable, CleanEndIsDurable, EndIsQuiet
<1>6. QED
  BY <1>2, <1>3, <1>4, <1>5 DEF HInv

(* More on disk is less for those who own it to flush.                     *)
LEMMA FlushReturnPreserves ==
  ASSUME HInv, NEW s \in Stores, NEW result, FlushReturn(s, result)
  PROVE  HInv'
<1>1. /\ flushing[s] # None /\ flushing[s] \subseteq written
      /\ flushing' = [flushing EXCEPT ![s] = None]
      /\ UNCHANGED <<value, source, closing, open, broken, spawned, written, unheard, proc>>
  BY DEF FlushReturn, HInv, FlushesBorrow
<1>2. /\ disk \subseteq disk' /\ disk' \subseteq disk \cup flushing[s]
      /\ result = "Ok" => disk' = disk \cup flushing[s]
  BY DEF FlushReturn
<1>3. told' = IF result = "Ok" THEN told \cup flushing[s] ELSE told
  BY DEF FlushReturn, FlushResult
<1>4. told' \subseteq written /\ disk' \subseteq written /\ told' \subseteq disk'
  BY <1>1, <1>2, <1>3 DEF HInv, HandleTypeOK, FlushedIsDurable
<1>5. HandleTypeOK'
  <2>1. flushing' \in [Stores -> (SUBSET Writes) \cup {None}]
    BY <1>1 DEF HInv, HandleTypeOK
  <2>2. unheard' \in BOOLEAN
    BY <1>1 DEF HInv, HandleTypeOK
  <2>3. QED
    BY <1>1, <1>4, <2>1, <2>2 DEF HInv, HandleTypeOK
<1>6. DropsWait' /\ HandlesAreOwned' /\ EndIsQuiet'
  <2>1. value[s] = "live" /\ s \in Values
    BY <1>1 DEF HInv, FlushesBorrow, Values
  <2>2. proc \notin {"shutting down", "finalized"}
    BY <2>1 DEF HInv, EndIsQuiet, AllGone
  <2>3. QED
    BY <1>1, <2>2 DEF HInv, DropsWait, HandlesAreOwned, EndIsQuiet
<1>7. FlushesBorrow'
  BY <1>1 DEF HInv, HandleTypeOK, FlushesBorrow
<1>8. PendingIsOwned'
  BY <1>1, <1>2 DEF HInv, PendingIsOwned, Pending, Alive
<1>9. FlushedIsDurable' /\ CleanEndIsDurable'
  BY <1>1, <1>2, <1>4 DEF HInv, FlushedIsDurable, CleanEndIsDurable
<1>10. QED
  BY <1>5, <1>6, <1>7, <1>8, <1>9 DEF HInv

LEMMA DropPreserves ==
  ASSUME HInv, NEW v \in Values, Drop(v)
  PROVE  HInv'
<1>1. /\ proc = "running" /\ value[v] = "live" /\ Unborrowed(v)
      /\ value' = [value EXCEPT ![v] = "dropping"] /\ closing' = closing \cup {v}
      /\ UNCHANGED <<source, open, broken, flushing, spawned, written, disk, told, unheard, proc>>
  BY DEF Drop
<1>2. HandleTypeOK'
  BY <1>1 DEF HInv, HandleTypeOK
<1>3. DropsWait'
  BY <1>1 DEF HInv, HandleTypeOK, DropsWait
<1>4. FlushesBorrow'
  BY <1>1 DEF HInv, HandleTypeOK, FlushesBorrow, Unborrowed, Values
<1>5. PendingIsOwned'
  BY <1>1 DEF HInv, HandleTypeOK, PendingIsOwned, Pending, Alive, Values
<1>6. HandlesAreOwned'
  BY <1>1 DEF HInv, HandleTypeOK, HandlesAreOwned
<1>7. FlushedIsDurable' /\ CleanEndIsDurable' /\ EndIsQuiet'
  BY <1>1 DEF HInv, FlushedIsDurable, CleanEndIsDurable, EndIsQuiet
<1>8. QED
  BY <1>2, <1>3, <1>4, <1>5, <1>6, <1>7 DEF HInv

(* The last store to close leaves what is pending to the flush it spawns,  *)
(* or fails to close, which nobody is told.                                *)
LEMMA CloseReturnPreserves ==
  ASSUME HInv, NEW v \in Values, NEW result, CloseReturn(v, result)
  PROVE  HInv'
<1>1. /\ v \in closing /\ value[v] = "dropping" /\ proc \notin {"shutting down", "finalized"}
      /\ closing' = closing \ {v} /\ value' = [value EXCEPT ![v] = "gone"]
      /\ UNCHANGED <<source, flushing, written, disk, told, proc>>
  BY DEF CloseReturn, HInv, DropsWait, EndIsQuiet, AllGone
<1>2. \/ /\ open' = open \ {v} /\ broken' = broken /\ unheard' = unheard
         /\ spawned' = IF v \in Stores /\ Pending # {} THEN spawned \cup {Pending} ELSE spawned
      \/ open' = open /\ broken' = broken \cup {v} /\ unheard' = TRUE /\ spawned' = spawned
  BY DEF CloseReturn
<1>3. Pending \subseteq written /\ Pending \in SUBSET Writes
  BY DEF HInv, HandleTypeOK, Pending
<1>4. HandleTypeOK'
  BY <1>1, <1>2, <1>3 DEF HInv, HandleTypeOK
<1>5. DropsWait'
  BY <1>1 DEF HInv, HandleTypeOK, DropsWait
<1>6. FlushesBorrow'
  <2>1. UNION spawned' \subseteq written
    BY <1>2, <1>3 DEF HInv, FlushesBorrow
  <2>2. QED
    BY <1>1, <2>1 DEF HInv, HandleTypeOK, FlushesBorrow, Values
<1>7. PendingIsOwned'
  <2>1. Pending' = Pending
    BY <1>1 DEF Pending
  <2>2. CASE v \in Stores
    BY <1>2, <2>1, <2>2 DEF PendingIsOwned
  <2>3. CASE v \notin Stores
    BY <1>1, <1>2, <2>1, <2>3 DEF HInv, HandleTypeOK, PendingIsOwned, Alive, Values
  <2>4. QED
    BY <2>2, <2>3
<1>8. HandlesAreOwned'
  BY <1>1, <1>2 DEF HInv, HandleTypeOK, HandlesAreOwned
<1>9. FlushedIsDurable' /\ CleanEndIsDurable' /\ EndIsQuiet'
  BY <1>1 DEF HInv, FlushedIsDurable, CleanEndIsDurable, EndIsQuiet
<1>10. QED
  BY <1>4, <1>5, <1>6, <1>7, <1>8, <1>9 DEF HInv

LEMMA SpawnedEndsPreserves ==
  ASSUME HInv, NEW task \in spawned, NEW result, SpawnedEnds(task, result), UNCHANGED vars
  PROVE  HInv'
<1>1. /\ spawned' = spawned \ {task}
      /\ UNCHANGED <<value, source, closing, open, broken, flushing, written, told, proc>>
      /\ unheard' = (unheard \/ result # "Ok")
  BY DEF SpawnedEnds
<1>2. /\ disk \subseteq disk' /\ disk' \subseteq disk \cup task
      /\ result = "Ok" => disk' = disk \cup task
  BY DEF SpawnedEnds
<1>3. task \subseteq written
  BY DEF HInv, FlushesBorrow
<1>4. HandleTypeOK'
  BY <1>1, <1>2, <1>3 DEF HInv, HandleTypeOK
<1>5. DropsWait' /\ HandlesAreOwned' /\ FlushesBorrow'
  BY <1>1 DEF HInv, DropsWait, HandlesAreOwned, FlushesBorrow
<1>6. EndIsQuiet'
  BY <1>1 DEF HInv, EndIsQuiet, AllGone, vars
<1>7. PendingIsOwned'
  <2>1. CASE result = "Ok" /\ ~unheard
    <3>1. Pending' = Pending \ task
      BY <1>1, <1>2, <2>1 DEF Pending
    <3>2. Pending \subseteq UNION spawned => Pending' \subseteq UNION spawned'
      BY <1>1, <3>1
    <3>3. QED
      BY <1>1, <3>2 DEF HInv, PendingIsOwned, Alive
  <2>2. CASE ~(result = "Ok" /\ ~unheard)
    BY <1>1, <2>2 DEF PendingIsOwned
  <2>3. QED
    BY <2>1, <2>2
<1>8. FlushedIsDurable' /\ CleanEndIsDurable'
  BY <1>1, <1>2 DEF HInv, HandleTypeOK, FlushedIsDurable, CleanEndIsDurable
<1>9. QED
  BY <1>4, <1>5, <1>6, <1>7, <1>8 DEF HInv

(* The end: shutdown, its return, and an exit at any time.                 *)
LEMMA EndPreserves ==
  ASSUME HInv, Shutdown \/ ShutdownReturn \/ Exit, UNCHANGED vars
  PROVE  HInv'
<1>1. CASE Shutdown
  <2>1. /\ AllGone /\ proc' = "shutting down" /\ open' = {}
        /\ spawned \subseteq spawned' /\ spawned' \subseteq spawned \cup {Pending}
        /\ UNCHANGED <<value, source, closing, broken, flushing, written, disk, told, unheard>>
    BY <1>1 DEF Shutdown
  <2>2. Pending \subseteq written /\ Pending \in SUBSET Writes
    BY DEF HInv, HandleTypeOK, Pending
  <2>3. HandleTypeOK'
    BY <2>1, <2>2 DEF HInv, HandleTypeOK
  <2>4. DropsWait' /\ HandlesAreOwned' /\ EndIsQuiet'
    BY <2>1 DEF HInv, DropsWait, HandlesAreOwned, EndIsQuiet, AllGone, vars
  <2>5. FlushesBorrow'
    BY <2>1, <2>2 DEF HInv, FlushesBorrow
  <2>6. PendingIsOwned'
    <3>1. ~Alive /\ proc # "exited"
      BY <1>1, <2>1 DEF Alive, AllGone, Values, Shutdown
    <3>2. QED
      BY <2>1, <3>1 DEF HInv, PendingIsOwned, Pending
  <2>7. FlushedIsDurable' /\ CleanEndIsDurable'
    BY <2>1 DEF HInv, FlushedIsDurable, CleanEndIsDurable
  <2>8. QED
    BY <2>3, <2>4, <2>5, <2>6, <2>7 DEF HInv
<1>2. CASE ShutdownReturn
  <2>1. /\ proc = "shutting down" /\ proc' = "finalized"
        /\ unheard' = (unheard \/ spawned # {})
        /\ UNCHANGED <<value, source, closing, open, broken, flushing, spawned, written, disk, told>>
    BY <1>2 DEF ShutdownReturn
  <2>2. HandleTypeOK'
    BY <2>1 DEF HInv, HandleTypeOK
  <2>3. DropsWait' /\ HandlesAreOwned' /\ FlushesBorrow' /\ FlushedIsDurable'
    BY <2>1 DEF HInv, DropsWait, HandlesAreOwned, FlushesBorrow, FlushedIsDurable
  <2>4. AllGone /\ EndIsQuiet'
    BY <2>1 DEF HInv, EndIsQuiet, AllGone, vars
  <2>5. PendingIsOwned'
    BY <2>1 DEF HInv, PendingIsOwned, Pending, Alive
  <2>6. CleanEndIsDurable'
    <3>1. ~Alive
      BY <2>4 DEF Alive, AllGone, Values
    <3>2. ~unheard' => ~unheard /\ spawned = {}
      BY <2>1 DEF HInv, HandleTypeOK
    <3>3. ~unheard' => Pending \subseteq {}
      BY <2>1, <3>1, <3>2 DEF HInv, PendingIsOwned
    <3>4. QED
      BY <2>1, <3>3 DEF CleanEndIsDurable, Pending
  <2>7. QED
    BY <2>2, <2>3, <2>4, <2>5, <2>6 DEF HInv
<1>3. CASE Exit
  <2>1. /\ proc' = "exited" /\ spawned' = {}
        /\ UNCHANGED <<value, source, closing, open, broken, flushing, written, disk, told, unheard>>
    BY <1>3 DEF Exit
  <2>2. HandleTypeOK'
    BY <2>1 DEF HInv, HandleTypeOK
  <2>3. DropsWait' /\ HandlesAreOwned' /\ FlushesBorrow' /\ FlushedIsDurable'
    BY <2>1 DEF HInv, DropsWait, HandlesAreOwned, FlushesBorrow, FlushedIsDurable
  <2>4. EndIsQuiet' /\ PendingIsOwned' /\ CleanEndIsDurable'
    BY <2>1 DEF EndIsQuiet, PendingIsOwned, CleanEndIsDurable
  <2>5. QED
    BY <2>2, <2>3, <2>4 DEF HInv
<1>4. QED
  BY <1>1, <1>2, <1>3

(* A step of load's, while the process runs, or of the build script's.     *)
LEMMA OthersPreserve ==
  ASSUME HInv, UNCHANGED handleVars, proc = "running" \/ UNCHANGED vars
  PROVE  HInv'
<1>1. /\ value' = value /\ source' = source /\ closing' = closing /\ open' = open
      /\ broken' = broken /\ flushing' = flushing /\ spawned' = spawned
      /\ written' = written /\ disk' = disk /\ told' = told
      /\ unheard' = unheard /\ proc' = proc
  BY DEF handleVars
<1>2. HandleTypeOK'
  BY <1>1 DEF HInv, HandleTypeOK
<1>3. EndIsQuiet'
  BY <1>1 DEF HInv, EndIsQuiet, AllGone, vars
<1>4. DropsWait' /\ FlushesBorrow' /\ PendingIsOwned'
  BY <1>1 DEF HInv, DropsWait, FlushesBorrow, PendingIsOwned, Pending, Alive
<1>5. FlushedIsDurable' /\ CleanEndIsDurable' /\ HandlesAreOwned'
  BY <1>1 DEF HInv, FlushedIsDurable, CleanEndIsDurable, HandlesAreOwned
<1>6. QED
  BY <1>2, <1>3, <1>4, <1>5 DEF HInv

LEMMA HandlesStep == HInv /\ [ProcessNext]_<<vars, fetchVars, handleVars>> => HInv'
<1> SUFFICES ASSUME HInv, [ProcessNext]_<<vars, fetchVars, handleVars>> PROVE HInv'
  OBVIOUS
<1>1. CASE Handles /\ UNCHANGED vars
  <2>1. ASSUME NEW s \in Stores, OpenStore(s) PROVE HInv'
    BY <2>1, OpeningPreserves DEF OpenStore, HInv, HandleTypeOK, Values
  <2>2. ASSUME NEW s \in Stores, NEW t \in Trees, LoadTree(t, s) PROVE HInv'
    <3>1. source' \in [Trees -> Stores \cup {None}]
      BY <2>2 DEF LoadTree, HInv, HandleTypeOK
    <3>2. QED
      BY <2>2, <3>1, OpeningPreserves DEF LoadTree, Values
  <2>3. ASSUME NEW s \in Stores,
               \/ FlushBegin(s)
               \/ \E result \in {"Ok", "Call"} : FlushReturn(s, result)
               \/ \E w \in Writes : Put(s, w)
        PROVE  HInv'
    BY <2>3, FlushBeginPreserves, FlushReturnPreserves, PutPreserves
  <2>4. ASSUME NEW v \in Values,
               \/ LoreOpened(v) \/ Drop(v)
               \/ \E result \in {"Ok", "Call"} : OpenReturn(v, result) \/ CloseReturn(v, result)
        PROVE  HInv'
    BY <2>4, LoreOpenedPreserves, DropPreserves, OpenReturnPreserves, CloseReturnPreserves
  <2>5. ASSUME NEW task \in spawned, NEW result \in {"Ok", "Call"}, SpawnedEnds(task, result)
        PROVE  HInv'
    BY <1>1, <2>5, SpawnedEndsPreserves
  <2>6. CASE Shutdown \/ ShutdownReturn \/ Exit
    BY <1>1, <2>6, EndPreserves
  <2>7. QED
    BY <1>1, <2>1, <2>2, <2>3, <2>4, <2>5, <2>6 DEF Handles
<1>2. CASE UNCHANGED handleVars /\ (proc = "running" \/ UNCHANGED vars)
  BY <1>2, OthersPreserve
<1>3. QED
  BY <1>1, <1>2 DEF ProcessNext

-----------------------------------------------------------------------------
(***************************************************************************)
(* What a program does with the library, whatever else it does, is what    *)
(* LibraryLoad allows: everything proved about load holds of a program     *)
(* that fetches, opens, drops and shuts down around it.                    *)
(***************************************************************************)
THEOREM ProgramsOnlyLoad == ProcessSpec => Spec
<1>1. ProcessInit => Init
  BY DEF ProcessInit
<1>2. [ProcessNext]_<<vars, fetchVars, handleVars>> => [Next]_vars
  BY DEF ProcessNext
<1>3. QED
  BY <1>1, <1>2, PTL DEF ProcessSpec, Spec

(***************************************************************************)
(* The inductive invariant of the handles and of what is pending.          *)
(***************************************************************************)
THEOREM HandlesInvariance == ProcessSpec => []HInv
<1>1. QED
  BY HandlesInit, HandlesStep, PTL DEF ProcessSpec

(***************************************************************************)
(* The inductive invariant of the build script: a whole archive before an  *)
(* extraction, the release's library after it.                             *)
(***************************************************************************)
THEOREM FetchInvariance == ProcessSpec => []FInv
<1>1. ProcessInit => FInv
  BY FetchSteps DEF ProcessInit
<1>2. [ProcessNext]_<<vars, fetchVars, handleVars>> => [FetchNext]_fetchVars
  BY DEF ProcessNext
<1>3. FInv /\ [ProcessNext]_<<vars, fetchVars, handleVars>> => FInv'
  BY <1>2, FetchSteps
<1>4. QED
  BY <1>1, <1>3, PTL DEF ProcessSpec

(***************************************************************************)
(* The type invariant of a program, its build and its libraries.           *)
(***************************************************************************)
THEOREM ProcessTypeCorrect == ProcessSpec => []ProcessTypeOK
<1>1. FInv /\ HInv /\ TypeOK => ProcessTypeOK
  BY DEF FInv, HInv, ProcessTypeOK
<1>2. QED
  BY <1>1, ProgramsOnlyLoad, TypeCorrect, HandlesInvariance, FetchInvariance, PTL

(***************************************************************************)
(* fetch_binary returns the path of the release it was asked for, after    *)
(* any number of failed or killed attempts.                                *)
(***************************************************************************)
THEOREM FetchesTheRelease == ProcessSpec => []FetchedIsTheRelease
<1>1. FInv => FetchedIsTheRelease
  BY DEF FInv
<1>2. QED
  BY <1>1, FetchInvariance, PTL

(***************************************************************************)
(* A program's loads hand out one library, and it stays mapped.            *)
(***************************************************************************)
THEOREM ProgramsUseOneLibrary == ProcessSpec => [](OneLibrary /\ UsedIsMapped)
<1>1. QED
  BY ProgramsOnlyLoad, LoadsHandOutOneLibrary, CalledIntoIsMapped, PTL

(***************************************************************************)
(* What a flush answered Ok about survives the process.                    *)
(***************************************************************************)
THEOREM FlushesAreDurable == ProcessSpec => []FlushedIsDurable
<1>1. HInv => FlushedIsDurable
  BY DEF HInv
<1>2. QED
  BY <1>1, HandlesInvariance, PTL

(***************************************************************************)
(* A program that drops every handle and then shuts down has everything it *)
(* wrote on disk, unless a close, a spawned flush or the wait for one      *)
(* failed without anybody being told.                                      *)
(***************************************************************************)
THEOREM CleanEndsAreDurable == ProcessSpec => []CleanEndIsDurable
<1>1. HInv => CleanEndIsDurable
  BY DEF HInv
<1>2. QED
  BY <1>1, HandlesInvariance, PTL

(***************************************************************************)
(* A handle is open exactly as long as its value lives, a failed open or   *)
(* close apart.                                                            *)
(***************************************************************************)
THEOREM HandlesHaveOwners == ProcessSpec => []HandlesAreOwned
<1>1. HInv => HandlesAreOwned
  BY DEF HInv
<1>2. QED
  BY <1>1, HandlesInvariance, PTL

(***************************************************************************)
(* A program that keeps shutdown's contract has no call left in Lore when  *)
(* it is finalized.                                                        *)
(***************************************************************************)
THEOREM EndsAreQuiet == ProcessSpec => []NoCallIntoAFinalizedLore
<1>1. HInv => NoCallIntoAFinalizedLore
  <2>1. SUFFICES ASSUME HInv, proc \in {"shutting down", "finalized"}
                 PROVE  /\ closing = {}
                        /\ \A v \in Values : value[v] \notin {"opening", "dropping"}
                        /\ \A s \in Stores : flushing[s] = None
                        /\ \A c \in Callers : pc[c] # "binding"
    BY DEF NoCallIntoAFinalizedLore
  <2>2. AllGone
    BY <2>1 DEF HInv, EndIsQuiet
  <2>3. closing = {} /\ \A v \in Values : value[v] \notin {"opening", "dropping"}
    BY <2>1, <2>2 DEF HInv, DropsWait, AllGone
  <2>4. \A s \in Stores : flushing[s] = None
    BY <2>1, <2>2 DEF HInv, FlushesBorrow, AllGone, Values
  <2>5. QED
    BY <2>2, <2>3, <2>4 DEF AllGone
<1>2. QED
  BY <1>1, HandlesInvariance, PTL
=============================================================================
