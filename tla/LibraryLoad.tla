---------------------------- MODULE LibraryLoad ----------------------------
(***************************************************************************)
(* library.rs's load: the process's one Lore, parked in a static OnceLock. *)
(* Any thread may call it at any time with a path of its own; the threads  *)
(* race between looking at the static, opening the library and publishing  *)
(* it.  A Lore owns the libloading::Library it came from, so a Lore that   *)
(* is dropped closes that library; the loader counts the opens of an image *)
(* and unmaps it when the last one is closed.                              *)
(***************************************************************************)
EXTENDS Integers, FiniteSets

CONSTANTS
  Callers,   \* threads that call load
  Paths,     \* the paths they call it with
  Images,    \* the shared libraries those paths lead to
  ImageOf,   \* ImageOf[path]: two paths may lead to one image
  Complete,  \* the images that have every function the bindings name
  None

ASSUME LoadAssumption ==
  /\ IsFiniteSet(Callers)
  /\ ImageOf \in [Paths -> Images]
  /\ Complete \subseteq Images
  /\ None \notin Images

VARIABLES
  lore,    \* LORE, the static: the image of the Lore parked in it, or None
  opens,   \* the loader's count of opens, by image
  pc,      \* where each thread is in load
  own,     \* the image of the Lore a thread has built and not yet given away
  given    \* every image load has handed out a `&'static Lore` of

vars == <<lore, opens, pc, own, given>>

-----------------------------------------------------------------------------
TypeOK ==
  /\ lore \in Images \cup {None}
  /\ opens \in [Images -> Nat]
  /\ pc \in [Callers -> {"idle", "loading", "binding", "loaded", "lost"}]
  /\ own \in [Callers -> Images \cup {None}]
  /\ given \subseteq Images

Init ==
  /\ lore = None
  /\ opens = [i \in Images |-> 0]
  /\ pc = [c \in Callers |-> "idle"]
  /\ own = [c \in Callers |-> None]
  /\ given = {}

(* LORE.get(): the library is there, or this thread sets out to load it.   *)
Get(c) ==
  /\ pc[c] = "idle"
  /\ IF lore # None
     THEN given' = given \cup {lore} /\ UNCHANGED pc
     ELSE pc' = [pc EXCEPT ![c] = "loading"] /\ UNCHANGED given
  /\ UNCHANGED <<lore, opens, own>>

(* lore_sys::Lore::new(path): the loader maps the image, or counts one     *)
(* open more of it.                                                        *)
Open(c, path) ==
  /\ pc[c] = "loading"
  /\ opens' = [opens EXCEPT ![ImageOf[path]] = @ + 1]
  /\ own' = [own EXCEPT ![c] = ImageOf[path]]
  /\ pc' = [pc EXCEPT ![c] = "binding"]
  /\ UNCHANGED <<lore, given>>

(* There is no such library: LoreError::Load, and a later call tries again.*)
OpenFails(c) ==
  /\ pc[c] = "loading"
  /\ pc' = [pc EXCEPT ![c] = "idle"]
  /\ UNCHANGED <<lore, opens, own, given>>

(* Each function is looked up; the first one missing fails the load and    *)
(* closes the library again.  A complete one is asked for its version.     *)
Bind(c) ==
  /\ pc[c] = "binding"
  /\ IF own[c] \in Complete
     THEN pc' = [pc EXCEPT ![c] = "loaded"] /\ UNCHANGED <<opens, own>>
     ELSE /\ opens' = [opens EXCEPT ![own[c]] = @ - 1]
          /\ own' = [own EXCEPT ![c] = None]
          /\ pc' = [pc EXCEPT ![c] = "idle"]
  /\ UNCHANGED <<lore, given>>

(* Variant: the static is set again by whoever comes last.                 *)
GetOrInitOverwrites(c) ==
  /\ pc[c] = "loaded"
  /\ lore' = own[c]
  /\ own' = [own EXCEPT ![c] = None]
  /\ pc' = [pc EXCEPT ![c] = "idle"]
  /\ given' = given \cup {lore'}
  /\ UNCHANGED opens

(* LORE.get_or_init(|| lore): the first thread parks its Lore; one that is *)
(* late gets that one back and still holds its own in the unused closure.  *)
GetOrInit(c) ==
  /\ pc[c] = "loaded"
  /\ IF lore = None
     THEN /\ lore' = own[c]
          /\ own' = [own EXCEPT ![c] = None]
          /\ pc' = [pc EXCEPT ![c] = "idle"]
     ELSE /\ pc' = [pc EXCEPT ![c] = "lost"]
          /\ UNCHANGED <<lore, own>>
  /\ given' = given \cup {lore'}
  /\ UNCHANGED opens

(* Variant: the static's Lore is let go of instead of the thread's own.    *)
DropLoserClosesParked(c) ==
  /\ pc[c] = "lost"
  /\ opens' = [opens EXCEPT ![lore] = @ - 1]
  /\ own' = [own EXCEPT ![c] = None]
  /\ pc' = [pc EXCEPT ![c] = "idle"]
  /\ UNCHANGED <<lore, given>>

(* Variant: the library is closed twice.                                   *)
DropLoserTwice(c) ==
  /\ pc[c] = "lost"
  /\ opens' = [opens EXCEPT ![own[c]] = @ - 2]
  /\ own' = [own EXCEPT ![c] = None]
  /\ pc' = [pc EXCEPT ![c] = "idle"]
  /\ UNCHANGED <<lore, given>>

(* The closure is dropped with that Lore in it, which closes its library.  *)
DropLoser(c) ==
  /\ pc[c] = "lost"
  /\ opens' = [opens EXCEPT ![own[c]] = @ - 1]
  /\ own' = [own EXCEPT ![c] = None]
  /\ pc' = [pc EXCEPT ![c] = "idle"]
  /\ UNCHANGED <<lore, given>>

Next ==
  \E c \in Callers :
    \/ Get(c)
    \/ \E path \in Paths : Open(c, path)
    \/ OpenFails(c)
    \/ Bind(c)
    \/ GetOrInit(c)
    \/ DropLoser(c)

Spec == Init /\ [][Next]_vars

-----------------------------------------------------------------------------
(***************************************************************************)
(* Every call that succeeds, on whichever thread and with whichever path,  *)
(* hands out the same library: handles made through one caller's &Lore can *)
(* be used through another's.                                              *)
(***************************************************************************)
OneLibrary == \A image \in given : image = lore

(***************************************************************************)
(* A library that is called into is mapped: one a `&'static Lore` was      *)
(* handed out of for good, however many late threads open and close it     *)
(* again, as Lore's worker threads need; and one a thread has just opened, *)
(* until it has looked up its functions and asked for its version.         *)
(***************************************************************************)
UsedIsMapped ==
  /\ \A image \in given : opens[image] > 0
  /\ \A c \in Callers : own[c] # None => opens[own[c]] > 0

(***************************************************************************)
(* The loader has counted as many opens of an image as there are Lores     *)
(* made from it: the parked one and those threads still hold.  No failed   *)
(* or late load leaks an open, and none closes what it did not open.       *)
(***************************************************************************)
Holders(image) == {c \in Callers : own[c] = image}
Parked(image) == IF lore = image THEN 1 ELSE 0

OpensAreCounted == \A image \in Images : opens[image] = Cardinality(Holders(image)) + Parked(image)

(* A thread holds a Lore exactly between opening it and giving it away,    *)
(* and loses the race only to a Lore that is parked.                       *)
HoldsWhileLoading ==
  \A c \in Callers :
    /\ own[c] = None <=> pc[c] \in {"idle", "loading"}
    /\ pc[c] = "lost" => lore # None

(* The inductive invariant the theorems about load rest on.                *)
IInv == TypeOK /\ HoldsWhileLoading /\ OneLibrary /\ OpensAreCounted

(***************************************************************************)
(* library.rs's docs: "The library is never unloaded".  It holds as long   *)
(* as the racing first callers mean the same image; a caller that loses    *)
(* the race with another image unloads it.                                 *)
(***************************************************************************)
NeverUnloaded == [][\A image \in Images : opens[image] > 0 => opens'[image] > 0]_vars
=============================================================================
