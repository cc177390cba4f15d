---------------------------- MODULE RevisionTree ----------------------------
(***************************************************************************)
(* One RevisionTree from load to drop: the handle Lore opens for it, the   *)
(* lookups through it and the node ids they hand to the caller.  A node id *)
(* is a number that means a node of one tree only, and Lore follows a path *)
(* through a sub-repository link into the tree the link targets, so what   *)
(* a lookup answers with may be a number of another tree.                  *)
(*                                                                         *)
(* The trees are constants: Lore holds them, and a revision never changes. *)
(* A path is the sequence of the positions its names have in the listings  *)
(* it goes through.                                                        *)
(***************************************************************************)
EXTENDS LoreOutcome, Sequences, SequencesExt, FiniteSets

CONSTANTS
  Trees,       \* trees Lore can reach, each [repository, revision]
  Own,         \* the one that is loaded
  Below,       \* Below[t][n]: the node ids a node lists, in order
  Target,      \* Target[t][n]: the tree a link node leads to, None for others
  Paths,       \* the paths callers ask for
  Root         \* NodeId::ROOT

NodeIds(t) == DOMAIN Below[t]

(* A node as Lore means it; the caller gets no more of it than its id.     *)
Node(t, n) == [tree |-> t, id |-> n]
Nodes == UNION {{Node(t, n) : n \in NodeIds(t)} : t \in Trees}

Lookups == {"resolve_path", "children", "node", "path_of", "info"}

PathRequests == [verb : {"resolve_path"}, at : Paths]
NodeRequests == [verb : Lookups \ {"resolve_path"}, at : Nodes]

ASSUME TreeAssumption ==
  /\ Own \in Trees
  /\ \A t \in Trees :
       /\ t = [repository |-> t.repository, revision |-> t.revision]
       /\ Root \in NodeIds(t) /\ NodeIds(t) \subseteq Nat
       \* a revision cannot hold its own hash, so no link is to its own tree
       /\ \A n \in NodeIds(t) : /\ Below[t][n] \in Seq(NodeIds(t))
                                /\ Target[t][n] \in (Trees \ {t}) \cup {None}
                                /\ Target[t][n] # None => Below[t][n] = << >>
  /\ None \notin Trees /\ None \notin Nodes /\ None \notin Paths
  /\ None \notin PathRequests /\ None \notin NodeRequests
  /\ \A p \in Paths : p \in Seq(Nat)

VARIABLES
  tree,     \* the Rust value: "unloaded", "loading", "live", "gone"
  handle,   \* load's captured handle: TRUE once reported
  request,  \* the lookup in progress: [verb, at], None between lookups
  via,      \* the path of the node_at it is made for, or None
  outcome,  \* its captured event: [node, code], None before it
  children, \* the children captured so far
  sent,     \* Lore's side of a listing: how many children it has sent
  garbled,  \* whether one of them had a name that is not UTF-8
  known,    \* the nodes the caller has the ids of
  answer    \* what the last lookup answered, [to, via, result], None before

vars == <<tree, handle, request, via, outcome, children, sent, garbled, known, answer>>

TypeOK ==
  /\ tree \in {"unloaded", "loading", "live", "gone"}
  /\ handle \in BOOLEAN /\ garbled \in BOOLEAN
  /\ request \in PathRequests \cup NodeRequests \cup {None}
  /\ via \in Paths \cup {None}
  /\ outcome \in [node : Nodes \cup {None}, code : RawCodes] \cup {None}
  /\ children \in Seq(Nodes)
  /\ sent \in Nat
  /\ known \subseteq Nodes

Init ==
  /\ tree = "unloaded"
  /\ handle = FALSE
  /\ request = None /\ via = None /\ outcome = None
  /\ children = << >> /\ sent = 0 /\ garbled = FALSE
  /\ known = {}
  /\ answer = None

lookup == <<request, via, outcome, children, sent, garbled, known, answer>>

-----------------------------------------------------------------------------
(* load: the handle is captured from an event and kept if the call is Ok.  *)
LoadBegin ==
  /\ tree = "unloaded"
  /\ tree' = "loading"
  /\ UNCHANGED <<handle, lookup>>

LoreLoaded ==
  /\ tree = "loading"
  /\ ~handle
  /\ handle' = TRUE
  /\ UNCHANGED <<tree, lookup>>

(* With the handle missing or the call failed no value is made of it.      *)
LoadReturn(result) ==
  /\ tree = "loading"
  /\ tree' = IF result = "Ok" /\ handle THEN "live" ELSE "gone"
  /\ known' = IF tree' = "live" THEN {Node(Own, Root)} ELSE {}
  /\ UNCHANGED <<handle, request, via, outcome, children, sent, garbled, answer>>

(* Drop: the close is made once, whatever it returns.  A lookup borrows    *)
(* the value, so none is in progress.                                      *)
Drop ==
  /\ tree = "live"
  /\ request = None
  /\ tree' = "gone"
  /\ known' = {}
  /\ answer' = None
  /\ UNCHANGED <<handle, request, via, outcome, children, sent, garbled>>

-----------------------------------------------------------------------------
(* One call of Lore, with nothing captured of its events yet.              *)
Begin(verb, at) ==
  /\ request' = [verb |-> verb, at |-> at]
  /\ outcome' = None
  /\ children' = << >> /\ sent' = 0 /\ garbled' = FALSE

(* A lookup begins; of a node, the caller passes the id it has.            *)
Ask(verb, at) ==
  /\ tree = "live"
  /\ request = None
  /\ Begin(verb, at)
  /\ via' = None
  /\ UNCHANGED <<tree, handle, known, answer>>

AskNodeAt(path) ==
  /\ tree = "live"
  /\ request = None
  /\ Begin("resolve_path", path)
  /\ via' = path
  /\ UNCHANGED <<tree, handle, known, answer>>

(* Lore: where a node leads to when it is gone through, or listed.         *)
Through(node) ==
  IF Target[node.tree][node.id] = None THEN node
  ELSE Node(Target[node.tree][node.id], Root)

Step(node, position) ==
  IF node = None THEN None
  ELSE LET at == Through(node)
       IN  IF position \in DOMAIN Below[at.tree][at.id]
           THEN Node(at.tree, Below[at.tree][at.id][position])
           ELSE None

(* A path that ends at a link may be reported as the link or its target.   *)
Ends(path) ==
  LET end == FoldLeft(Step, Node(Own, Root), path)
  IN  IF end = None THEN {} ELSE {end, Through(end)}

(* What Lore may answer a request with.                                    *)
Subjects ==
  CASE request.verb = "resolve_path" -> Ends(request.at)
    [] request.verb = "children"     -> {Through(Node(Own, request.at.id))}
    [] OTHER                         -> {Node(Own, request.at.id)}

(* Variant: the code is decoded before it is captured, a success to None.  *)
LoreAnswerDecoded(node, code) ==
  /\ request # None
  /\ outcome = None
  /\ IF code = NoError THEN node # None /\ node \in Subjects ELSE node = None
  /\ outcome' = [node |-> node, code |-> FromRaw(code)]
  /\ UNCHANGED <<tree, handle, request, via, children, sent, garbled, known, answer>>

(* The event that answers, or begins a listing: it names the tree.         *)
LoreAnswer(node, code) ==
  /\ request # None
  /\ outcome = None
  /\ IF code = NoError THEN node # None /\ node \in Subjects ELSE node = None
  /\ outcome' = [node |-> node, code |-> code]
  /\ UNCHANGED <<tree, handle, request, via, children, sent, garbled, known, answer>>

(* The children of a listing, in order; one that does not decode is passed *)
(* over.                                                                   *)
LoreChild(decodes) ==
  /\ request # None /\ request.verb = "children"
  /\ outcome # None /\ outcome.code = NoError
  /\ LET listed == Below[outcome.node.tree][outcome.node.id]
     IN  /\ sent < Len(listed)
         /\ children' = IF decodes THEN Append(children, Node(outcome.node.tree, listed[sent + 1]))
                                   ELSE children
  /\ sent' = sent + 1
  /\ garbled' = (garbled \/ ~decodes)
  /\ UNCHANGED <<tree, handle, request, via, outcome, known, answer>>

InvalidResponse == [is |-> "InvalidResponse"]

(* Variant: another revision of the same repository is let through.        *)
ExpectOwnTreeRepository(t) ==
  IF t.repository = Own.repository THEN Ok(None) ELSE InvalidResponse

(* expect_own_tree.                                                        *)
ExpectOwnTree(t) ==
  IF t.repository = Own.repository /\ t.revision = Own.revision THEN Ok(None) ELSE InvalidResponse

(* Variant: a listing is handed out as far as it got.                      *)
FinishPartial(result) ==
  IF outcome = None THEN Unreported(result, "event")
  ELSE IF FromRaw(outcome.code) # None THEN Failed(outcome.code)
  ELSE IF request.verb \in {"resolve_path", "children"} /\ ~IsOk(ExpectOwnTree(outcome.node.tree))
       THEN InvalidResponse
  ELSE Ok(IF request.verb = "children" THEN children ELSE outcome.node)

(* The end of a lookup: the item's code, the call, the event missing, the  *)
(* tree it is about (which node, path_of and info do not compare).         *)
Finish(result) ==
  LET resolved == Resolve(result, IF outcome = None THEN None ELSE outcome.code)
  IN  IF ~IsOk(resolved) THEN resolved
      ELSE IF outcome = None THEN MissingEvent("event")
      ELSE IF request.verb \in {"resolve_path", "children"} /\ ~IsOk(ExpectOwnTree(outcome.node.tree))
           THEN InvalidResponse
      ELSE Ok(IF request.verb = "children" THEN children ELSE outcome.node)

(* The nodes the caller learns the ids of from an answer.                  *)
Learned(result) ==
  IF ~IsOk(result) THEN {}
  ELSE CASE request.verb = "resolve_path" -> {result.value}
         [] request.verb = "children"     -> ToSet(result.value)
         [] OTHER                         -> {}

(* A call that succeeds has sent all of its events.                        *)
MayReturn(result) ==
  /\ request # None
  /\ result = "Ok" /\ outcome # None =>
       /\ outcome.code = NoError
       /\ request.verb = "children" => sent = Len(Below[outcome.node.tree][outcome.node.id])

(* node_at's path is resolved, and the node looked up by the id it got.    *)
HalfWay(result) == via # None /\ request.verb = "resolve_path" /\ IsOk(Finish(result))

NodeAtGoesOn(result) ==
  /\ MayReturn(result)
  /\ HalfWay(result)
  /\ Begin("node", Finish(result).value)
  /\ UNCHANGED <<tree, handle, via, known, answer>>

(* The lookup answers; node_at keeps the id it went by to itself.          *)
LoreReturn(result) ==
  /\ MayReturn(result)
  /\ ~HalfWay(result)
  /\ answer' = [to |-> request, via |-> via, result |-> Finish(result)]
  /\ known' = known \cup Learned(Finish(result))
  /\ request' = None /\ via' = None
  /\ outcome' = None
  /\ UNCHANGED <<tree, handle, children, sent, garbled>>

Next ==
  \/ LoadBegin
  \/ LoreLoaded
  \/ \E result \in CallResults : LoadReturn(result)
  \/ Drop
  \/ \E path \in Paths : Ask("resolve_path", path) \/ AskNodeAt(path)
  \/ \E verb \in {"children", "node", "path_of"}, node \in known : Ask(verb, node)
  \/ Ask("info", Node(Own, Root))
  \/ \E node \in Nodes \cup {None}, code \in RawCodes : LoreAnswer(node, code)
  \/ \E decodes \in BOOLEAN : LoreChild(decodes)
  \/ \E result \in CallResults : NodeAtGoesOn(result) \/ LoreReturn(result)

Spec == Init /\ [][Next]_vars

-----------------------------------------------------------------------------
(***************************************************************************)
(* Every node id the caller ever has from this tree is the id of a node of *)
(* this tree, whatever links its paths and listings ran into: the ids of a *)
(* link's target "mean nothing to this handle" (RevisionTree's doc), and   *)
(* would be looked up as whichever node has that number here.  A node_at,  *)
(* which is such a lookup, describes the node its path leads to.           *)
(***************************************************************************)
NodesAreTheTreesOwn ==
  /\ \A node \in known : node.tree = Own
  /\ answer # None /\ answer.via # None /\ IsOk(answer.result) =>
       answer.result.value \in Ends(answer.via)

Ids(nodes) == [i \in DOMAIN nodes |-> nodes[i].id]

(* Some of a sequence's elements, in its order.                            *)
PartOf(some, all) ==
  \A i, j \in DOMAIN some : \E k, l \in DOMAIN all :
    some[i] = all[k] /\ some[j] = all[l] /\ (i < j => k < l)

(***************************************************************************)
(* A listing that is handed out holds the directory's children, all of     *)
(* them unless a name did not decode, and in Lore's order: never those a   *)
(* failing call had got to.                                                *)
(***************************************************************************)
ListingIsWhole ==
  answer # None /\ IsOk(answer.result) /\ answer.to.verb = "children" =>
    /\ PartOf(Ids(answer.result.value), Below[Own][answer.to.at.id])
    /\ request = None /\ ~garbled => Ids(answer.result.value) = Below[Own][answer.to.at.id]
=============================================================================
