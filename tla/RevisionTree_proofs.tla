------------------------ MODULE RevisionTree_proofs ------------------------
(***************************************************************************)
(* Proofs about RevisionTree, for any trees, links, paths and codes.  The  *)
(* argument: what Lore answers is the request's subject, the check of its  *)
(* tree lets through only what lies in the tree itself, so every id that   *)
(* is handed out, and every id a node_at goes by, is one of this tree's.   *)
(***************************************************************************)
EXTENDS RevisionTree, TLAPS

USE OutcomeAssumption, TreeAssumption

Asks(verb) == request # None /\ request.verb = verb

(* A lookup of a node is of a node of this tree.                           *)
AskedIsOwn == request # None /\ ~Asks("resolve_path") => request.at.tree = Own

(* What a captured event answers is the request's subject.                 *)
AnswersTheRequest ==
  request # None /\ outcome # None =>
    IF outcome.code = NoError THEN outcome.node # None /\ outcome.node \in Subjects
                              ELSE outcome.node = None

(* A node_at is at its path, or at a node its path leads to.               *)
NodeAtIsOnItsWay ==
  via # None /\ request # None =>
    \/ request.verb = "resolve_path" /\ request.at = via
    \/ request.verb = "node" /\ request.at \in Ends(via)

(* Captured children are those sent, in order, but for garbled ones.       *)
Listed(i, k) == children[i] = Node(outcome.node.tree, Below[outcome.node.tree][outcome.node.id][k])

ChildrenAreSent ==
  Asks("children") =>
    IF outcome = None THEN children = << >> /\ sent = 0
    ELSE /\ children # << >> \/ sent > 0 => outcome.code = NoError
         /\ \A i, j \in DOMAIN children : \E k, l \in 1..sent :
              Listed(i, k) /\ Listed(j, l) /\ (i < j => k < l)
         /\ sent > 0 => sent <= Len(Below[outcome.node.tree][outcome.node.id])
         /\ ~garbled => Len(children) = sent /\ \A i \in DOMAIN children : Listed(i, i)

IInv ==
  /\ TypeOK
  /\ AskedIsOwn /\ AnswersTheRequest /\ NodeAtIsOnItsWay /\ ChildrenAreSent
  /\ NodesAreTheTreesOwn
  /\ ListingIsWhole

-----------------------------------------------------------------------------
(* Facts about nodes, requests and answers.                                *)

LEMMA NodeShape ==
  ASSUME NEW node \in Nodes
  PROVE  /\ node = Node(node.tree, node.id)
         /\ node.tree \in Trees /\ node.id \in NodeIds(node.tree)
         /\ node # None
<1>1. PICK t \in Trees : node \in {Node(t, n) : n \in NodeIds(t)}
  BY DEF Nodes
<1>2. PICK n \in NodeIds(t) : node = Node(t, n)
  BY <1>1
<1>3. QED
  BY <1>2 DEF Node

LEMMA NodeInTree ==
  ASSUME NEW t \in Trees, NEW n \in NodeIds(t)
  PROVE  Node(t, n) \in Nodes
<1> DEFINE ofTree(u) == {Node(u, m) : m \in NodeIds(u)}
<1>1. Node(t, n) \in ofTree(t)
  OBVIOUS
<1>2. Nodes = UNION {ofTree(u) : u \in Trees}
  BY DEF Nodes
<1>3. ofTree(t) \in {ofTree(u) : u \in Trees}
  OBVIOUS
<1> HIDE DEF ofTree
<1>4. QED
  BY <1>1, <1>2, <1>3

LEMMA RequestShape ==
  ASSUME TypeOK, request # None
  PROVE  /\ request.verb \in Lookups
         /\ request.verb = "resolve_path" => request.at \in Paths
         /\ request.verb # "resolve_path" => request.at \in Nodes
  BY DEF TypeOK, PathRequests, NodeRequests, Lookups

(* The check lets nothing through but this tree.                           *)
LEMMA OwnTreeOnly ==
  ASSUME NEW t \in Trees, IsOk(ExpectOwnTree(t))
  PROVE  t = Own
  BY DEF ExpectOwnTree, IsOk, InvalidResponse

(* A lookup that succeeds has captured an event that did.                  *)
LEMMA SuccessIsCaptured ==
  ASSUME TypeOK, AnswersTheRequest, request # None, NEW result \in CallResults,
         IsOk(Finish(result))
  PROVE  /\ outcome # None /\ outcome.code = NoError
         /\ outcome.node \in Subjects /\ outcome.node \in Nodes
         /\ request.verb \in {"resolve_path", "children"} => IsOk(ExpectOwnTree(outcome.node.tree))
         /\ Finish(result) = Ok(IF request.verb = "children" THEN children ELSE outcome.node)
<1> DEFINE resolved == Resolve(result, IF outcome = None THEN None ELSE outcome.code)
<1>1. IsOk(resolved)
  BY DEF Finish
<1>2. outcome # None
  BY <1>1 DEF Finish, MissingEvent, IsOk
<1>3. outcome \in [node : Nodes \cup {None}, code : RawCodes]
  BY <1>2 DEF TypeOK
<1>4. outcome.code = NoError
  BY <1>1, <1>2, <1>3 DEF Resolve, FromRaw, Failed, IsOk
<1>5. request.verb \in {"resolve_path", "children"} => IsOk(ExpectOwnTree(outcome.node.tree))
  BY <1>1, <1>2 DEF Finish, InvalidResponse, IsOk
<1>6. QED
  BY <1>1, <1>2, <1>3, <1>4, <1>5 DEF Finish, AnswersTheRequest

(* ... and what it succeeds with is a node or children of this tree.       *)
LEMMA SuccessIsOwn ==
  ASSUME IInv, request # None, NEW result \in CallResults, IsOk(Finish(result))
  PROVE  /\ request.verb # "children" => outcome.node \in Nodes /\ outcome.node.tree = Own
         /\ request.verb = "children" => outcome.node = request.at
<1>1. /\ outcome # None /\ outcome.code = NoError
      /\ outcome.node \in Subjects /\ outcome.node \in Nodes
      /\ request.verb \in {"resolve_path", "children"} => IsOk(ExpectOwnTree(outcome.node.tree))
  BY SuccessIsCaptured DEF IInv
<1>2. CASE request.verb = "resolve_path"
  BY <1>1, <1>2, NodeShape, OwnTreeOnly
<1>3. CASE request.verb # "resolve_path"
  <2>1. request.at \in Nodes /\ request.at.tree = Own
    BY <1>3, RequestShape DEF IInv, AskedIsOwn, Asks
  <2>2. /\ Node(Own, request.at.id) = request.at
        /\ request.at.id \in NodeIds(Own)
    BY <2>1, NodeShape
  <2>3. CASE request.verb = "children"
    <3>1. outcome.node = Through(request.at)
      BY <1>1, <2>2, <2>3 DEF Subjects
    <3>2. outcome.node.tree = Own
      BY <1>1, <2>3, NodeShape, OwnTreeOnly
    <3>3. CASE Target[Own][request.at.id] = None
      BY <3>1, <3>3, <2>1, <2>3 DEF Through
    <3>4. CASE Target[Own][request.at.id] # None
      <4>1. outcome.node.tree = Target[Own][request.at.id]
        BY <3>1, <3>4, <2>1 DEF Through, Node
      <4>2. QED
        BY <4>1, <3>2, <3>4, <2>2
    <3>5. QED
      BY <3>3, <3>4
  <2>4. CASE request.verb # "children"
    <3>1. outcome.node = request.at
      BY <1>1, <1>3, <2>2, <2>4 DEF Subjects
    <3>2. QED
      BY <3>1, <2>1, <2>4
  <2>5. QED
    BY <1>3, <2>3, <2>4
<1>4. QED
  BY <1>2, <1>3

-----------------------------------------------------------------------------
(* One lemma per action.                                                   *)

LEMMA InitEstablishes == Init => IInv
<1>1. Init => TypeOK
  <2>1. << >> \in Seq(Nodes) /\ 0 \in Nat
    OBVIOUS
  <2>2. QED
    BY <2>1, Zenon DEF Init, TypeOK
<1>2. QED
  BY <1>1 DEF Init, IInv, TypeOK, AskedIsOwn, AnswersTheRequest, NodeAtIsOnItsWay, ChildrenAreSent,
         NodesAreTheTreesOwn, ListingIsWhole, Asks

(* What does not touch the lookup in progress, the ids or the answer.      *)
LEMMA LoadPreserves ==
  ASSUME IInv, LoadBegin \/ LoreLoaded \/ UNCHANGED vars
  PROVE  IInv'
<1>1. UNCHANGED lookup /\ tree' \in {"loading", tree} /\ handle' \in BOOLEAN
  BY DEF LoadBegin, LoreLoaded, vars, lookup, IInv, TypeOK
<1>2. UNCHANGED <<request, via, outcome, children, sent, garbled, known, answer>>
  BY <1>1 DEF lookup
<1>3. TypeOK'
  BY <1>1, <1>2 DEF IInv, TypeOK
<1>4. /\ AskedIsOwn' /\ AnswersTheRequest' /\ NodeAtIsOnItsWay' /\ ChildrenAreSent'
      /\ NodesAreTheTreesOwn'
  BY <1>2 DEF IInv, AskedIsOwn, AnswersTheRequest, NodeAtIsOnItsWay, ChildrenAreSent, Listed,
              NodesAreTheTreesOwn, Asks, Subjects
<1>5. ListingIsWhole'
  BY <1>1, <1>2 DEF IInv, ListingIsWhole
<1>6. QED
  BY <1>3, <1>4, <1>5 DEF IInv

LEMMA LoadReturnPreserves ==
  ASSUME IInv, NEW result \in CallResults, LoadReturn(result)
  PROVE  IInv'
<1>1. /\ UNCHANGED <<handle, request, via, outcome, children, sent, garbled, answer>>
      /\ tree' \in {"live", "gone"} /\ known' \subseteq {Node(Own, Root)}
  BY DEF LoadReturn
<1>2. Node(Own, Root) \in Nodes /\ Node(Own, Root).tree = Own
  BY NodeInTree DEF Node
<1>3. TypeOK'
  BY <1>1, <1>2 DEF IInv, TypeOK
<1>4. /\ AskedIsOwn' /\ AnswersTheRequest' /\ NodeAtIsOnItsWay' /\ ChildrenAreSent'
  BY <1>1 DEF IInv, AskedIsOwn, AnswersTheRequest, NodeAtIsOnItsWay, ChildrenAreSent, Listed,
              Asks, Subjects
<1>5. NodesAreTheTreesOwn'
  BY <1>1, <1>2 DEF IInv, NodesAreTheTreesOwn
<1>6. ListingIsWhole'
  BY <1>1 DEF IInv, ListingIsWhole, LoadReturn
<1>7. QED
  BY <1>3, <1>4, <1>5, <1>6 DEF IInv

LEMMA DropPreserves ==
  ASSUME IInv, Drop
  PROVE  IInv'
<1>1. /\ UNCHANGED <<handle, request, via, outcome, children, sent, garbled>>
      /\ tree' = "gone" /\ known' = {} /\ answer' = None
  BY DEF Drop
<1>2. TypeOK'
  BY <1>1 DEF IInv, TypeOK
<1>3. /\ AskedIsOwn' /\ AnswersTheRequest' /\ NodeAtIsOnItsWay' /\ ChildrenAreSent'
  BY <1>1 DEF IInv, AskedIsOwn, AnswersTheRequest, NodeAtIsOnItsWay, ChildrenAreSent, Listed,
              Asks, Subjects
<1>4. NodesAreTheTreesOwn' /\ ListingIsWhole'
  BY <1>1 DEF NodesAreTheTreesOwn, ListingIsWhole
<1>5. QED
  BY <1>2, <1>3, <1>4 DEF IInv

(* A lookup of a path, by itself or for a node_at; of a node; and of the   *)
(* revision.                                                               *)
LEMMA BeginPreserves ==
  ASSUME IInv, NEW verb, NEW at, Begin(verb, at), UNCHANGED <<tree, handle, known, answer>>,
         \/ verb = "resolve_path" /\ at \in Paths /\ via' \in {None, at}
         \/ /\ verb \in Lookups \ {"resolve_path"} /\ at \in Nodes /\ at.tree = Own
            /\ \/ via' = None
               \/ via' = via /\ verb = "node" /\ at \in Ends(via)
  PROVE  IInv'
<1>1. /\ request' = [verb |-> verb, at |-> at]
      /\ outcome' = None /\ children' = << >> /\ sent' = 0 /\ garbled' = FALSE
  BY DEF Begin
<1>2. request' \in PathRequests \cup NodeRequests
  BY <1>1 DEF PathRequests, NodeRequests
<1>3. TypeOK'
  <2>1. via' \in Paths \cup {None}
    BY DEF IInv, TypeOK
  <2>2. children' \in Seq(Nodes)
    BY <1>1
  <2>3. QED
    BY <1>1, <1>2, <2>1, <2>2 DEF IInv, TypeOK
<1>4. AskedIsOwn' /\ AnswersTheRequest' /\ ChildrenAreSent'
  BY <1>1 DEF AskedIsOwn, AnswersTheRequest, ChildrenAreSent, Asks
<1>5. NodeAtIsOnItsWay'
  BY <1>1 DEF NodeAtIsOnItsWay, Asks
<1>6. NodesAreTheTreesOwn' /\ ListingIsWhole'
  BY <1>1, <1>2 DEF IInv, NodesAreTheTreesOwn, ListingIsWhole
<1>7. QED
  BY <1>3, <1>4, <1>5, <1>6 DEF IInv

(* The event that answers names the subject, or nothing.                   *)
LEMMA AnswerPreserves ==
  ASSUME IInv, NEW node \in Nodes \cup {None}, NEW code \in RawCodes, LoreAnswer(node, code)
  PROVE  IInv'
<1>1. /\ request # None /\ outcome = None /\ outcome' = [node |-> node, code |-> code]
      /\ IF code = NoError THEN node # None /\ node \in Subjects ELSE node = None
      /\ UNCHANGED <<tree, handle, request, via, children, sent, garbled, known, answer>>
  BY DEF LoreAnswer
<1>2. TypeOK'
  BY <1>1 DEF IInv, TypeOK
<1>3. AskedIsOwn' /\ NodeAtIsOnItsWay' /\ NodesAreTheTreesOwn' /\ ListingIsWhole'
  BY <1>1 DEF IInv, AskedIsOwn, Asks, NodeAtIsOnItsWay, NodesAreTheTreesOwn, ListingIsWhole
<1>4. Subjects' = Subjects
  BY <1>1 DEF Subjects
<1>5. AnswersTheRequest'
  BY <1>1, <1>4 DEF AnswersTheRequest
<1>6. ChildrenAreSent'
  <2> SUFFICES ASSUME Asks("children")
               PROVE  ChildrenAreSent'
    BY <1>1 DEF ChildrenAreSent, Asks
  <2>1. children = << >> /\ sent = 0
    BY <1>1 DEF IInv, ChildrenAreSent
  <2>2. QED
    BY <1>1, <2>1 DEF ChildrenAreSent
<1>7. QED
  BY <1>2, <1>3, <1>5, <1>6 DEF IInv

(* A child is the next of the listing, or passed over.                     *)
LEMMA ChildPreserves ==
  ASSUME IInv, NEW decodes \in BOOLEAN, LoreChild(decodes)
  PROVE  IInv'
<1> DEFINE in == outcome.node.tree
           listed == Below[in][outcome.node.id]
           next == Node(in, listed[sent + 1])
<1>1. /\ request # None /\ request.verb = "children"
      /\ outcome # None /\ outcome.code = NoError
      /\ sent < Len(listed)
      /\ children' = IF decodes THEN Append(children, next) ELSE children
      /\ sent' = sent + 1
      /\ garbled' = (garbled \/ ~decodes)
      /\ UNCHANGED <<tree, handle, request, via, outcome, known, answer>>
  BY DEF LoreChild
<1>2. outcome.node \in Nodes
  BY <1>1 DEF IInv, TypeOK, AnswersTheRequest
<1>3. in \in Trees /\ listed \in Seq(NodeIds(in)) /\ sent \in Nat /\ children \in Seq(Nodes)
  BY <1>2, NodeShape DEF IInv, TypeOK
<1>4. next \in Nodes
  <2>1. listed[sent + 1] \in NodeIds(in)
    BY <1>1, <1>3
  <2>2. QED
    BY <1>3, <2>1, NodeInTree
<1>5. TypeOK'
  BY <1>1, <1>3, <1>4 DEF IInv, TypeOK
<1>6. /\ AskedIsOwn' /\ NodeAtIsOnItsWay' /\ NodesAreTheTreesOwn' /\ ListingIsWhole'
      /\ AnswersTheRequest'
  BY <1>1 DEF IInv, AskedIsOwn, Asks, NodeAtIsOnItsWay, NodesAreTheTreesOwn, ListingIsWhole,
              AnswersTheRequest, Subjects
<1> DEFINE Is(i, k) == children[i] = Node(in, listed[k])
           IsNow(i, k) == children'[i] = Node(in, listed[k])
<1>7. /\ \A i, j \in DOMAIN children : \E k, l \in 1..sent :
           Is(i, k) /\ Is(j, l) /\ (i < j => k < l)
      /\ ~garbled => Len(children) = sent /\ \A i \in DOMAIN children : Is(i, i)
  BY <1>1 DEF IInv, ChildrenAreSent, Listed, Asks
<1> DEFINE Ordered == \A i, j \in DOMAIN children' : \E k, l \in 1..sent' :
                        IsNow(i, k) /\ IsNow(j, l) /\ (i < j => k < l)
           Whole == ~garbled' => Len(children') = sent' /\ \A i \in DOMAIN children' : IsNow(i, i)
<1>8. Ordered /\ Whole => ChildrenAreSent'
  <2>1. sent' <= Len(listed)
    BY <1>1, <1>3
  <2>2. \A i, k : Listed(i, k)' <=> IsNow(i, k)
    BY <1>1 DEF Listed
  <2>3. outcome' = outcome /\ outcome # None /\ outcome.code = NoError
    BY <1>1
  <2> HIDE DEF IsNow
  <2>4. QED
    BY <2>1, <2>2, <2>3, Zenon DEF ChildrenAreSent
<1>9. CASE decodes
  <2>1. /\ children' \in Seq(Nodes) /\ Len(children') = Len(children) + 1
        /\ children'[Len(children) + 1] = next
        /\ \A i \in DOMAIN children : children'[i] = children[i]
        /\ DOMAIN children' = DOMAIN children \cup {Len(children) + 1}
    BY <1>1, <1>3, <1>4, <1>9
  <2>2. \A i \in DOMAIN children : i < Len(children) + 1
    BY <1>3
  <2>3. ASSUME NEW i \in DOMAIN children', NEW j \in DOMAIN children'
        PROVE  \E k, l \in 1..sent' : IsNow(i, k) /\ IsNow(j, l) /\ (i < j => k < l)
    <3>1. CASE i \in DOMAIN children /\ j \in DOMAIN children
      <4>1. PICK k \in 1..sent, l \in 1..sent : Is(i, k) /\ Is(j, l) /\ (i < j => k < l)
        BY <1>7, <3>1
      <4>2. k \in 1..sent' /\ l \in 1..sent'
        BY <1>1, <1>3
      <4>3. QED
        BY <4>1, <4>2, <3>1, <2>1
    <3>2. CASE i \in DOMAIN children /\ j = Len(children) + 1
      <4>1. PICK k \in 1..sent : Is(i, k)
        BY <1>7, <3>2
      <4>2. k \in 1..sent' /\ sent + 1 \in 1..sent' /\ k < sent + 1
        BY <1>1, <1>3
      <4>3. QED
        BY <4>1, <4>2, <3>2, <2>1
    <3>3. CASE i = Len(children) + 1
      <4>1. sent + 1 \in 1..sent' /\ IsNow(i, sent + 1)
        BY <1>1, <1>3, <3>3, <2>1
      <4>2. ~(i < j)
        BY <3>3, <2>1, <2>2, <1>3
      <4>3. CASE j = i
        BY <4>1, <4>2, <4>3
      <4>4. CASE j \in DOMAIN children
        <5>1. PICK l \in 1..sent : Is(j, l)
          BY <1>7, <4>4
        <5>2. l \in 1..sent' /\ IsNow(j, l)
          BY <5>1, <4>4, <2>1, <1>1, <1>3
        <5>3. QED
          BY <5>2, <4>1, <4>2
      <4>5. QED
        BY <4>3, <4>4, <3>3, <2>1
    <3>4. QED
      BY <3>1, <3>2, <3>3, <2>1
  <2>4. ASSUME ~garbled'
        PROVE  Len(children') = sent' /\ \A i \in DOMAIN children' : IsNow(i, i)
    <3>1. Len(children) = sent /\ \A i \in DOMAIN children : Is(i, i)
      BY <2>4, <1>1, <1>7
    <3>2. Len(children') = sent'
      BY <3>1, <2>1, <1>1
    <3>3. QED
      BY <3>1, <3>2, <2>1
  <2>5. Ordered /\ Whole
    BY <2>3, <2>4, Zenon
  <2>6. QED
    BY <2>5, <1>8, <1>5, <1>6 DEF IInv
<1>10. CASE ~decodes
  <2>1. children' = children /\ garbled'
    BY <1>1, <1>10
  <2>2. ASSUME NEW i \in DOMAIN children, NEW j \in DOMAIN children
        PROVE  \E k, l \in 1..sent' : IsNow(i, k) /\ IsNow(j, l) /\ (i < j => k < l)
    <3>1. PICK k \in 1..sent, l \in 1..sent : Is(i, k) /\ Is(j, l) /\ (i < j => k < l)
      BY <1>7
    <3>2. k \in 1..sent' /\ l \in 1..sent'
      BY <1>1, <1>3
    <3>3. QED
      BY <3>1, <3>2, <2>1
  <2>3. Ordered /\ Whole
    BY <2>1, <2>2, Zenon
  <2>4. QED
    BY <2>3, <1>8, <1>5, <1>6 DEF IInv
<1>11. QED
  BY <1>9, <1>10

-----------------------------------------------------------------------------
(* The end of a call.                                                      *)

(* The node a lookup of a path, or of a node for node_at, answers with is  *)
(* one that path leads to.                                                 *)
LEMMA AnsweredNodeIsThePaths ==
  ASSUME IInv, request # None, via # None, NEW result \in CallResults, IsOk(Finish(result))
  PROVE  /\ Finish(result).value \in Nodes /\ Finish(result).value.tree = Own
         /\ Finish(result).value \in Ends(via)
<1>1. /\ outcome.node \in Subjects
      /\ Finish(result) = Ok(IF request.verb = "children" THEN children ELSE outcome.node)
  BY SuccessIsCaptured DEF IInv
<1>2. /\ request.verb # "children"
      /\ \/ request.verb = "resolve_path" /\ request.at = via
         \/ request.verb = "node" /\ request.at \in Ends(via)
  BY DEF IInv, NodeAtIsOnItsWay
<1>3. outcome.node \in Nodes /\ outcome.node.tree = Own
  BY <1>2, SuccessIsOwn
<1>4. outcome.node \in Ends(via)
  <2>1. CASE request.verb = "resolve_path"
    BY <1>1, <1>2, <2>1 DEF Subjects
  <2>2. CASE request.verb = "node"
    <3>1. request.at \in Nodes /\ request.at.tree = Own
      BY <2>2, RequestShape DEF IInv, AskedIsOwn, Asks
    <3>2. outcome.node = request.at
      BY <1>1, <2>2, <3>1, NodeShape DEF Subjects
    <3>3. QED
      BY <3>2, <1>2, <2>2
  <2>3. QED
    BY <1>2, <2>1, <2>2
<1>5. QED
  BY <1>1, <1>2, <1>3, <1>4 DEF Ok

LEMMA NodeAtPreserves ==
  ASSUME IInv, NEW result \in CallResults, NodeAtGoesOn(result)
  PROVE  IInv'
<1>1. /\ request # None /\ via # None /\ IsOk(Finish(result))
      /\ Begin("node", Finish(result).value)
      /\ UNCHANGED <<tree, handle, via, known, answer>>
  BY DEF NodeAtGoesOn, MayReturn, HalfWay
<1>2. /\ Finish(result).value \in Nodes /\ Finish(result).value.tree = Own
      /\ Finish(result).value \in Ends(via)
  BY <1>1, AnsweredNodeIsThePaths
<1>3. QED
  BY <1>1, <1>2, BeginPreserves DEF Lookups

(* The children of a listing are this tree's and in the listing's order.   *)
LEMMA ListingAnswered ==
  ASSUME IInv, NEW result \in CallResults, MayReturn(result), Asks("children"), IsOk(Finish(result))
  PROVE  /\ Finish(result) = Ok(children)
         /\ \A i \in DOMAIN children : children[i] \in Nodes /\ children[i].tree = Own
         /\ PartOf(Ids(children), Below[Own][request.at.id])
         /\ ~garbled => Ids(children) = Below[Own][request.at.id]
<1> DEFINE all == Below[Own][request.at.id]
<1>1. /\ outcome # None /\ outcome.code = NoError /\ Finish(result) = Ok(children)
      /\ outcome.node = request.at /\ request.at.tree = Own /\ request.at \in Nodes
  BY SuccessIsCaptured, SuccessIsOwn, RequestShape DEF IInv, Asks, AskedIsOwn
<1>2. all \in Seq(NodeIds(Own)) /\ children \in Seq(Nodes) /\ sent \in Nat
  BY <1>1, NodeShape DEF IInv, TypeOK
<1>3. \A i, k : Listed(i, k) => children[i].tree = Own /\ children[i].id = all[k]
  BY <1>1 DEF Listed, Node
<1>4. /\ \A i, j \in DOMAIN children : \E k, l \in 1..sent :
           Listed(i, k) /\ Listed(j, l) /\ (i < j => k < l)
      /\ sent > 0 => sent <= Len(all)
      /\ ~garbled => Len(children) = sent /\ \A i \in DOMAIN children : Listed(i, i)
  BY <1>1 DEF IInv, ChildrenAreSent
<1>5. 1..sent \subseteq DOMAIN all
  BY <1>2, <1>4
<1>6. \A i \in DOMAIN children : children[i] \in Nodes /\ children[i].tree = Own
  <2> TAKE i \in DOMAIN children
  <2>1. children[i] \in Nodes
    BY <1>2
  <2>2. PICK k \in 1..sent : Listed(i, k)
    BY <1>4
  <2>3. QED
    BY <2>1, <2>2, <1>3
<1>7. DOMAIN Ids(children) = DOMAIN children /\ \A i \in DOMAIN children : Ids(children)[i] = children[i].id
  BY DEF Ids
<1>8. ASSUME NEW i \in DOMAIN children, NEW j \in DOMAIN children
      PROVE  \E k, l \in DOMAIN all : Ids(children)[i] = all[k] /\ Ids(children)[j] = all[l] /\ (i < j => k < l)
  <2>1. PICK k \in 1..sent, l \in 1..sent : Listed(i, k) /\ Listed(j, l) /\ (i < j => k < l)
    BY <1>4
  <2>2. Ids(children)[i] = all[k] /\ Ids(children)[j] = all[l]
    BY <2>1, <1>3, <1>7
  <2>3. QED
    BY <2>1, <2>2, <1>5
<1>9. PartOf(Ids(children), all)
  BY <1>7, <1>8 DEF PartOf
<1>10. ASSUME ~garbled
       PROVE  Ids(children) = all
  <2>1. result = "Ok"
    BY <1>1 DEF CallResults, Finish, Resolve, FromRaw, CallError, Failed, IsOk
  <2>2. sent = Len(all)
    BY <2>1, <1>1 DEF MayReturn, Asks
  <2>3. Len(children) = Len(all) /\ \A i \in DOMAIN children : Listed(i, i)
    BY <1>10, <1>4, <2>2
  <2>4. DOMAIN children = DOMAIN all
    BY <1>2, <2>3
  <2>5. \A i \in DOMAIN all : Ids(children)[i] = all[i]
    BY <1>3, <1>7, <2>3, <2>4
  <2>6. Ids(children) = [i \in DOMAIN all |-> Ids(children)[i]]
    BY <2>4 DEF Ids
  <2>7. all = [i \in DOMAIN all |-> all[i]]
    BY <1>2
  <2>8. QED
    BY <2>5, <2>6, <2>7
<1>11. QED
  BY <1>1, <1>6, <1>9, <1>10

LEMMA ReturnPreserves ==
  ASSUME IInv, NEW result \in CallResults, LoreReturn(result)
  PROVE  IInv'
<1> DEFINE given == Finish(result)
<1>1. /\ request # None /\ MayReturn(result)
      /\ ~(via # None /\ request.verb = "resolve_path" /\ IsOk(given))
      /\ answer' = [to |-> request, via |-> via, result |-> given]
      /\ known' = known \cup Learned(given)
      /\ request' = None /\ via' = None /\ outcome' = None
      /\ UNCHANGED <<tree, handle, children, sent, garbled>>
  BY DEF LoreReturn, MayReturn, HalfWay
<1>2. \A node \in Learned(given) : node \in Nodes /\ node.tree = Own
  <2>1. CASE ~IsOk(given)
    BY <2>1 DEF Learned
  <2>2. CASE IsOk(given) /\ request.verb = "resolve_path"
    <3>1. given = Ok(outcome.node) /\ outcome.node \in Nodes /\ outcome.node.tree = Own
      BY <1>1, <2>2, SuccessIsCaptured, SuccessIsOwn DEF IInv
    <3>2. Learned(given) = {outcome.node}
      BY <2>2, <3>1 DEF Learned, Ok
    <3>3. QED
      BY <3>1, <3>2
  <2>3. CASE IsOk(given) /\ request.verb = "children"
    <3>1. /\ given = Ok(children)
          /\ \A i \in DOMAIN children : children[i] \in Nodes /\ children[i].tree = Own
      BY <1>1, <2>3, ListingAnswered DEF Asks
    <3>2. Learned(given) = ToSet(children)
      BY <2>3, <3>1 DEF Learned, Ok
    <3>3. QED
      BY <3>1, <3>2 DEF ToSet
  <2>4. CASE IsOk(given) /\ request.verb \notin {"resolve_path", "children"}
    BY <2>4 DEF Learned
  <2>5. QED
    BY <2>1, <2>2, <2>3, <2>4
<1>3. TypeOK'
  BY <1>1, <1>2 DEF IInv, TypeOK
<1>4. AskedIsOwn' /\ AnswersTheRequest' /\ NodeAtIsOnItsWay' /\ ChildrenAreSent'
  BY <1>1 DEF AskedIsOwn, AnswersTheRequest, NodeAtIsOnItsWay, ChildrenAreSent, Asks
<1>5. NodesAreTheTreesOwn'
  <2>1. \A node \in known' : node.tree = Own
    BY <1>1, <1>2 DEF IInv, NodesAreTheTreesOwn
  <2>2. via # None /\ IsOk(given) => given.value \in Ends(via)
    BY <1>1, AnsweredNodeIsThePaths
  <2>3. answer'.via = via /\ answer'.result = given
    BY <1>1
  <2>4. QED
    BY <2>1, <2>2, <2>3 DEF NodesAreTheTreesOwn, Ends
<1>6. ListingIsWhole'
  <2>1. answer'.to = request /\ answer'.result = given /\ garbled' = garbled
    BY <1>1
  <2>2. IsOk(given) /\ request.verb = "children" =>
          /\ PartOf(Ids(given.value), Below[Own][request.at.id])
          /\ ~garbled => Ids(given.value) = Below[Own][request.at.id]
    BY <1>1, ListingAnswered DEF Ok, Asks
  <2>3. QED
    BY <2>1, <2>2 DEF ListingIsWhole
<1>7. QED
  BY <1>3, <1>4, <1>5, <1>6 DEF IInv

LEMMA StepPreserves == IInv /\ [Next]_vars => IInv'
<1> SUFFICES ASSUME IInv, [Next]_vars PROVE IInv'
  OBVIOUS
<1>1. CASE LoadBegin \/ LoreLoaded \/ UNCHANGED vars
  BY <1>1, LoadPreserves
<1>2. CASE \E result \in CallResults : LoadReturn(result)
  BY <1>2, LoadReturnPreserves
<1>3. CASE Drop
  BY <1>3, DropPreserves
<1>4. ASSUME NEW path \in Paths, Ask("resolve_path", path) \/ AskNodeAt(path)
      PROVE  IInv'
  BY <1>4, BeginPreserves DEF Ask, AskNodeAt
<1>5. ASSUME NEW verb \in {"children", "node", "path_of"}, NEW node \in known, Ask(verb, node)
      PROVE  IInv'
  <2>1. node \in Nodes /\ node.tree = Own
    BY DEF IInv, TypeOK, NodesAreTheTreesOwn
  <2>2. QED
    BY <1>5, <2>1, BeginPreserves DEF Ask, Lookups
<1>6. CASE Ask("info", Node(Own, Root))
  <2>1. Node(Own, Root) \in Nodes /\ Node(Own, Root).tree = Own
    BY NodeInTree DEF Node
  <2>2. QED
    BY <1>6, <2>1, BeginPreserves DEF Ask, Lookups
<1>7. CASE \E node \in Nodes \cup {None}, code \in RawCodes : LoreAnswer(node, code)
  BY <1>7, AnswerPreserves
<1>8. CASE \E decodes \in BOOLEAN : LoreChild(decodes)
  BY <1>8, ChildPreserves
<1>9. CASE \E result \in CallResults : NodeAtGoesOn(result) \/ LoreReturn(result)
  BY <1>9, NodeAtPreserves, ReturnPreserves
<1>10. QED
  BY <1>1, <1>2, <1>3, <1>4, <1>5, <1>6, <1>7, <1>8, <1>9 DEF Next

(***************************************************************************)
(* The inductive invariant of a revision tree holds in every reachable     *)
(* state (revision_tree.rs, from load to drop).                            *)
(***************************************************************************)
THEOREM Invariance == Spec => []IInv
<1>1. IInv /\ [Next]_vars => IInv'
  BY StepPreserves
<1>2. QED
  BY InitEstablishes, <1>1, PTL DEF Spec

(* The type invariant of revision_tree.rs's model.                         *)
THEOREM TypeCorrect == Spec => []TypeOK
<1>1. IInv => TypeOK
  BY DEF IInv
<1>2. QED
  BY Invariance, <1>1, PTL

(***************************************************************************)
(* No node id of another tree is ever handed out or gone by, for any trees *)
(* and links between them (expect_own_tree in resolve_path and children).  *)
(***************************************************************************)
THEOREM IdsStayInTheirTree == Spec => []NodesAreTheTreesOwn
<1>1. IInv => NodesAreTheTreesOwn
  BY DEF IInv
<1>2. QED
  BY Invariance, <1>1, PTL

(***************************************************************************)
(* A listing that is handed out is in Lore's order and lacks nothing but   *)
(* names that do not decode (children).                                    *)
(***************************************************************************)
THEOREM ListingsAreWhole == Spec => []ListingIsWhole
<1>1. IInv => ListingIsWhole
  BY DEF IInv
<1>2. QED
  BY Invariance, <1>1, PTL
=============================================================================
