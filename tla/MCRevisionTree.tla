--------------------------- MODULE MCRevisionTree ---------------------------
(***************************************************************************)
(* A tree that links to an older revision of its own repository and to     *)
(* another repository; the same numbers are nodes of all three.            *)
(***************************************************************************)
EXTENDS RevisionTree

CONSTANTS r1, r2, v1, v2

ThisTree  == [repository |-> r1, revision |-> v2]
OlderTree == [repository |-> r1, revision |-> v1]
OtherTree == [repository |-> r2, revision |-> v1]
AllTrees  == {ThisTree, OlderTree, OtherTree}

(* This tree: 0 lists the directory 1, with the file 4, and the links 2, 3.*)
Listings ==
  [t \in AllTrees |->
     [n \in 0..4 |->
        CASE t = ThisTree /\ n = 0 -> <<1, 2, 3>>
          [] t = ThisTree /\ n = 1 -> <<4>>
          [] t = OlderTree /\ n = 0 -> <<1, 3>>
          [] t = OtherTree /\ n = 0 -> <<4>>
          [] OTHER -> << >>]]

(* The older revision has a link of its own, to the other repository.      *)
Links ==
  [t \in AllTrees |->
     [n \in 0..4 |->
        CASE t = ThisTree /\ n = 2 -> OlderTree
          [] t = ThisTree /\ n = 3 -> OtherTree
          [] t = OlderTree /\ n = 3 -> OtherTree
          [] OTHER -> None]]

(* Inside the tree, into either link, through one link into another, and   *)
(* to nothing.                                                             *)
AskedPaths == {<< >>, <<1>>, <<1, 1>>, <<2>>, <<2, 1>>, <<3, 1>>, <<2, 2, 1>>, <<1, 2>>}
=============================================================================
