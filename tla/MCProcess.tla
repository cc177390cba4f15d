------------------------------ MODULE MCProcess ------------------------------
(* A program with two stores and a tree, that writes twice, on MCLibrary-  *)
(* Load's libraries.                                                       *)
EXTENDS Process, MCLibraryLoad

CONSTANTS s1, s2, t1, w1, w2

Interchangeable ==
  Permutations(Callers) \cup Permutations(Stores) \cup Permutations(Writes)
=============================================================================
