--------------------------- MODULE MCLibraryLoad ---------------------------
(* Four paths: two lead to one image, say through a symbolic link, one to  *)
(* another copy of the library, one to an older one.                       *)
EXTENDS LibraryLoad, TLC

CONSTANTS I1, I2, Old

(* Old lacks a function; loading it fails half way.                        *)
TwoImages ==
  ("lib/lore" :> I1) @@ ("lib/lore.link" :> I1) @@ ("other/lore" :> I2) @@ ("old/lore" :> Old)

TwoImagePaths == DOMAIN TwoImages

Threads == Permutations(Callers)
=============================================================================
