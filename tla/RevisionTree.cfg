\* Every walk through a tree with links, from load to drop.
SPECIFICATION Spec
CONSTANTS
  None = None
  r1 = r1  r2 = r2  v1 = v1  v2 = v2
  Codes = {"INVALID_ARGUMENTS"}
  Trees <- AllTrees
  Own <- ThisTree
  Below <- Listings
  Target <- Links
  Paths <- AskedPaths
  Root = 0
INVARIANTS
  TypeOK
  NodesAreTheTreesOwn
  ListingIsWhole
\* the value is gone once it has been dropped
CHECK_DEADLOCK FALSE
