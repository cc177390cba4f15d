\* Three threads race to load the library; two stores, a tree, two writes.
SPECIFICATION ProcessSpec
CONSTANTS
  None = None
  I1 = I1
  I2 = I2
  Old = Old
  s1 = s1
  s2 = s2
  t1 = t1
  w1 = w1
  w2 = w2
  ATTEMPTS = 3
  Complete = {I1, I2}
  Callers = {c1, c2, c3}
  Images = {I1, I2, Old}
  Paths <- TwoImagePaths
  ImageOf <- TwoImages
  Stores = {s1, s2}
  Trees = {t1}
  Writes = {w1, w2}
SYMMETRY Interchangeable
INVARIANTS
  ProcessTypeOK
  OneLibrary
  UsedIsMapped
  FetchedIsTheRelease
  FlushedIsDurable
  CleanEndIsDurable
  HandlesAreOwned
  NoCallIntoAFinalizedLore
\* the process has exited
CHECK_DEADLOCK FALSE
