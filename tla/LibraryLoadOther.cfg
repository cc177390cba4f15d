\* Two first callers mean two different libraries.
SPECIFICATION Spec
CONSTANTS
  None = None
  I1 = I1
  I2 = I2
  Old = Old
  Complete = {I1, I2, Old}
  Callers = {t1, t2, t3}
  Images = {I1, I2, Old}
  Paths <- TwoImagePaths
  ImageOf <- TwoImages
PROPERTY NeverUnloaded
