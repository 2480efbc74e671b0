CONSTANTS
  x = x
  y = y
  r1 = r1
  r2 = r2
  Null = Null
  Readers = {r1}
  Data = {x, y}
  NBlocks = 2
  Valid <- MyValid
  SizeOf <- MySize
  InPlace = TRUE
  Coarse = TRUE
  MaxMtime = 1
SPECIFICATION Spec
INVARIANT AnswerIsFresh
