CONSTANTS
  x = x
  y = y
  r1 = r1
  r2 = r2
  Null = Null
  Readers = {r1, r2}
  Data = {x, y}
  NBlocks = 2
  Valid <- MyValid
  SizeOf <- MySize
  InPlace = FALSE
  Coarse = FALSE
  MaxMtime = 2
SPECIFICATION FairSpec
PROPERTIES ImplementsDeviceList LookupReturns
