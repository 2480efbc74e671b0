CONSTANTS
  a = a
  b = b
  c = c
  r1 = r1
  r2 = r2
  Null = Null
  Readers = {r1, r2}
  Items = {a, b, c}
  Fits <- Renewals
  MaxMtime = 2
SPECIFICATION Spec
SYMMETRY ReaderSymmetry
INVARIANTS TypeOK KnownIsCurrent QuietHandshakeIsCurrent LastGoodIsKept IInv
PROPERTY NeverBackToOldPair
