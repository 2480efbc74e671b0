CONSTANTS
  a = a
  b = b
  c = c
  r1 = r1
  r2 = r2
  Null = Null
  Readers = {r1, r2}
  Items = {a, b}
  Fits <- NewKey
  MaxMtime = 1
SPECIFICATION FairSpec
PROPERTY HandshakeEnds
