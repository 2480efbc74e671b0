CONSTANTS
  h1 = h1
  h2 = h2
  k1 = k1
  k2 = k2
  t1 = t1
  t2 = t2
  p1 = p1
  p2 = p2
  s1 = s1
  s2 = s2
  a = a
  b = b
  NoTxn = NoTxn
  Null = Null
  Keys = {k1, k2}
  Txns = {t1, t2, NoTxn}
  Phrases = {p1}
  Hosts = {h1}
  Serials = {s1}
  Lists <- OneList
  Lifetimes <- Single
  Requests <- RevokedRequests
  Slots = {a, b}
  MaxClock = 0
  MaxTries = 1
SPECIFICATION Spec
PROPERTY RevokedPhraseIsNotUsed
