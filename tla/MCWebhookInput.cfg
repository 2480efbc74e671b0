CONSTANTS
  h1 = h1
  h2 = h2
  k1 = k1
  k2 = k2
  t1 = t1
  t2 = t2
  p1 = p1
  p2 = p2
  s1 = s1
  s2 = s2
  a = a
  b = b
  NoTxn = NoTxn
  Null = Null
  Keys = {k1, k2}
  Txns = {t1, t2, NoTxn}
  Phrases = {p1}
  Hosts = {h1, h2}
  Serials = {s1, s2}
  Lists <- MovingLists
  Lifetimes <- Short
  Requests <- InputRequests
  Slots = {a}
  MaxClock = 1
  MaxTries = 2
SPECIFICATION FairSpec
INVARIANTS TypeOK AllowedWithinWindow CertsAreEnrolled IInv
PROPERTY EveryRequestAnswered
