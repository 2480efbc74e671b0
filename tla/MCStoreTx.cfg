CONSTANTS
  a = a
  b = b
  h1 = h1
  h2 = h2
  p1 = p1
  k1 = k1
  k2 = k2
  t1 = t1
  t2 = t2
  NoTxn = NoTxn
  Null = Null
  Phrases = {p1}
  Hosts = {h1, h2}
  Keys = {k1, k2}
  Txns = {t1, t2, NoTxn}
  Conns = {a, b}
  Calls <- AllCalls
SPECIFICATION TxFairSpec
INVARIANTS TxTypeOK TxInv
PROPERTIES ImplementsStoreCalls LockIsReleased
