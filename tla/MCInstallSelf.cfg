CONSTANTS
  k1 = k1
  k2 = k2
  k3 = k3
  mac = mac
  host = mac
  p = p
  NoTxn = NoTxn
  Null = Null
  Phrases = {p}
  Hosts = {mac}
  Keys = {k1, k2, k3}
  Txns = {k1, k2, k3, NoTxn}
  CertIds = {1, 2, 3}
  SCEP_ATTEMPTS = 2
SPECIFICATION Spec
INVARIANT SelfGoesWithKey
