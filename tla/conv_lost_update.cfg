\* Two threads of one process over the SQLAlchemy store.
SPECIFICATION Spec
CONSTANTS
  m1 = m1  m2 = m2  m3 = m3  k1 = k1  k2 = k2  s1 = s1  s2 = s2  s3 = s3
  w1 = w1  w2 = w2  claude = claude  echo = echo  None = None
  Workers = {w1, w2}
  Messages = {m1, m2}
  Identified = {m1, m2}
  Keys = {k1}
  KeyOf <- OneKey
  SessionIds = {s1}
  Backends = {claude}
  Resumable = {claude}
  RoundLimits = {1}
  StoreKinds = {"sql"}
  Faults = {}
  MaxFaults = 0
  MaxRedeliveries = 0
INVARIANTS TurnsWithinLimit
