\* Two workers race on one conversation, over the SQLAlchemy store or over one
\* memory store that a crash takes away.
SPECIFICATION Spec
CONSTANTS
  m1 = m1  m2 = m2  m3 = m3  k1 = k1  k2 = k2  s1 = s1  s2 = s2  s3 = s3
  w1 = w1  w2 = w2  claude = claude  echo = echo  None = None
  Workers = {w1, w2}
  Messages = {m1, m2}
  Identified = {m1}
  Keys = {k1}
  KeyOf <- OneKey
  SessionIds = {s1, s2}
  Backends = {claude, echo}
  Resumable = {claude}
  RoundLimits = {1, 2}
  StoreKinds = {"memory", "sql"}
  Faults = {"backend", "store", "crash"}
  MaxFaults = 1
  MaxRedeliveries = 1
INVARIANTS TypeOK KeyAlwaysSameSession  RoundBudget ProcessedWasCounted
PROPERTIES PinnedFields
