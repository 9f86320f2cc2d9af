\* One process over SQL: turns fail, the store fails, the process dies and
\* starts again, deliveries repeat.  m3 carries no message_id.
SPECIFICATION FairSpec
CONSTANTS
  m1 = m1  m2 = m2  m3 = m3  k1 = k1  k2 = k2  s1 = s1  s2 = s2  s3 = s3
  w1 = w1  w2 = w2  claude = claude  echo = echo  None = None
  Workers = {w1}
  Messages = {m1, m2, m3}
  Identified = {m1, m2}
  Keys = {k1, k2}
  KeyOf <- TwoKeys
  SessionIds = {s1, s2}
  Backends = {claude, echo}
  Resumable = {claude}
  RoundLimits = {1, 2}
  StoreKinds = {"sql"}
  Faults = {"backend", "store", "crash"}
  MaxFaults = 2
  MaxRedeliveries = 1
INVARIANTS RoundsExact NothingDropped
PROPERTIES ImplementsLedger EventuallySettled
