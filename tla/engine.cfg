\* Two threads of one store and a thread of another process, on a database
\* with any of the tables, which may fail once.
SPECIFICATION FairSpec
CONSTANTS
  a = a  b = b  c = c  s1 = s1  s2 = s2  None = None
  e1 = e1  e2 = e2  e3 = e3
  Threads = {a, b, c}
  Stores = {s1, s2}
  StoreOf <- TwoStores
  Engines = {e1, e2, e3}
  MaxFaults = 1
INVARIANTS TablesBeforeEngine OneEngine
PROPERTIES CallsReturn
