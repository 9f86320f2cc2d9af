\* Two callers with reruns, the inline executor or a pool, a shutdown and a
\* wait_all.  A success would go the way a failure goes.
SPECIFICATION FairSpec
CONSTANTS
  c1 = c1  c2 = c2  r1 = r1  r2 = r2  None = None
  Callers = {c1, c2}
  RunIds = {r1, r2}
  Names = {"report"}
  Owners = {"wsA", "wsB"}
  Kinds = {"inline", "thread"}
  MaxWorkers = 2
  MaxReports = 1
  Endings = {"failed", "exit"}
INVARIANTS TypeOK NoProgressLost JoinedMeansDrained WaitAllCovers
PROPERTIES LifecycleForward ImplementsRunLedger RunsEndOrAreRefused ShutdownReturns
