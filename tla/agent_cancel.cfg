\* The stream is left at a broken line while the child still writes.
SPECIFICATION FairSpec
CONSTANTS
  Backends = {"codex"}
  Scripts <- BrokenEarly
  PipeCap = 1
  Faults = {}
PROPERTIES TurnEnds
CHECK_DEADLOCK FALSE
