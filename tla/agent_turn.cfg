\* Any three lines from claude or codex; the child may die or hang, on_event
\* may raise.
SPECIFICATION FairSpec
CONSTANTS
  Backends = {"claude", "codex"}
  Scripts <- AnyLines
  PipeCap = 2
  Faults = {"spawn", "hang", "die", "callback"}
INVARIANTS TypeOK  ReapedBeforeReturn CompletedIsGenuine SpanTellsOutcome
PROPERTIES TurnEndsOrWaits
\* A hung child leaves the turn waiting for it: see agent_cancel.
CHECK_DEADLOCK FALSE
