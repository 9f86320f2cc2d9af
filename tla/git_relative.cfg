\* cache_dir is a relative path.
SPECIFICATION Spec
CONSTANTS
  FullTree = FullTree  Malformed = Malformed  Absent = Absent  None = None
  Paths = {"team", "team/x", "ops/x", "notes"}
  TopLevel = {"team", "notes"}
  Under <- MCUnder
  Name <- MCName
  Refs = {"main"}
  Commits = {1, 2}
  Has <- MCHas
  Configs <- OneNested
  Relative = TRUE
  MaxPushes = 0
  Faults = {}
  MaxFaults = 0
INVARIANTS ServesTheCommit
