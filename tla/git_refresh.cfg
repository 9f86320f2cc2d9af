\* Refreshes that fail and processes that are killed or reconfigured.
SPECIFICATION Spec
CONSTANTS
  FullTree = FullTree  Malformed = Malformed  Absent = Absent  None = None
  Paths = {"team", "team/x", "ops/x", "notes"}
  TopLevel = {"team", "notes"}
  Under <- MCUnder
  Name <- MCName
  Refs = {"main"}
  Commits = {1, 2}
  Has <- MCHas
  Configs <- Configurations
  Relative = FALSE
  MaxPushes = 2
  Faults = {"fail", "kill"}
  MaxFaults = 2
INVARIANTS ServesTheCommit
 
