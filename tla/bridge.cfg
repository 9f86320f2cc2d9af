\* Two callers start and read runs while permissions and policies change.
SPECIFICATION Spec
CONSTANTS
  c1 = c1  c2 = c2  u1 = u1  w1 = w1  w2 = w2  n1 = n1  n2 = n2  r1 = r1  r2 = r2
  None = None
  Callers = {c1, c2}
  Users = {u1}
  Workspaces = {w1, w2}
  Names = {n1, n2}
  Registered = {n1}
  RunIds = {r1, r2}
  Rules <- SomeRules
  MaxChanges = 2
SYMMETRY Symmetry
INVARIANTS Rightful
PROPERTIES DenialsStand
