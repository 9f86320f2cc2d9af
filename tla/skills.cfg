\* Provisions of one workspace for two users, one after the other or two at a
\* time, one of which may stop half-way.
SPECIFICATION Spec
CONSTANTS
  triage = triage  deploy = deploy  notes = notes  ann = ann  bob = bob  None = None
  p1 = p1  p2 = p2
  Skills = {triage, deploy}
  UserNames = {notes}
  Users = {ann, bob}
  Provisions = {p1, p2}
  Faults = {"stop"}
  MaxFaults = 1
  MaxChanges = 2
SYMMETRY Symmetry
INVARIANTS ManifestMatchesDisk
PROPERTIES RevokedRemoved OnlyEffectiveCopied 
