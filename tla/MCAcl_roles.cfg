SPECIFICATION Spec
CONSTANTS
  Users = {u1}
  Members = {m1}
  Codes = {c1}
  Orgs = {o1}
  Roles <- MCRoles
  Requests = {r1, r2}
  None = None
  HasReplica = TRUE
  Frame <- MCFrame
  Latency = 1
  Lag <- MCLag
  Faults = {"write", "abort"}
  MaxChanges = 2
SYMMETRY Symmetry
INVARIANTS
  TypeOK
  RoleNotLost
  LoneChangeExact
  ListingExact
PROPERTIES
  MarksOutliveWrites
  OwnChangesSeen
