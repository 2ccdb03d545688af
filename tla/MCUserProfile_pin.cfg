SPECIFICATION Spec
CONSTANTS
  Users = {u1}
  Registered = {u1}
  Fields = {"bio", "role"}
  Requests = {r1, r2}
  MaxPatches = 2
  NoUser = NoUser
  NoRow = NoRow
  NoEntry = NoEntry
  Blank = Blank
  HasReplica = TRUE
  TimelyReplication = TRUE
  Environment = {}
SYMMETRY Symmetry
INVARIANTS
  OwnPatchVisible
PROPERTIES
  LonePatchKeepsFields
