SPECIFICATION FairSpec
CONSTANTS
  Users = {u1}
  Registered = {u1}
  Fields = {"bio"}
  Requests = {r1, r2}
  MaxPatches = 1
  NoUser = NoUser
  NoRow = NoRow
  NoEntry = NoEntry
  Blank = Blank
  HasReplica = TRUE
  TimelyReplication = FALSE
  Environment = {"redis", "abort"}
INVARIANTS
  CacheHoldsCommitted
PROPERTIES
  CacheConverges
