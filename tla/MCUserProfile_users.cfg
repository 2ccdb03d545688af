SPECIFICATION Spec
CONSTANTS
  Users = {u1, u2}
  Registered = {u1}
  Fields = {"bio", "avatar"}
  Requests = {r1}
  MaxPatches = 1
  NoUser = NoUser
  NoRow = NoRow
  NoEntry = NoEntry
  Blank = Blank
  HasReplica = FALSE
  TimelyReplication = TRUE
  Environment = {"redis", "abort"}
INVARIANTS
  TypeOK
  CacheInvalidatedByUpdate
