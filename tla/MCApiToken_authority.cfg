SPECIFICATION FairSpec
CONSTANTS
  Users = {u1}
  AccessTokens = {t1, t2}
  Ids = {i1}
  Requests = {r1, r2}
  NoUser = NoUser
  NoRow = NoRow
  NoToken = NoToken
  NoId = NoId
  HasReplica = TRUE
  TimelyReplication = FALSE
  Environment = {"redis", "abort"}
PROPERTIES
  ImplementsAuthority
  RevokedLeavesCache
