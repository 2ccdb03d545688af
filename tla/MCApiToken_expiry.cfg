SPECIFICATION Spec
CONSTANTS
  Users = {u1}
  AccessTokens = {t1}
  Ids = {i1}
  Requests = {r1}
  NoUser = NoUser
  NoRow = NoRow
  NoToken = NoToken
  NoId = NoId
  HasReplica = TRUE
  TimelyReplication = TRUE
  Environment = {"clock"}
INVARIANT ExpiredTokenRejected
