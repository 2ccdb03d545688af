SPECIFICATION Spec
CONSTANTS
  Users = {u1, u2}
  AccessTokens = {t1}
  Ids = {i1, i2}
  Requests = {r1, r2}
  NoUser = NoUser
  NoRow = NoRow
  NoToken = NoToken
  NoId = NoId
  HasReplica = TRUE
  TimelyReplication = TRUE
  Environment = {"rng", "clock"}
SYMMETRY Symmetry
INVARIANTS
  TypeOK
  OnlyIssuedOwners
PROPERTIES
  ReadBackIsCurrent
  CreatedTokenIsAccepted
