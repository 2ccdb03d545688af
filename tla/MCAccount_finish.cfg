SPECIFICATION FairSpec
CONSTANTS
  Users = {admin, preset}
  Admin = admin
  Preset = preset
  Passwords = {p1}
  Default = p1
  NoHash = NoHash
  PresetTypes = {"user", "organization"}
  Inits = {i1, i2}
  Requests = {r1}
  MaxCrashes = 1
  MaxChanges = 1
  NoUser = NoUser
  NoRow = NoRow
  HasReplica = TRUE
  TimelyReplication = FALSE
  Environment = {"redis"}
INVARIANTS
  ProvisionedWhenDone
PROPERTIES
  InitsFinish
