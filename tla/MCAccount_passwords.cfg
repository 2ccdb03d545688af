SPECIFICATION Spec
CONSTANTS
  Users = {admin, preset}
  Admin = admin
  Preset = preset
  Passwords = {p1, p2}
  Default = p1
  NoHash = NoHash
  PresetTypes = {"user"}
  Inits = {i1}
  Requests = {r1}
  MaxCrashes = 2
  MaxChanges = 3
  NoUser = NoUser
  NoRow = NoRow
  HasReplica = TRUE
  TimelyReplication = TRUE
  Environment = {"abort"}
INVARIANTS
  TypeOK
  ReplacedPasswordRefused
PROPERTIES
  ChosenPasswordKept
