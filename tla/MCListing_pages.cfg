SPECIFICATION FairSpec
CONSTANTS
  Users = {u1}
  Uids = {1, 2, 3}
  IdRank <- MCIdRank
  Times = {1, 2}
  PageSizes = {0, 1, 2}
  DefaultPageSize = 1
  MaxPageSize = 1
  Filters <- MCFilters
  MaxChanges = 2
  NoUser = NoUser
  NoRow = NoRow
  NoPageToken = NoPageToken
  HasReplica = TRUE
  TimelyReplication = FALSE
  Environment = {}
INVARIANTS
  TypeOK
  
  ListedCompletely
  

  
