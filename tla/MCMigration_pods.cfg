SPECIFICATION FairSpec
CONSTANTS
  Pods = {p1, p2}
  Deployments <- MCDeployments
  MaxFaults = 2
INVARIANTS
  TypeOK
PROPERTIES
  ServesReadyStore
  ServersAgree
  RecordsKept
  PodsServe
CHECK_DEADLOCK FALSE
