SPECIFICATION Spec
CONSTANTS
  TypeOf <- MCTypeOf
  Times <- MCTimes
  Day = 4
  Hour = 1
  Half = 3
  OwnerOf <- MCOwnerOf
  NoTime = NoTime
  Leaves <- MCLeaves
  FluxLeaves <- MCFluxLeaves
  Hijacks <- MCHijacks
  Requests <- MCRequests
  Nows <- MCNows
  Triggers <- MCTriggers
  Characters <- MCCharacters
  MaxLength = 3
  MaxNodes = 6
  MaxTriggers = 3
  MaxTaken = 2
INVARIANTS
  FilterKeepsMeaning
  HijackIsPrecise
  ChartTotalsAgree
  ChartBucketsFromStart
  NamespaceIsFree
  NamespaceChecksAgree
CHECK_DEADLOCK FALSE
