CONSTANTS
  NClus = 6
  Slots = 3
  Names <- MCNames
  MaxDepth = 3
  Attrs <- MCAttrs
  StartClusters = {3, 3000}
  Crashes = {FALSE}
  QueryPaths <- MCQueryPaths
SPECIFICATION Spec
INVARIANTS
  TypeOK
  AllocationSound
  NothingAfterEnd
  FormatFollowsRules
  FreeCountCoversTable
PROPERTIES
  ChainsRefineStore
  RemovedDirsEmpty
