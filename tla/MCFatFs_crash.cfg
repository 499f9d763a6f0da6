CONSTANTS
  NClus = 6
  Slots = 3
  Names <- MCNames
  MaxDepth = 2
  Attrs <- MCAttrs
  StartClusters = {3, 3000}
  Crashes = {FALSE, TRUE}
  QueryPaths <- MCQueryPaths
SPECIFICATION Spec
INVARIANT AllocationSound
