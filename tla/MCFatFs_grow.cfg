CONSTANTS
  NClus = 7
  Slots = 3
  Names <- MCNames
  MaxDepth = 2
  Attrs <- MCAttrs
  StartClusters = {3, 3000}
  Crashes = {FALSE}
  QueryPaths <- MCQueryPaths
SPECIFICATION Spec
PROPERTY FullOnlyWhenNoSpace
