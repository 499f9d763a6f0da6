CONSTANTS
  NClus = 6
  Slots = 3
  Names <- MCNames
  MaxDepth = 2
  Attrs <- MCAttrs
  StartClusters = {3000}
  Crashes = {FALSE}
  QueryPaths = {}
  CS = 2
  ReadBuf = 2
  Hosts <- MCHosts
  WriteCrashes = {FALSE, TRUE}
  Commands = {"cpex"}
  ReadArgs <- MCReadWhole
  Fairness <- WorkingFairness
SPECIFICATION FileSpec
PROPERTY
  CopyFaithful
