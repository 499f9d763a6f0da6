CONSTANTS
  NClus = 7
  Slots = 4
  Names <- MCNames
  MaxDepth = 2
  Attrs <- MCAttrs
  StartClusters = {3000}
  Crashes = {FALSE}
  QueryPaths = {}
  CS = 2
  ReadBuf = 2
  Hosts <- MCHostsFull
  WriteCrashes = {FALSE}
  Commands = {"cpex", "cp"}
  ReadArgs <- MCReadWhole
  Fairness <- WorkingFairness
SPECIFICATION FileSpec
CONSTRAINTS MCRecords MCShape
ACTION_CONSTRAINT MCGrowOnly
PROPERTY
  CpReturns
