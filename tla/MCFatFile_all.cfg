CONSTANTS
  NClus = 6
  Slots = 3
  Names <- MCNames
  MaxDepth = 2
  Attrs <- MCAttrs
  StartClusters = {3000}
  Crashes = {FALSE}
  QueryPaths = {}
  CS = 2
  ReadBuf = 2
  Hosts <- MCHosts
  WriteCrashes = {FALSE}
  Commands = {"cpex", "cp", "read"}
  ReadArgs <- MCReadAll
  Fairness <- WorkingFairness
SPECIFICATION FileSpec
CONSTRAINTS MCRecords MCShape
ACTION_CONSTRAINT MCGrowOnly
INVARIANTS
  SizeWithinChain
PROPERTIES
  ChainsRefineStore
  WriteStaysInChain
  CpExReturns
