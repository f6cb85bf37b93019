SPECIFICATION FairSpec
CONSTANTS
  n1 = n1
  n2 = n2
  n3 = n3
  NoNode = NoNode
  Nodes <- MCNodes
  MaxRuns = 2
  MaxFaults = 2
INVARIANT TypeOK
INVARIANT EveryServerIsHeld
PROPERTY BackendReturns
CHECK_DEADLOCK FALSE
