SPECIFICATION FairSpec
CONSTANTS
  c1 = c1
  c2 = c2
  c3 = c3
  fts = fts
  vector = vector
  hybrid = hybrid
  other = other
  chat = chat
  TestCases <- MCCases
  AxisNames <- MCAxisNames
  Multiplied <- MCMultiplied
  ConfigAxes <- MCConfigAxes
  Known <- MCKnown
  MaxModes = 2
  BatchSize = 2
  MaxStreams = 2
  Env = {"disk", "throw", "reload", "crash"}
  Plan <- MCPlan
  Overrides <- MCOverrides
  MaxControls = 2
INVARIANT TypeOK
INVARIANT ReportIsWhole
INVARIANT EntriesTellTruth
PROPERTY CasesUnderControl
PROPERTY CancelEnds
CHECK_DEADLOCK FALSE
