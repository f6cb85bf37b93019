SPECIFICATION FairSpec
CONSTANTS
  query = query
  cancel = cancel
  NoCall = NoCall
  Calls <- MCCalls
  Target <- MCTarget
  Faults = {"break", "crash", "timeout", "restart"}
  MaxBreaks = 2
  MaxRestarts = 2
INVARIANT TypeOK
INVARIANT WaiterPerCall
INVARIANT OneFinalFrame
INVARIANT OwnAnswer
PROPERTY ProgressIsLabelled
PROPERTY EveryCallEnds
CHECK_DEADLOCK FALSE
