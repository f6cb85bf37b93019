SPECIFICATION FairSpec
CONSTANTS
  old = old
  new = new
  NoModel = NoModel
  Models <- MCModels
  Ready <- MCReady
  Vectorized <- MCReady
  MaxAsks = 2
  MaxSwitches = 4
  MaxChanges = 1
  MaxDrops = 1
  MaxEvents = 5
INVARIANT TypeOK
INVARIANT SearchIsItsOwn
INVARIANT VerdictIsOfItsCheck
PROPERTY EverythingSettles
CHECK_DEADLOCK FALSE
