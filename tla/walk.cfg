SPECIFICATION Spec
CONSTANTS
  p1 = p1
  crop = crop
  cropAgain = cropAgain
  save = save
  None = None
  Panels = {p1}
  Instr = {crop, cropAgain, save}
  Alike <- MCAlike
  Guide <- MCGuide
  StartModes = {"vision", "plan"}
  MaxSteps = 2
  Env = {"model", "image", "other", "docs", "gone", "hurry", "capture", "crash"}
  NoCall = 0
  MaxCalls = 4
  MaxDrops = 1
INVARIANT TypeOK
INVARIANT CancelledIsSilent
INVARIANT ListInOrder
INVARIANT NeverProposedAgain
INVARIANT ClosedLeavesNothing
INVARIANT ManualIsBlind
INVARIANT LimitKept
CHECK_DEADLOCK FALSE
