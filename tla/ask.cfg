SPECIFICATION Spec
CONSTANTS
  begin = begin
  same = same
  guide = guide
  words = words
  meta = meta
  mail = mail
  notes = notes
  intents = intents
  noDoc = noDoc
  small = small
  large = large
  NoModel = NoModel
  Chunks <- MCChunks
  AppOf <- MCAppOf
  DocOf <- MCDocOf
  KeyOf <- MCKeyOf
  Docs <- MCDocs
  Intents = intents
  NoDoc = noDoc
  Models <- MCModels
  TopK = 3
  MaxDocs = 2
  WithIntents = TRUE
  MaxChanges = 1
INVARIANT TypeOK
 
INVARIANT AnswerIsHonest
SYMMETRY Symmetric
CHECK_DEADLOCK FALSE
