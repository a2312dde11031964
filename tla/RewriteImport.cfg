SPECIFICATION Spec
CONSTANTS
  keep = keep
  change = change
  refuse = refuse
  NoURL = NoURL
  Answer <- MCAnswer
  attributeHandlers <- MCHandlers
  Documents <- MCDocuments
  Tokens <- MCTokens
  MaxTokens = 3
  Runes <- MCRunes
  MaxLength = 1
  Faults = {}
INVARIANTS
  SheetIsWhole
CHECK_DEADLOCK FALSE
