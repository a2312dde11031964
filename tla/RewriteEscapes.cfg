SPECIFICATION Spec
CONSTANTS
  keep = keep
  change = change
  refuse = refuse
  NoURL = NoURL
  Answer <- MCAnswer
  attributeHandlers <- MCHandlers
  Documents <- MCDocuments
  Tokens <- MCTokens
  MaxTokens = 1
  Runes <- MCRunes
  MaxLength = 2
  Faults = {}
INVARIANTS
  EscapesAreRead
CHECK_DEADLOCK FALSE
