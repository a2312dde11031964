SPECIFICATION Spec
CONSTANTS
  keep = keep
  change = change
  refuse = refuse
  NoURL = NoURL
  Answer <- MCAnswer
  attributeHandlers <- MCHandlers
  Documents <- MCDocuments
  Tokens <- MCTokens
  MaxTokens = 4
  Runes <- MCRunes
  MaxLength = 3
  Faults = {"write"}
INVARIANTS
  PageIsRewritten
  PageCallsFollow
  SheetIsRewritten
  SheetOffersLinks
  QuotedIsReadBack
CHECK_DEADLOCK FALSE
