SPECIFICATION Spec
CONSTANTS
  text = text
  nobody = nobody
  Plain = text
  Nobody = nobody
  Repositories <- MCRepositories
  OutDir <- MCOutDir
  RawOf <- MCRawOf
  Mappings <- MCMappings
  FilesFaults = {"list", "open", "copy", "close", "kill"}
  MaxRuns = 2
  Pairs <- MCPairs
  Rank <- MCRank
  IgnoreStatuses = {404}
  Headers = TRUE
  LongLines = {"long"}
  DiffFaults = {"read"}
  uint16max = 3
  uint32max = 30
  MultiByte = {}
  Invalid = {}
  Resolution = 2
  DosFirst = 10
  DosSpan = 40
  TimeWidth = 60
  Alias = 4
  MinOffset <- MCMinOffset
  MaxOffset = 12
  Near = 2
  Far = 5
  LabelsOf <- MCLabelsOf
  ParameterOrder <- MCParameterOrder
  Holdings <- MCHoldings
  AskedURLs <- MCAskedURLs
  ListFaults = {"print"}
  RootLists <- MCRootLists
  Remaps <- MCRemaps
  Requests <- MCRequests
  Stored <- MCStored
  AskedNames = {"u", "v", "w"}
  CacheFaults = {"cut", "damaged"}
  Blots <- MCBlots
INVARIANTS
  DocumentsAreGenerated
  OneRunPerDirectory
  LinksCanBeTracedBack
  ReportsAreRight
  DifferencesShow
  PrintedIsFound
  FollowedIsUnderRoot
  OneServerPerKey
  CacheIsWhole
  ShownIsStored
CHECK_DEADLOCK FALSE
