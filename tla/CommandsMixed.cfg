SPECIFICATION Spec
CONSTANTS
  text = text
  nobody = nobody
  Plain = text
  Nobody = nobody
  Repositories <- MCRepositories
  OutDir <- MCOutDir
  RawOf <- MCRawOf
  Mappings <- MCMappings
  FilesFaults = {}
  MaxRuns = 1
  Pairs <- MCPairs
  Rank <- MCRank
  IgnoreStatuses = {404}
  Headers = TRUE
  LongLines = {"long"}
  DiffFaults = {"read"}
  uint16max = 3
  uint32max = 30
  MultiByte = {}
  Invalid = {}
  Resolution = 2
  DosFirst = 10
  DosSpan = 40
  TimeWidth = 60
  Alias = 4
  MinOffset <- MCMinOffset
  MaxOffset = 12
  Near = 2
  Far = 5
  LabelsOf <- MCLabelsOf
  ParameterOrder <- MCParameterOrder
  Holdings = {}
  AskedURLs = {}
  ListFaults = {}
  RootLists = {}
  Remaps = {}
  Requests = {}
  Stored = {}
  AskedNames = {}
  CacheFaults = {}
  Blots <- MCBlots
INVARIANTS
  FilesAreCopies
CHECK_DEADLOCK FALSE
