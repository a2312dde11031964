SPECIFICATION PackageSpec
CONSTANTS
  uint16max = 3
  uint32max = 7
  MultiByte = {"u"}
  Invalid = {"x"}
  Resolution = 2
  DosFirst = 10
  DosSpan = 40
  TimeWidth = 60
  Alias = 4
  MinOffset <- MCMinOffset
  MaxOffset = 12
  Near = 2
  Far = 5
  Plan <- MCPlan
  Blots <- MCBlots
  Chunks <- MCChunks
  Comments <- MCComments
  Procs = {p1, p2, p3}
  Readers = {r1, r2}
  Flates = {f1, f2}
  None = None
INVARIANTS
  ClosedIsReadBack
  TimesSurvive
  EncodingSurvives
  CutIsRefused
  DataIsAsWritten
  WorksAlone
