SPECIFICATION Spec
CONSTANTS
  k1 = k1
  long = long
  w1 = w1
  w2 = w2
  w3 = w3
  None = None
  Readers = {r1}
  Keys = {k1, long}
  LongKeys = {long}
  Writers = {w1, w2, w3}
  KeyOfWriter <- MCKeyOfWriter
  MaxChunks = 2
  Faults <- AllFaults
INVARIANTS
  TypeOK
  ReadersNeverFail
  NoLitter
PROPERTIES
  ImplementsStore
