SPECIFICATION Spec
CONSTANTS
  Params <- MCParams
  Names <- MCNames
  Types <- MCTypes
  Hinted <- MCHinted
  GlobalLimit = 1
  MemoryLimit = 1
  MaxParts = 3
  MaxParamLength = 2
  MaxChunk = 2
  MaxPairs = 2
CHECK_DEADLOCK FALSE
INVARIANTS
  AcceptedWithinLimits
  ContentComplete
  FilesLiveWithRequest
